--------------------------- MODULE CalendarProofs ---------------------------
(***************************************************************************)
(* Theorems about CalendarSync, for any number of sessions, any dates and  *)
(* windows and any number of requests and faults.                          *)
(***************************************************************************)
EXTENDS CalendarSync, FiniteSetTheorems, TLAPS

-----------------------------------------------------------------------------
\* The invariants.

\* The events the open requests have made or deleted and not yet committed.
SavedBy(op) == {s \in Open : session[s].op = op /\ session[s].pc = "save"}
HeldBy(op) == {session[s].event : s \in SavedBy(op)}

\* Creations whose call has not been made.
Calling == {s \in Open : session[s].op = "create" /\ session[s].pc = "call"}

\* A session's record, when `m` events have been made.
Fits(r, m) ==
    /\ r.op = "create" => r.row.linked = None
    /\ r.op \in {"update", "delete"} => r.row.linked # None
    /\ r.row.linked # None => r.row.linked \in 1..m
    /\ r.op = "change" <=> r.pc = "refresh"
    /\ r.pc # "save" => r.event = None
    /\ r.pc = "save" => r.event \in 1..m
    /\ r.pc = "save" /\ r.op \in {"update", "delete"} => r.event = r.row.linked

\* Event ids are given out in order, at most one per request.
Counts ==
    /\ \A e \in EventId : events[e] # None => e <= made
    /\ row.linked # None => row.linked <= made
    /\ IsFiniteSet(Creating)
    /\ made + Cardinality(Calling) <= Used("request")
    /\ \A o \in Outside : budget.left[o] <= budget.limit[o]

TypeInv == TypeOK /\ Counts /\ \A s \in Open : Fits(session[s], made)

\* A created event is known to its request only, until it is linked; a deleted
\* one is gone for good, and one request has deleted it.
Known ==
    /\ \A s \in SavedBy("create") :
        /\ events[session[s].event] # None
        /\ session[s].event # row.linked
        /\ \A t \in Open : session[t].row.linked # session[s].event
        /\ \A t \in Open \ {s} : session[t].event # session[s].event
    /\ \A s \in SavedBy("delete") :
        /\ events[session[s].event] = None
        /\ \A t \in SavedBy("delete") \ {s} : session[t].event # session[s].event

\* Events no row tells of: displaced by another link, or deleted after that.
Waste == {e \in EventId :
             /\ e # row.linked /\ e \notin HeldBy("create")
             /\ events[e] # None \/ e \in HeldBy("delete")}

\* How many links the open creations may still displace.
MayDisplace ==
    IF Creating = {} THEN 0
    ELSE Cardinality(Creating) - 1 + (IF row.linked = None THEN 0 ELSE 1)

WasteIsAccounted == Cardinality(Waste) + MayDisplace <= Used("fault") + races

LinkIsAccounted ==
    row.linked # None /\ row.linked \notin Existing =>
        Used("fault") > 0 \/ row.linked \in HeldBy("delete")

AccountInv == TypeInv /\ Known /\ WasteIsAccounted /\ LinkIsAccounted

\* A linked event shows the task as it is.
InSync ==
    row.linked # None =>
        /\ events[row.linked] # None
        /\ events[row.linked].title = row.title
        /\ events[row.linked].due = row.due
        /\ row.status = "SYNCED" /\ events[row.linked].window = row.window

\* A request that is open alone has loaded the row as it is, and saves what it
\* has sent.
Alone(s) ==
    /\ session[s].pc # "refresh" => session[s].row = row
    /\ session[s].pc = "save" /\ session[s].op # "delete" =>
           events[session[s].event] =
               [title |-> row.title, due |-> row.due, window |-> session[s].window]

ToldInv ==
    ~overlapped /\ Used("bot") = 0 =>
        /\ \A s, t \in Open : s = t
        /\ \A s \in Open : Alone(s)
        /\ Open = {} /\ ~warned => InSync

-----------------------------------------------------------------------------
\* Requests, rows and windows.

LEMMA BoundOnRequests ==
    /\ MaxRequests \in Nat
    /\ \A b \in Budgets : b["request"] \in Nat /\ b["request"] <= MaxRequests
<1>. DEFINE Counted == {b["request"] : b \in Budgets}
<1>1. \A b \in Budgets : b["request"] \in Nat
    BY ConstantsAssumption DEF Outside
<1>2. \E n \in Counted : \A b \in Budgets : b["request"] <= n
    BY ConstantsAssumption
<1>3. MaxRequests \in Counted /\ \A b \in Budgets : b["request"] <= MaxRequests
    BY <1>2 DEF MaxRequests
<1>. QED  BY <1>1, <1>3

LEMMA EventIdType == EventId \subseteq Nat \ {0} /\ None \notin EventId /\ IsFiniteSet(EventId)
<1>1. MaxRequests \in Nat
    BY BoundOnRequests
<1>2. IsFiniteSet(1..MaxRequests)
    BY <1>1, FS_Interval
<1>. QED  BY <1>1, <1>2, ConstantsAssumption DEF EventId

LEMMA WindowType ==
    ASSUME NEW r \in Row, NEW asked \in Window
    PROVE  ResolvedWindow(r, asked) \in Window
<1>. DEFINE to == Either(asked.to, Either(r.due, r.window.to))
            from == Either(asked.from, Either(r.start, r.window.from))
<1>1. to \in Int \cup {None} /\ from \in Int \cup {None}
    BY ConstantsAssumption DEF Row, Window, Either
<1>2. Half \in Int
    BY ConstantsAssumption
<1>. HIDE DEF to, from
<1>3. (IF from = None /\ to # None THEN to - Half ELSE from) \in Int \cup {None}
    BY <1>1, <1>2
<1>4. [from |-> IF from = None /\ to # None THEN to - Half ELSE from, to |-> to] \in Window
    BY <1>1, <1>3 DEF Window
<1>. QED  BY <1>4 DEF ResolvedWindow, to, from

LEMMA NoWindowType == NoWindow \in Window
    BY DEF NoWindow, Window

\* The UPDATE of a column that differs from the loaded row.
Column(c, old, new) == IF new[c] = old[c] THEN row[c] ELSE new[c]

LEMMA FlushWrites ==
    ASSUME row \in Row, NEW old \in Row, NEW new, Flush(old, new)
    PROVE  row' = [title |-> Column("title", old, new), due |-> Column("due", old, new),
                   start |-> Column("start", old, new),
                   linked |-> Column("linked", old, new),
                   status |-> Column("status", old, new),
                   window |-> Column("window", old, new)]
<1>1. DOMAIN row = {"title", "due", "start", "linked", "status", "window"}
    BY DEF Row
<1>2. row' = [c \in {"title", "due", "start", "linked", "status", "window"} |->
                Column(c, old, new)]
    BY <1>1 DEF Flush, Column
<1>. QED  BY <1>2

-----------------------------------------------------------------------------
\* Sessions.

\* A step of the session `s` leaves the other sessions alone.
LEMMA SessionStep ==
    ASSUME session \in [Sessions -> Session \cup {None}], NEW s \in Sessions, NEW x,
           session' = [session EXCEPT ![s] = x]
    PROVE  /\ session'[s] = x
           /\ \A t \in Sessions \ {s} : session'[t] = session[t]
           /\ Open' = IF x # None THEN Open \cup {s} ELSE Open \ {s}
           /\ Creating' = IF x # None /\ x.op = "create"
                          THEN Creating \cup {s} ELSE Creating \ {s}
           /\ Calling' = IF x # None /\ x.op = "create" /\ x.pc = "call"
                         THEN Calling \cup {s} ELSE Calling \ {s}
           /\ \A op \in Op :
                 SavedBy(op)' = IF x # None /\ x.op = op /\ x.pc = "save"
                                THEN SavedBy(op) \cup {s} ELSE SavedBy(op) \ {s}
<1>1. session'[s] = x /\ \A t \in Sessions \ {s} : session'[t] = session[t]
    OBVIOUS
<1>2. Open' = IF x # None THEN Open \cup {s} ELSE Open \ {s}
    BY <1>1 DEF Open
<1>3. Creating' = IF x # None /\ x.op = "create" THEN Creating \cup {s} ELSE Creating \ {s}
    BY <1>1, <1>2 DEF Creating, Open
<1>4. Calling' = IF x # None /\ x.op = "create" /\ x.pc = "call"
                 THEN Calling \cup {s} ELSE Calling \ {s}
    BY <1>1, <1>2 DEF Calling, Open
<1>5. ASSUME NEW op \in Op
      PROVE  SavedBy(op)' = IF x # None /\ x.op = op /\ x.pc = "save"
                            THEN SavedBy(op) \cup {s} ELSE SavedBy(op) \ {s}
    BY <1>1, <1>2 DEF SavedBy, Open
<1>. QED  BY <1>1, <1>2, <1>3, <1>4, <1>5

LEMMA SpendFacts ==
    ASSUME TypeInv, NEW e \in Outside, Spend(e)
    PROVE  /\ budget' \in [limit : Budgets, left : [Outside -> Nat]]
           /\ budget'.limit = budget.limit
           /\ \A f \in Outside : budget'.left[f] <= budget'.limit[f]
           /\ Used(e)' = Used(e) + 1
           /\ \A f \in Outside \ {e} : Used(f)' = Used(f)
<1>1. /\ budget \in [limit : Budgets, left : [Outside -> Nat]]
      /\ \A f \in Outside : budget.limit[f] \in Nat /\ budget.left[f] <= budget.limit[f]
      /\ budget.left[e] > 0 /\ budget' = [budget EXCEPT !.left[e] = @ - 1]
    BY ConstantsAssumption DEF TypeInv, TypeOK, Counts, Spend
<1>2. /\ budget'.limit = budget.limit
      /\ budget'.left = [budget.left EXCEPT ![e] = @ - 1]
      /\ budget' \in [limit : Budgets, left : [Outside -> Int]]
    BY <1>1
<1>3. /\ budget'.left[e] = budget.left[e] - 1 /\ budget.left[e] \in Nat
      /\ \A f \in Outside \ {e} : budget'.left[f] = budget.left[f] /\ budget.left[f] \in Nat
    BY <1>1, <1>2
<1>4. budget'.left \in [Outside -> Nat]
    BY <1>1, <1>2, <1>3
<1>. QED  BY <1>1, <1>2, <1>3, <1>4 DEF Used

LEMMA UsedType ==
    ASSUME TypeInv
    PROVE  /\ \A e \in Outside : Used(e) \in Nat
           /\ Used("request") <= MaxRequests
<1>1. \A e \in Outside : budget.limit[e] \in Nat /\ budget.left[e] \in Nat
                         /\ budget.left[e] <= budget.limit[e]
    BY ConstantsAssumption DEF TypeInv, TypeOK, Counts
<1>2. budget.limit \in Budgets /\ "request" \in Outside
    BY DEF TypeInv, TypeOK, Outside
<1>. QED  BY <1>1, <1>2, BoundOnRequests DEF Used

LEMMA OutsideNames == "request" \in Outside /\ "bot" \in Outside /\ "fault" \in Outside
    BY DEF Outside

LEMMA CallingFacts ==
    ASSUME TypeInv
    PROVE  IsFiniteSet(Calling) /\ Cardinality(Calling) \in Nat
<1>1. Calling \subseteq Creating /\ IsFiniteSet(Creating)
    BY DEF TypeInv, Counts, Calling, Creating
<1>2. IsFiniteSet(Calling)
    BY <1>1, FS_Subset
<1>. QED  BY <1>2, FS_CardinalityType

LEMMA CallingStep ==
    ASSUME TypeInv, NEW s \in Sessions, NEW x, session' = [session EXCEPT ![s] = x]
    PROVE  /\ IsFiniteSet(Creating') /\ Cardinality(Calling') \in Nat
           /\ Cardinality(Calling') <= Cardinality(Calling) + 1
           /\ ~(x # None /\ x.op = "create" /\ x.pc = "call") =>
                 IF s \in Calling THEN Cardinality(Calling') = Cardinality(Calling) - 1
                 ELSE Calling' = Calling
<1>1. /\ session \in [Sessions -> Session \cup {None}]
      /\ IsFiniteSet(Creating)
    BY DEF TypeInv, TypeOK, Counts
<1>2. IsFiniteSet(Calling) /\ Cardinality(Calling) \in Nat
    BY CallingFacts
<1>3. IsFiniteSet(Creating \cup {s}) /\ IsFiniteSet(Creating \ {s})
    BY <1>1, FS_AddElement, FS_RemoveElement
<1>4. /\ Creating' = Creating \cup {s} \/ Creating' = Creating \ {s}
      /\ Calling' = IF x # None /\ x.op = "create" /\ x.pc = "call"
                    THEN Calling \cup {s} ELSE Calling \ {s}
    BY <1>1, SessionStep
<1>5. /\ Cardinality(Calling \cup {s}) =
            IF s \in Calling THEN Cardinality(Calling) ELSE Cardinality(Calling) + 1
      /\ Cardinality(Calling \ {s}) =
            IF s \in Calling THEN Cardinality(Calling) - 1 ELSE Cardinality(Calling)
      /\ IsFiniteSet(Calling \cup {s}) /\ IsFiniteSet(Calling \ {s})
    BY <1>2, FS_AddElement, FS_RemoveElement
<1>6. Cardinality(Calling \cup {s}) \in Nat /\ Cardinality(Calling \ {s}) \in Nat
    BY <1>5, FS_CardinalityType
<1>7. s \notin Calling => Calling \ {s} = Calling
    OBVIOUS
<1>8. IsFiniteSet(Creating') /\ Cardinality(Calling') \in Nat
    BY <1>3, <1>4, <1>6
<1>9. Cardinality(Calling') <= Cardinality(Calling) + 1
    BY <1>2, <1>4, <1>5, <1>6
<1>10. ASSUME ~(x # None /\ x.op = "create" /\ x.pc = "call")
       PROVE  IF s \in Calling THEN Cardinality(Calling') = Cardinality(Calling) - 1
              ELSE Calling' = Calling
    BY <1>4, <1>5, <1>7, <1>10
<1>. QED  BY <1>8, <1>9, <1>10

\* What a step keeps, told of the one session it moves.
LEMMA StepType ==
    ASSUME TypeInv, NEW s \in Sessions, NEW x \in Session \cup {None},
           session' = [session EXCEPT ![s] = x], x # None => Fits(x, made'),
           row' \in Row, row'.linked # None => row'.linked <= made',
           events' \in [EventId -> Event \cup {None}],
           \A e \in EventId : events'[e] # None => e <= made',
           made' \in Nat, made <= made',
           made' + Cardinality(Calling') <= Used("request")',
           budget' \in [limit : Budgets, left : [Outside -> Nat]],
           \A e \in Outside : budget'.left[e] <= budget'.limit[e],
           warned' \in BOOLEAN, overlapped' \in BOOLEAN, races' \in Nat
    PROVE  TypeInv'
<1>1. session' \in [Sessions -> Session \cup {None}]
    BY DEF TypeInv, TypeOK
<1>2. Used("request")' \in Nat /\ Used("request")' <= MaxRequests
  <2>1. /\ budget'.limit["request"] \in Nat /\ budget'.left["request"] \in Nat
        /\ budget'.left["request"] <= budget'.limit["request"]
        /\ budget'.limit \in Budgets
      BY ConstantsAssumption, OutsideNames
  <2>. QED  BY <2>1, BoundOnRequests DEF Used
<1>3. IsFiniteSet(Creating') /\ Cardinality(Calling') \in Nat
    BY CallingStep
<1>4. made' \in 0..MaxRequests
    BY <1>2, <1>3, BoundOnRequests
<1>5. TypeOK'
    BY <1>1, <1>4 DEF TypeOK
<1>6. Counts'
    BY <1>3 DEF Counts
<1>7. ASSUME NEW t \in Open'
      PROVE  Fits(session'[t], made')
  <2>1. t \in Sessions /\ session'[t] # None
      BY <1>7 DEF Open
  <2>2. CASE t = s
      BY <2>1, <2>2 DEF TypeInv, TypeOK
  <2>3. CASE t # s
    <3>1. session'[t] = session[t] /\ t \in Open
        BY <2>1, <2>3 DEF TypeInv, TypeOK, Open
    <3>2. Fits(session[t], made) /\ made \in Nat
        BY <3>1, BoundOnRequests DEF TypeInv, TypeOK
    <3>3. Fits(session[t], made')
        BY <3>2 DEF Fits
    <3>. QED  BY <3>1, <3>3
  <2>. QED  BY <2>2, <2>3
<1>. QED  BY <1>5, <1>6, <1>7 DEF TypeInv

LEMMA OpenSession ==
    ASSUME TypeInv, NEW s \in Sessions, session[s] # None
    PROVE  /\ s \in Open /\ session[s] \in Session /\ Fits(session[s], made)
           /\ session[s].row \in Row /\ session[s].window \in Window
           /\ made \in Nat /\ row \in Row
<1>1. s \in Open /\ session[s] \in Session
    BY DEF TypeInv, TypeOK, Open
<1>. QED  BY <1>1, BoundOnRequests DEF TypeInv, TypeOK, Session

\* The call of a creation has an event id left for it.
LEMMA TargetType ==
    ASSUME TypeInv, NEW s \in Sessions, session[s] # None, session[s].pc = "call"
    PROVE  /\ Target(s) \in EventId
           /\ session[s].op = "create" <=> s \in Calling
           /\ session[s].op # "create" => Target(s) \in 1..made
<1>1. /\ s \in Open /\ session[s] \in Session /\ Fits(session[s], made)
      /\ made \in Nat
    BY OpenSession
<1>2. session[s].op = "create" <=> s \in Calling
    BY <1>1 DEF Calling
<1>3. CASE session[s].op = "create"
  <2>1. IsFiniteSet(Calling) /\ Cardinality(Calling) \in Nat
      BY CallingFacts
  <2>2. Cardinality(Calling) # 0
      BY <1>2, <1>3, <2>1, FS_EmptySet
  <2>3. made + 1 <= Used("request") /\ Used("request") \in Nat /\ Used("request") <= MaxRequests
      BY <1>1, <2>1, <2>2, UsedType, OutsideNames DEF TypeInv, Counts
  <2>4. made + 1 \in EventId
      BY <1>1, <2>3, BoundOnRequests DEF EventId
  <2>. QED  BY <1>2, <1>3, <2>4 DEF Target
<1>4. CASE session[s].op # "create"
  <2>1. session[s].op \in {"update", "delete"}
      BY <1>1, <1>4 DEF Fits, Session, Op
  <2>2. session[s].row.linked \in 1..made
      BY <1>1, <2>1 DEF Fits
  <2>3. made \in 0..MaxRequests
      BY DEF TypeInv, TypeOK
  <2>4. session[s].row.linked \in EventId
      BY <2>2, <2>3, BoundOnRequests DEF EventId
  <2>. QED  BY <1>2, <1>4, <2>2, <2>4 DEF Target
<1>. QED  BY <1>3, <1>4

\* What a call that takes effect does at Google.
LEMMA EffectType ==
    ASSUME TypeInv, NEW s \in Sessions, session[s] # None, session[s].pc = "call",
           TakesEffect(s)
    PROVE  /\ events' \in [EventId -> Event \cup {None}]
           /\ \A e \in EventId : events'[e] # None => e <= made'
           /\ made' \in Nat /\ made <= made' /\ Target(s) \in 1..made'
           /\ made' = IF s \in Calling THEN made + 1 ELSE made
<1>1. /\ session[s].row \in Row /\ session[s].window \in Window /\ made \in Nat
      /\ events \in [EventId -> Event \cup {None}]
      /\ \A e \in EventId : events[e] # None => e <= made
    BY OpenSession DEF TypeInv, TypeOK, Counts
<1>2. /\ Target(s) \in EventId
      /\ session[s].op = "create" <=> s \in Calling
      /\ session[s].op # "create" => Target(s) \in 1..made
    BY TargetType
<1>. DEFINE r == session[s].row
            written == [title |-> r.title, due |-> r.due, window |-> session[s].window]
            new == IF session[s].op = "delete" THEN None ELSE written
<1>3. written \in Event
    BY <1>1 DEF Row, Event
<1>4. new \in Event \cup {None}
    BY <1>3
<1>5. events' = [events EXCEPT ![Target(s)] = new]
    BY DEF TakesEffect
<1>6. made' = IF s \in Calling THEN made + 1 ELSE made
    BY <1>2 DEF TakesEffect
<1>7. Target(s) \in 1..made' /\ made' \in Nat /\ made <= made'
    BY <1>1, <1>2, <1>6 DEF Target
<1>. HIDE DEF new
<1>8. events' \in [EventId -> Event \cup {None}]
    BY <1>1, <1>4, <1>5
<1>9. ASSUME NEW e \in EventId, events'[e] # None
      PROVE  e <= made'
  <2>1. e = Target(s) \/ events[e] # None
      BY <1>1, <1>5, <1>9
  <2>2. e \in Nat
      BY EventIdType
  <2>. QED  BY <1>1, <1>7, <2>1, <2>2
<1>. QED  BY <1>6, <1>7, <1>8, <1>9

\* The three kinds of step: a request opens, one goes on, the bot steps in.
LEMMA RequestType ==
    ASSUME TypeInv, NEW s \in Sessions, NEW x \in Session \cup {None}, Opens(s),
           session' = [session EXCEPT ![s] = x], x # None => Fits(x, made),
           row' \in Row, row'.linked = row.linked, UNCHANGED <<events, made>>,
           warned' \in BOOLEAN, races' \in Nat
    PROVE  TypeInv'
<1>1. /\ budget' \in [limit : Budgets, left : [Outside -> Nat]]
      /\ \A e \in Outside : budget'.left[e] <= budget'.limit[e]
      /\ Used("request")' = Used("request") + 1
    BY SpendFacts, OutsideNames DEF Opens
<1>2. /\ Cardinality(Calling') <= Cardinality(Calling) + 1
      /\ Cardinality(Calling') \in Nat /\ Cardinality(Calling) \in Nat
    BY CallingStep, CallingFacts
<1>3. /\ made \in Nat /\ made + Cardinality(Calling) <= Used("request")
      /\ Used("request") \in Nat
    BY UsedType, BoundOnRequests, OutsideNames DEF TypeInv, TypeOK, Counts
<1>4. made' + Cardinality(Calling') <= Used("request")'
    BY <1>1, <1>2, <1>3
<1>5. overlapped' \in BOOLEAN
    BY DEF Opens, TypeInv, TypeOK
<1>6. /\ row'.linked # None => row'.linked <= made'
      /\ events' \in [EventId -> Event \cup {None}]
      /\ \A e \in EventId : events'[e] # None => e <= made'
      /\ made' \in Nat /\ made <= made'
    BY <1>3 DEF TypeInv, TypeOK, Counts
<1>7. x # None => Fits(x, made')
    OBVIOUS
<1>. QED  BY <1>1, <1>4, <1>5, <1>6, <1>7, StepType

LEMMA ProgressType ==
    ASSUME TypeInv, NEW s \in Sessions, NEW x \in Session \cup {None},
           session' = [session EXCEPT ![s] = x], x # None => Fits(x, made'),
           ~(x # None /\ x.op = "create" /\ x.pc = "call"),
           row' \in Row, row'.linked # None => row'.linked <= made',
           events' \in [EventId -> Event \cup {None}],
           \A e \in EventId : events'[e] # None => e <= made',
           made' = made \/ (s \in Calling /\ made' = made + 1),
           UNCHANGED budget \/ Spend("fault"),
           warned' \in BOOLEAN, UNCHANGED <<overlapped, races>>
    PROVE  TypeInv'
<1>1. /\ made \in Nat /\ made + Cardinality(Calling) <= Used("request")
      /\ Used("request") \in Nat
    BY UsedType, BoundOnRequests, OutsideNames DEF TypeInv, TypeOK, Counts
<1>2. /\ budget' \in [limit : Budgets, left : [Outside -> Nat]]
      /\ \A e \in Outside : budget'.left[e] <= budget'.limit[e]
      /\ Used("request")' = Used("request")
  <2>1. CASE UNCHANGED budget
      BY <2>1 DEF TypeInv, TypeOK, Counts, Used
  <2>2. CASE Spend("fault")
      BY <2>2, SpendFacts, OutsideNames
  <2>. QED  BY <2>1, <2>2
<1>3. Cardinality(Calling) \in Nat /\ Cardinality(Calling') \in Nat
    BY CallingFacts, CallingStep
<1>4. IF s \in Calling THEN Cardinality(Calling') = Cardinality(Calling) - 1
      ELSE Calling' = Calling
    BY CallingStep
<1>5. made' + Cardinality(Calling') <= Used("request")'
    BY <1>1, <1>2, <1>3, <1>4
<1>6. made' \in Nat /\ made <= made' /\ overlapped' \in BOOLEAN /\ races' \in Nat
    BY <1>1 DEF TypeInv, TypeOK
<1>. QED  BY <1>2, <1>5, <1>6, StepType

LEMMA BotType ==
    ASSUME TypeInv, Spend("bot"), row' \in Row, row'.linked = row.linked,
           UNCHANGED <<events, made, session, history>>
    PROVE  TypeInv'
<1>1. /\ budget' \in [limit : Budgets, left : [Outside -> Nat]]
      /\ \A e \in Outside : budget'.left[e] <= budget'.limit[e]
      /\ Used("request")' = Used("request")
    BY SpendFacts, OutsideNames
<1>2. TypeOK'
    BY <1>1 DEF TypeInv, TypeOK, history
<1>3. Counts'
    BY <1>1 DEF TypeInv, Counts, Creating, Calling, Open
<1>. QED  BY <1>2, <1>3 DEF TypeInv, Open

LEMMA LinkType ==
    ASSUME TypeInv, row.linked # None
    PROVE  row.linked \in 1..made
<1>1. row \in Row /\ made \in Nat
    BY BoundOnRequests DEF TypeInv, TypeOK
<1>2. row.linked <= made
    BY DEF TypeInv, Counts
<1>3. row.linked \in Nat \ {0}
    BY <1>1, EventIdType DEF Row
<1>. QED  BY <1>1, <1>2, <1>3

\* The record of a call that is to be made.
LEMMA CallRecord ==
    ASSUME TypeInv, NEW w \in Window, NEW op \in {"create", "update", "delete"},
           op = "create" <=> row.linked = None
    PROVE  LET x == [op |-> op, pc |-> "call", row |-> row, window |-> w, event |-> None]
           IN  x \in Session /\ Fits(x, made) /\ x # None
<1>. DEFINE x == [op |-> op, pc |-> "call", row |-> row, window |-> w, event |-> None]
<1>1. row \in Row /\ made \in Nat
    BY BoundOnRequests DEF TypeInv, TypeOK
<1>2. x \in Session
    BY <1>1 DEF Session, Op
<1>3. row.linked # None => row.linked \in 1..made
    BY LinkType
<1>4. Fits(x, made)
    BY <1>3 DEF Fits
<1>. QED  BY <1>2, <1>4, NoneAssumption

LEMMA RequestCreateType ==
    ASSUME TypeInv, NEW s \in Sessions, NEW asked \in Windows, RequestCreate(s, asked)
    PROVE  TypeInv'
<1>. DEFINE w == ResolvedWindow(row, asked)
            x == [op |-> "create", pc |-> "call", row |-> row, window |-> w,
                  event |-> None]
<1>1. row \in Row /\ asked \in Window /\ races \in Nat /\ warned \in BOOLEAN
    BY ConstantsAssumption DEF TypeInv, TypeOK
<1>2. w \in Window
    BY <1>1, WindowType
<1>3. Opens(s) /\ UNCHANGED <<row, events, made>> /\ session[s] = None
    BY DEF RequestCreate, Opens
<1>4. CASE UNCHANGED session /\ races' = races /\ warned' \in BOOLEAN
  <2>1. session' = [session EXCEPT ![s] = None]
      BY <1>3, <1>4 DEF TypeInv, TypeOK
  <2>. QED  BY <1>1, <1>3, <1>4, <2>1, RequestType
<1>5. CASE /\ ~Reuses(row) /\ Calls(s, "create", row, w)
           /\ races' = races + (IF Creating = {} THEN 0 ELSE 1)
           /\ UNCHANGED warned
  <2>1. x \in Session /\ Fits(x, made)
      BY <1>2, <1>5, CallRecord DEF Reuses
  <2>2. session' = [session EXCEPT ![s] = x]
      BY <1>5 DEF Calls
  <2>3. races' \in Nat /\ warned' \in BOOLEAN
      BY <1>1, <1>5
  <2>. HIDE DEF x
  <2>. QED  BY <1>1, <1>3, <2>1, <2>2, <2>3, RequestType
<1>. QED  BY <1>1, <1>4, <1>5 DEF RequestCreate

LEMMA RequestUpdateType ==
    ASSUME TypeInv, NEW s \in Sessions, NEW asked \in Windows, RequestUpdate(s, asked)
    PROVE  TypeInv'
<1>. DEFINE w == ResolvedWindow(row, asked)
            x == [op |-> "update", pc |-> "call", row |-> row, window |-> w,
                  event |-> None]
<1>1. row \in Row /\ asked \in Window /\ races \in Nat /\ warned \in BOOLEAN
    BY ConstantsAssumption DEF TypeInv, TypeOK
<1>2. w \in Window
    BY <1>1, WindowType
<1>3. Opens(s) /\ UNCHANGED <<row, events, made, races>> /\ session[s] = None
    BY DEF RequestUpdate, Opens
<1>4. CASE UNCHANGED session /\ warned' \in BOOLEAN
  <2>1. session' = [session EXCEPT ![s] = None]
      BY <1>3, <1>4 DEF TypeInv, TypeOK
  <2>. QED  BY <1>1, <1>3, <1>4, <2>1, RequestType
<1>5. CASE row.linked # None /\ Calls(s, "update", row, w) /\ UNCHANGED warned
  <2>1. x \in Session /\ Fits(x, made)
      BY <1>2, <1>5, CallRecord
  <2>2. session' = [session EXCEPT ![s] = x]
      BY <1>5 DEF Calls
  <2>. HIDE DEF x
  <2>. QED  BY <1>1, <1>3, <1>5, <2>1, <2>2, RequestType
<1>. QED  BY <1>4, <1>5 DEF RequestUpdate

LEMMA RequestDeleteType ==
    ASSUME TypeInv, NEW s \in Sessions, RequestDelete(s)
    PROVE  TypeInv'
<1>. DEFINE x == [op |-> "delete", pc |-> "call", row |-> row, window |-> NoWindow,
                  event |-> None]
<1>1. row \in Row /\ races \in Nat /\ warned \in BOOLEAN
    BY DEF TypeInv, TypeOK
<1>2. /\ Opens(s) /\ UNCHANGED <<row, events, made, warned, races>>
      /\ session[s] = None
    BY DEF RequestDelete, Opens
<1>3. CASE row.linked = None
  <2>1. session' = [session EXCEPT ![s] = None]
      BY <1>2, <1>3 DEF RequestDelete, TypeInv, TypeOK
  <2>. QED  BY <1>1, <1>2, <2>1, RequestType
<1>4. CASE row.linked # None
  <2>1. x \in Session /\ Fits(x, made)
      BY <1>4, CallRecord, NoWindowType
  <2>2. session' = [session EXCEPT ![s] = x]
      BY <1>4 DEF RequestDelete, Calls
  <2>. HIDE DEF x
  <2>. QED  BY <1>1, <1>2, <2>1, <2>2, RequestType
<1>. QED  BY <1>3, <1>4

LEMMA ChangesType ==
    ASSUME TypeInv, NEW c \in Changes
    PROVE  c[1] \in Nat /\ c[2] \in Dues
    BY DEF Changes, TypeInv, TypeOK, Row

LEMMA RequestChangeType ==
    ASSUME TypeInv, NEW s \in Sessions, NEW c \in Changes, RequestChange(s, c[1], c[2])
    PROVE  TypeInv'
<1>. DEFINE x == [op |-> "change", pc |-> "refresh", row |-> row', window |-> NoWindow,
                  event |-> None]
<1>1. row \in Row /\ races \in Nat /\ warned \in BOOLEAN /\ c[1] \in Nat /\ c[2] \in Dues
    BY ChangesType DEF TypeInv, TypeOK
<1>2. /\ Opens(s) /\ UNCHANGED <<events, made, warned, races>>
      /\ row' = [row EXCEPT !.title = c[1], !.due = c[2]]
      /\ session' = [session EXCEPT ![s] = x]
    BY DEF RequestChange
<1>3. row' \in Row /\ row'.linked = row.linked
    BY <1>1, <1>2 DEF Row
<1>4. x \in Session
    BY <1>3, NoWindowType DEF Session, Op
<1>5. Fits(x, made)
    BY <1>3, LinkType DEF Fits
<1>. HIDE DEF x
<1>. QED  BY <1>1, <1>2, <1>3, <1>4, <1>5, RequestType

LEMMA SyncLinkedType ==
    ASSUME TypeInv, NEW s \in Sessions, SyncLinked(s)
    PROVE  TypeInv'
<1>. DEFINE w == ResolvedWindow(row, NoWindow)
            x == [op |-> "update", pc |-> "call", row |-> row, window |-> w,
                  event |-> None]
<1>1. row \in Row /\ warned \in BOOLEAN
    BY DEF TypeInv, TypeOK
<1>2. w \in Window
    BY <1>1, WindowType, NoWindowType
<1>3. UNCHANGED <<row, events, made, budget, overlapped, races>>
    BY DEF SyncLinked
<1>4. /\ row'.linked # None => row'.linked <= made' /\ row' \in Row
      /\ events' \in [EventId -> Event \cup {None}]
      /\ \A e \in EventId : events'[e] # None => e <= made'
    BY <1>3 DEF TypeInv, TypeOK, Counts
<1>5. CASE Close(s) /\ warned' \in BOOLEAN
    BY <1>1, <1>3, <1>4, <1>5, ProgressType DEF Close
<1>6. CASE row.linked # None /\ Calls(s, "update", row, w) /\ UNCHANGED warned
  <2>1. x \in Session /\ Fits(x, made)
      BY <1>2, <1>6, CallRecord
  <2>2. session' = [session EXCEPT ![s] = x] /\ x.op # "create"
      BY <1>6 DEF Calls
  <2>. HIDE DEF x
  <2>. QED  BY <1>1, <1>3, <1>4, <1>6, <2>1, <2>2, ProgressType
<1>. QED  BY <1>1, <1>5, <1>6 DEF SyncLinked

\* The answer moves the session; the record keeps what it was asked for.
LEMMA AnswerRecord ==
    ASSUME TypeInv, NEW s \in Sessions, session[s] # None, session[s].pc = "call",
           made' \in Nat, made <= made'
    PROVE  /\ [session[s] EXCEPT !.pc = "mark"] \in Session
           /\ Fits([session[s] EXCEPT !.pc = "mark"], made')
           /\ Target(s) \in 1..made' =>
                 /\ [session[s] EXCEPT !.pc = "save", !.event = Target(s)] \in Session
                 /\ Fits([session[s] EXCEPT !.pc = "save", !.event = Target(s)], made')
<1>1. session[s] \in Session /\ Fits(session[s], made) /\ made \in Nat
    BY OpenSession
<1>2. Target(s) \in EventId
    BY TargetType
<1>3. session[s].op # "change" /\ session[s].event = None
    BY <1>1 DEF Fits
<1>4. session[s].op \in {"update", "delete"} =>
          Target(s) = session[s].row.linked /\ session[s].row.linked \in 1..made'
    BY <1>1 DEF Fits, Target
<1>. DEFINE failed == [session[s] EXCEPT !.pc = "mark"]
            saved == [session[s] EXCEPT !.pc = "save", !.event = Target(s)]
<1>5. /\ failed \in Session /\ saved \in Session
      /\ failed.op = session[s].op /\ failed.row = session[s].row
      /\ failed.event = None /\ failed.pc = "mark"
      /\ saved.op = session[s].op /\ saved.row = session[s].row
      /\ saved.event = Target(s) /\ saved.pc = "save"
    BY <1>1, <1>2, <1>3 DEF Session
<1>. HIDE DEF failed, saved
<1>6. Fits(failed, made')
    BY <1>1, <1>3, <1>4, <1>5 DEF Fits
<1>7. ASSUME Target(s) \in 1..made'
      PROVE  Fits(saved, made')
    BY <1>1, <1>3, <1>4, <1>5, <1>7 DEF Fits
<1>. QED  BY <1>5, <1>6, <1>7 DEF failed, saved

LEMMA CallType ==
    ASSUME TypeInv, NEW s \in Sessions,
           CallSucceeds(s) \/ CallRefused(s) \/ CallGarbled(s) \/ CallBroken(s)
    PROVE  TypeInv'
<1>1. /\ session[s] # None /\ session[s].pc = "call" /\ s \in Open
      /\ session \in [Sessions -> Session \cup {None}] /\ made \in Nat
      /\ row \in Row /\ warned \in BOOLEAN
    BY OpenSession, BoundOnRequests
       DEF CallSucceeds, CallRefused, CallGarbled, CallBroken, TypeInv, TypeOK
<1>2. /\ row'.linked # None => row'.linked <= made
      /\ row' \in Row /\ UNCHANGED <<overlapped, races>>
    BY <1>1 DEF CallSucceeds, CallRefused, CallGarbled, CallBroken, history,
                TypeInv, Counts
<1>3. ASSUME TakesEffect(s)
      PROVE  /\ events' \in [EventId -> Event \cup {None}]
             /\ \A e \in EventId : events'[e] # None => e <= made'
             /\ made' \in Nat /\ made <= made' /\ Target(s) \in 1..made'
             /\ made' = made \/ (s \in Calling /\ made' = made + 1)
             /\ row'.linked # None => row'.linked <= made'
  <2>1. row'.linked # None => row'.linked \in Nat
      BY <1>2, EventIdType DEF Row
  <2>2. /\ events' \in [EventId -> Event \cup {None}]
        /\ \A e \in EventId : events'[e] # None => e <= made'
        /\ made' \in Nat /\ made <= made' /\ Target(s) \in 1..made'
        /\ made' = IF s \in Calling THEN made + 1 ELSE made
      BY <1>1, <1>3, EffectType
  <2>. QED  BY <1>1, <1>2, <2>1, <2>2
<1>4. ASSUME UNCHANGED <<events, made>>
      PROVE  /\ events' \in [EventId -> Event \cup {None}]
             /\ \A e \in EventId : events'[e] # None => e <= made'
             /\ made' \in Nat /\ made <= made' /\ made' = made
             /\ row'.linked # None => row'.linked <= made'
    BY <1>1, <1>2, <1>4 DEF TypeInv, TypeOK, Counts
<1>. DEFINE failed == [session[s] EXCEPT !.pc = "mark"]
            saved == [session[s] EXCEPT !.pc = "save", !.event = Target(s)]
<1>5. CASE CallSucceeds(s)
  <2>1. saved \in Session /\ Fits(saved, made')
      BY <1>1, <1>3, <1>5, AnswerRecord DEF CallSucceeds
  <2>2. session' = [session EXCEPT ![s] = saved] /\ UNCHANGED <<budget, warned>>
      BY <1>1, <1>5 DEF CallSucceeds, history
  <2>3. saved.pc # "call"
      BY <1>1 DEF TypeInv, TypeOK, Session
  <2>4. TakesEffect(s)
      BY <1>5 DEF CallSucceeds
  <2>. HIDE DEF saved
  <2>. QED  BY <1>1, <1>2, <1>3, <2>1, <2>2, <2>3, <2>4, ProgressType
<1>6. CASE CallRefused(s)
  <2>1. UNCHANGED <<events, made, warned>> /\ (UNCHANGED budget \/ Spend("fault"))
      BY <1>6 DEF CallRefused, history
  <2>2. failed \in Session /\ Fits(failed, made')
    <3>1. made' \in Nat /\ made <= made'
        BY <1>4, <2>1
    <3>. QED  BY <1>1, <3>1, AnswerRecord
  <2>3. session' = [session EXCEPT ![s] = failed]
      BY <1>1, <1>6 DEF CallRefused
  <2>4. failed.pc # "call"
      BY <1>1 DEF TypeInv, TypeOK, Session
  <2>. HIDE DEF failed
  <2>. QED  BY <1>1, <1>2, <1>4, <2>1, <2>2, <2>3, <2>4, ProgressType
<1>7. CASE CallGarbled(s)
  <2>1. failed \in Session /\ Fits(failed, made')
    <3>1. made' \in Nat /\ made <= made'
        BY <1>3, <1>7 DEF CallGarbled
    <3>. QED  BY <1>1, <3>1, AnswerRecord
  <2>2. session' = [session EXCEPT ![s] = failed] /\ UNCHANGED warned /\ Spend("fault")
      BY <1>1, <1>7 DEF CallGarbled, history
  <2>3. failed.pc # "call"
      BY <1>1 DEF TypeInv, TypeOK, Session
  <2>4. TakesEffect(s)
      BY <1>7 DEF CallGarbled
  <2>. HIDE DEF failed
  <2>. QED  BY <1>1, <1>2, <1>3, <2>1, <2>2, <2>3, <2>4, ProgressType
<1>8. CASE CallBroken(s)
  <2>1. /\ session' = [session EXCEPT ![s] = None]
        /\ warned' \in BOOLEAN /\ Spend("fault")
      BY <1>8 DEF CallBroken, Close
  <2>2. UNCHANGED <<events, made>> \/ TakesEffect(s)
      BY <1>8 DEF CallBroken
  <2>3. CASE UNCHANGED <<events, made>>
      BY <1>1, <1>2, <1>4, <2>1, <2>3, ProgressType
  <2>4. CASE TakesEffect(s)
      BY <1>1, <1>2, <1>3, <2>1, <2>4, ProgressType
  <2>. QED  BY <2>2, <2>3, <2>4
<1>. QED  BY <1>5, <1>6, <1>7, <1>8

\* The row a request saves: its link is the event it has made or updated.
LEMMA SavedRow ==
    ASSUME TypeInv, NEW s \in Sessions, session[s] # None, session[s].pc = "save"
    PROVE  LET new == Saved(session[s].op, session[s].row, session[s].event,
                            session[s].window)
           IN  /\ new \in Row
               /\ new.title = session[s].row.title /\ new.due = session[s].row.due
               /\ new.start = session[s].row.start
               /\ new.linked = IF session[s].op = "delete" THEN None ELSE session[s].event
               /\ new.status = IF session[s].op = "delete" THEN "UNLINKED" ELSE "SYNCED"
               /\ new.window = IF session[s].op = "delete" THEN session[s].row.window
                               ELSE session[s].window
<1>1. session[s] \in Session /\ session[s].row \in Row /\ session[s].window \in Window
    BY OpenSession
<1>2. session[s].event \in EventId
    BY <1>1, BoundOnRequests, ConstantsAssumption, OpenSession DEF Session, Fits
<1>. QED  BY <1>1, <1>2 DEF Saved, Row

LEMMA MarkedRow ==
    ASSUME NEW old \in Row
    PROVE  LET new == [old EXCEPT !.status = "ERROR"]
           IN  /\ new \in Row /\ new.status = "ERROR" /\ new.title = old.title
               /\ new.due = old.due /\ new.start = old.start /\ new.linked = old.linked
               /\ new.window = old.window
    BY DEF Row

LEMMA FlushType ==
    ASSUME row \in Row, NEW old \in Row, NEW new \in Row, Flush(old, new)
    PROVE  /\ row' \in Row
           /\ row'.linked = IF new.linked = old.linked THEN row.linked ELSE new.linked
    BY FlushWrites DEF Row, Column

LEMMA SettleType ==
    ASSUME TypeInv, NEW s \in Sessions, CutOff(s) \/ Save(s) \/ MarkError(s)
    PROVE  TypeInv'
<1>1. /\ session[s] # None /\ session[s].row \in Row /\ row \in Row /\ made \in Nat
      /\ Fits(session[s], made) /\ Close(s)
    BY OpenSession DEF CutOff, Save, MarkError
<1>2. /\ UNCHANGED <<events, made, overlapped, races>> /\ warned' \in BOOLEAN
      /\ UNCHANGED budget \/ Spend("fault")
    BY DEF CutOff, Save, MarkError
<1>3. row' \in Row /\ (row'.linked # None => row'.linked <= made)
  <2>1. row.linked # None => row.linked <= made
      BY DEF TypeInv, Counts
  <2>2. CASE CutOff(s)
      BY <1>1, <2>1, <2>2 DEF CutOff
  <2>3. CASE Save(s)
    <3>. DEFINE new == Saved(session[s].op, session[s].row, session[s].event,
                             session[s].window)
    <3>1. /\ new \in Row
          /\ new.linked = IF session[s].op = "delete" THEN None ELSE session[s].event
        BY <1>1, <2>3, SavedRow DEF Save
    <3>2. session[s].event <= made
        BY <1>1, <2>3 DEF Save, Fits
    <3>3. Flush(session[s].row, new)
        BY <2>3 DEF Save
    <3>. HIDE DEF new
    <3>. QED  BY <1>1, <2>1, <3>1, <3>2, <3>3, FlushType
  <2>4. CASE MarkError(s)
    <3>. DEFINE new == [session[s].row EXCEPT !.status = "ERROR"]
    <3>1. new \in Row /\ new.linked = session[s].row.linked
        BY <1>1, MarkedRow
    <3>2. Flush(session[s].row, new)
        BY <2>4 DEF MarkError
    <3>. HIDE DEF new
    <3>. QED  BY <1>1, <2>1, <3>1, <3>2, FlushType
  <2>. QED  BY <2>2, <2>3, <2>4
<1>4. /\ row'.linked # None => row'.linked <= made'
      /\ events' \in [EventId -> Event \cup {None}]
      /\ \A e \in EventId : events'[e] # None => e <= made'
    BY <1>2, <1>3 DEF TypeInv, TypeOK, Counts
<1>. QED  BY <1>1, <1>2, <1>3, <1>4, ProgressType DEF Close

LEMMA BotChangeType ==
    ASSUME TypeInv, NEW c \in Changes, BotChange(c[1], c[2])
    PROVE  TypeInv'
<1>1. row \in Row /\ c[1] \in Nat /\ c[2] \in Dues
    BY ChangesType DEF TypeInv, TypeOK
<1>2. /\ row' = [row EXCEPT !.title = c[1], !.due = c[2]] /\ Spend("bot")
      /\ UNCHANGED <<events, made, session, history>>
    BY DEF BotChange
<1>3. row' \in Row /\ row'.linked = row.linked
    BY <1>1, <1>2 DEF Row
<1>. QED  BY <1>2, <1>3, BotType

LEMMA TypeInit == Init => TypeInv
<1>. SUFFICES ASSUME Init PROVE TypeInv
    OBVIOUS
<1>1. row \in Row /\ row.linked = None
    BY NoWindowType DEF Init, Row
<1>2. Open = {} /\ Creating = {} /\ Calling = {}
    BY DEF Init, Open, Creating, Calling
<1>3. /\ budget \in [limit : Budgets, left : [Outside -> Nat]]
      /\ budget.left = budget.limit
      /\ \A e \in Outside : budget.limit[e] \in Nat
    BY ConstantsAssumption DEF Init
<1>4. TypeOK
  <2>1. made \in 0..MaxRequests /\ races \in Nat
      BY BoundOnRequests DEF Init
  <2>2. events \in [EventId -> Event \cup {None}]
      BY DEF Init
  <2>3. session \in [Sessions -> Session \cup {None}]
      BY DEF Init
  <2>. QED  BY <1>1, <1>3, <2>1, <2>2, <2>3 DEF Init, TypeOK
<1>5. Used("request") = 0
    BY <1>3, OutsideNames DEF Used
<1>6. Counts
    BY <1>1, <1>2, <1>3, <1>5, FS_EmptySet DEF Init, Counts
<1>. QED  BY <1>2, <1>4, <1>6 DEF TypeInv

LEMMA TypeNext == TypeInv /\ [Next]_vars => TypeInv'
<1>. SUFFICES ASSUME TypeInv, [Next]_vars PROVE TypeInv'
    OBVIOUS
<1>1. ASSUME NEW s \in Sessions, Serve(s) PROVE TypeInv'
    BY <1>1, SyncLinkedType, CallType, SettleType DEF Serve
<1>2. ASSUME NEW s \in Sessions, Fail(s) PROVE TypeInv'
    BY <1>2, CallType, SettleType DEF Fail
<1>3. ASSUME NEW s \in Sessions, Request(s) PROVE TypeInv'
    BY <1>3, RequestCreateType, RequestUpdateType, RequestDeleteType, RequestChangeType
       DEF Request
<1>4. CASE \E c \in Changes : BotChange(c[1], c[2])
    BY <1>4, BotChangeType
<1>5. CASE UNCHANGED vars
  <2>1. TypeOK'
      BY <1>5 DEF TypeInv, TypeOK, vars
  <2>2. Counts'
      BY <1>5 DEF TypeInv, Counts, vars, Creating, Calling, Open, Used
  <2>. QED  BY <1>5, <2>1, <2>2 DEF TypeInv, Open, vars
<1>. QED  BY <1>1, <1>2, <1>3, <1>4, <1>5 DEF Next

\* Every variable of the calendar's model has its type: Google has no more
\* events than requests have asked for.
THEOREM TypeCorrect == Spec => []TypeOK
<1>1. TypeInv => TypeOK
    BY DEF TypeInv
<1>. QED  BY <1>1, TypeInit, TypeNext, PTL DEF Spec

-----------------------------------------------------------------------------
\* Events and those who know of them.

LEMMA SavedSession ==
    ASSUME TypeInv, NEW op \in {"create", "update", "delete"}, NEW t \in SavedBy(op)
    PROVE  /\ t \in Sessions /\ t \in Open /\ session[t] \in Session
           /\ session[t].op = op /\ session[t].pc = "save"
           /\ session[t].event \in 1..made /\ session[t].event \in EventId
           /\ session[t].event # None
<1>1. t \in Sessions /\ session[t] # None /\ session[t].op = op /\ session[t].pc = "save"
    BY DEF SavedBy, Open
<1>2. t \in Open /\ session[t] \in Session /\ Fits(session[t], made) /\ made \in 0..MaxRequests
    BY <1>1, OpenSession DEF TypeInv, TypeOK
<1>3. session[t].event \in 1..made
    BY <1>1, <1>2 DEF Fits
<1>. QED  BY <1>1, <1>2, <1>3, BoundOnRequests, EventIdType DEF EventId

\* A call that takes effect concerns an event that is new, or that exists and
\* has been linked: not one only a request knows of, nor a deleted one.
LEMMA EffectElsewhere ==
    ASSUME TypeInv, Known, NEW s \in Sessions, session[s] # None,
           session[s].pc = "call", Possible(s), TakesEffect(s),
           NEW op \in {"create", "delete"}, NEW t \in SavedBy(op)
    PROVE  /\ session[t].event # Target(s) /\ t # s
           /\ events'[session[t].event] = events[session[t].event]
<1>1. /\ t \in Open /\ session[t].event \in 1..made /\ session[t].event \in EventId
      /\ session[t].pc = "save"
    BY SavedSession
<1>2. s \in Open /\ made \in Nat /\ session[s] \in Session /\ Fits(session[s], made)
    BY OpenSession
<1>3. session[t].event # Target(s)
  <2>1. CASE session[s].op = "create"
      BY <1>1, <1>2, <2>1 DEF Target
  <2>2. CASE session[s].op # "create"
    <3>1. Target(s) = session[s].row.linked /\ events[Target(s)] # None
        BY <2>2 DEF Target, Possible
    <3>. QED  BY <1>1, <1>2, <3>1 DEF Known
  <2>. QED  BY <2>1, <2>2
<1>4. events'[session[t].event] = events[session[t].event]
    BY <1>1, <1>3 DEF TakesEffect, TypeInv, TypeOK
<1>. QED  BY <1>1, <1>3, <1>4

\* A step by which no request comes to save anything.
LEMMA KnownKept ==
    ASSUME TypeInv, Known, NEW s \in Sessions, NEW x,
           session' = [session EXCEPT ![s] = x],
           x # None => /\ x.pc # "save" /\ x.event = None
                       /\ \/ x.row.linked = row.linked
                          \/ s \in Open /\ x.row.linked = session[s].row.linked,
           \/ row'.linked \in {row.linked, None}
           \/ s \in Open /\ row'.linked = session[s].event,
           \A op \in {"create", "delete"} : \A t \in SavedBy(op) \ {s} :
               events'[session[t].event] = events[session[t].event]
    PROVE  Known'
<1>1. /\ session'[s] = x
      /\ \A t \in Sessions \ {s} : session'[t] = session[t]
      /\ Open' = IF x # None THEN Open \cup {s} ELSE Open \ {s}
      /\ \A op \in Op : SavedBy(op)' = SavedBy(op) \ {s}
    BY SessionStep DEF TypeInv, TypeOK
<1>2. "create" \in Op /\ "delete" \in Op
    BY DEF Op
<1>3. ASSUME NEW t \in SavedBy("create")'
      PROVE  /\ events'[session'[t].event] # None /\ session'[t].event # row'.linked
             /\ \A u \in Open' : session'[u].row.linked # session'[t].event
             /\ \A u \in Open' \ {t} : session'[u].event # session'[t].event
  <2>1. t \in SavedBy("create") /\ t # s
      BY <1>1, <1>2
  <2>2. /\ t \in Open /\ t \in Sessions /\ session[t].event # None
        /\ session'[t] = session[t]
      BY <1>1, <2>1, SavedSession
  <2>3. /\ events[session[t].event] # None
        /\ session[t].event # row.linked
        /\ \A u \in Open : session[u].row.linked # session[t].event
        /\ \A u \in Open \ {t} : session[u].event # session[t].event
      BY <2>1 DEF Known
  <2>4. events'[session'[t].event] # None /\ session'[t].event # row'.linked
      BY <2>1, <2>2, <2>3
  <2>5. ASSUME NEW u \in Open'
        PROVE  /\ session'[u].row.linked # session'[t].event
               /\ u # t => session'[u].event # session'[t].event
    <3>1. CASE u = s
      <4>1. x # None /\ session'[u] = x
          BY <1>1, <3>1
      <4>. QED  BY <2>2, <2>3, <4>1
    <3>2. CASE u # s
      <4>1. u \in Open /\ u \in Sessions
          BY <1>1, <3>2 DEF Open
      <4>. QED  BY <1>1, <2>2, <2>3, <3>2, <4>1
    <3>. QED  BY <3>1, <3>2
  <2>. QED  BY <2>4, <2>5
<1>4. ASSUME NEW t \in SavedBy("delete")'
      PROVE  /\ events'[session'[t].event] = None
             /\ \A u \in SavedBy("delete")' \ {t} : session'[u].event # session'[t].event
  <2>1. t \in SavedBy("delete") /\ t # s
      BY <1>1, <1>2
  <2>2. t \in Sessions /\ session'[t] = session[t]
      BY <1>1, <2>1, SavedSession
  <2>3. events[session[t].event] = None
      BY <2>1 DEF Known
  <2>4. ASSUME NEW u \in SavedBy("delete")' \ {t}
        PROVE  session'[u].event # session'[t].event
    <3>1. u \in SavedBy("delete") \ {t} /\ u # s
        BY <1>1, <1>2
    <3>2. u \in Sessions /\ session'[u] = session[u]
        BY <1>1, <3>1, SavedSession
    <3>. QED  BY <2>1, <2>2, <3>1, <3>2 DEF Known
  <2>. QED  BY <2>1, <2>2, <2>3, <2>4
<1>. QED  BY <1>3, <1>4 DEF Known

\* Opening a request, refreshing and marking: no event is touched, and no request
\* comes to save one.
Touches(s, x) ==
    /\ session' = [session EXCEPT ![s] = x]
    /\ x # None => /\ x.pc # "save" /\ x.event = None
                   /\ \/ x.row.linked = row.linked
                      \/ s \in Open /\ x.row.linked = session[s].row.linked
    /\ row'.linked = row.linked
    /\ s \in Open => session[s].pc # "save"
    /\ UNCHANGED events

LEMMA MarkLink ==
    ASSUME TypeInv, NEW s \in Sessions, MarkError(s)
    PROVE  row'.linked = row.linked
<1>. DEFINE new == [session[s].row EXCEPT !.status = "ERROR"]
<1>1. session[s].row \in Row /\ row \in Row
    BY OpenSession DEF MarkError
<1>2. new \in Row /\ new.linked = session[s].row.linked
    BY <1>1, MarkedRow
<1>3. Flush(session[s].row, new)
    BY DEF MarkError
<1>. HIDE DEF new
<1>. QED  BY <1>1, <1>2, <1>3, FlushType

LEMMA ChangeLink ==
    ASSUME TypeInv, NEW title, NEW due,
           row' = [row EXCEPT !.title = title, !.due = due]
    PROVE  /\ row'.linked = row.linked /\ row'.title = title /\ row'.due = due
           /\ row'.status = row.status /\ row'.window = row.window
    BY DEF TypeInv, TypeOK, Row

LEMMA RequestTouches ==
    ASSUME TypeInv, NEW s \in Sessions, Request(s)
    PROVE  \E x : /\ Touches(s, x) /\ Opens(s) /\ UNCHANGED made
                  /\ \/ x # None /\ x.op = "create" /\ row.linked = None
                        /\ races' = races + (IF Creating = {} THEN 0 ELSE 1)
                     \/ (x = None \/ x.op # "create") /\ races' = races
<1>1. /\ session[s] = None /\ s \notin Open
      /\ Opens(s) /\ UNCHANGED <<events, made>>
    BY DEF Request, RequestCreate, RequestUpdate, RequestDelete, RequestChange,
           Opens, Open
<1>2. CASE UNCHANGED <<session, races, row>>
  <2>1. session' = [session EXCEPT ![s] = None]
      BY <1>1, <1>2 DEF TypeInv, TypeOK
  <2>. QED  BY <1>1, <1>2, <2>1 DEF Touches
<1>3. CASE \E asked \in Windows : RequestCreate(s, asked) /\ ~UNCHANGED <<session, races, row>>
  <2>1. PICK asked \in Windows :
            /\ ~Reuses(row) /\ Calls(s, "create", row, ResolvedWindow(row, asked))
            /\ races' = races + (IF Creating = {} THEN 0 ELSE 1) /\ UNCHANGED row
      BY <1>3 DEF RequestCreate
  <2>. DEFINE x == [op |-> "create", pc |-> "call", row |-> row,
                    window |-> ResolvedWindow(row, asked), event |-> None]
  <2>2. /\ session' = [session EXCEPT ![s] = x] /\ row.linked = None
        /\ x.op = "create" /\ x.pc = "call" /\ x.event = None
        /\ x.row.linked = row.linked
      BY <2>1 DEF Calls, Reuses
  <2>3. x # None
      BY <2>1, ConstantsAssumption, WindowType, CallRecord DEF Reuses, TypeInv, TypeOK
  <2>. HIDE DEF x
  <2>. QED  BY <1>1, <2>1, <2>2, <2>3 DEF Touches
<1>4. CASE \/ \E asked \in Windows : RequestUpdate(s, asked) /\ ~UNCHANGED session
           \/ RequestDelete(s) /\ ~UNCHANGED session
  <2>1. PICK op \in {"update", "delete"} :
            UNCHANGED <<row, races>> /\ \E v : Calls(s, op, row, v)
      BY <1>4 DEF RequestUpdate, RequestDelete
  <2>. PICK w : Calls(s, op, row, w)
      BY <2>1
  <2>. DEFINE x == [op |-> op, pc |-> "call", row |-> row, window |-> w, event |-> None]
  <2>2. /\ session' = [session EXCEPT ![s] = x]
        /\ x.op # "create" /\ x.pc = "call" /\ x.event = None
        /\ x.row.linked = row.linked
      BY <2>1 DEF Calls
  <2>. HIDE DEF x
  <2>. QED  BY <1>1, <2>1, <2>2 DEF Touches
<1>5. CASE \E c \in Changes : RequestChange(s, c[1], c[2])
  <2>1. PICK c \in Changes : RequestChange(s, c[1], c[2])
      BY <1>5
  <2>. DEFINE x == [op |-> "change", pc |-> "refresh", row |-> row',
                    window |-> NoWindow, event |-> None]
  <2>2. row'.linked = row.linked
      BY <2>1, ChangeLink DEF RequestChange
  <2>3. /\ session' = [session EXCEPT ![s] = x] /\ UNCHANGED races
        /\ x.op # "create" /\ x.pc = "refresh" /\ x.event = None
        /\ x.row.linked = row.linked
      BY <2>1, <2>2 DEF RequestChange
  <2>. HIDE DEF x
  <2>. QED  BY <1>1, <2>2, <2>3 DEF Touches
<1>6. \/ UNCHANGED <<session, races, row>>
      \/ \E asked \in Windows : RequestCreate(s, asked) /\ ~UNCHANGED <<session, races, row>>
      \/ \E asked \in Windows : RequestUpdate(s, asked) /\ ~UNCHANGED session
      \/ RequestDelete(s) /\ ~UNCHANGED session
      \/ \E c \in Changes : RequestChange(s, c[1], c[2])
    BY DEF Request, RequestUpdate, RequestDelete, RequestCreate
<1>. QED  BY <1>2, <1>3, <1>4, <1>5, <1>6

LEMMA SyncTouches ==
    ASSUME TypeInv, NEW s \in Sessions, SyncLinked(s)
    PROVE  \E x : /\ Touches(s, x) /\ s \in Open /\ UNCHANGED <<made, budget, races>>
                  /\ session[s].op # "create" /\ (x = None \/ x.op # "create")
<1>1. /\ s \in Open /\ session[s].pc = "refresh" /\ session[s].op # "create"
      /\ UNCHANGED <<row, events, made, budget, races>>
    BY OpenSession DEF SyncLinked, Fits
<1>2. CASE Close(s)
    BY <1>1, <1>2 DEF Touches, Close
<1>3. CASE Calls(s, "update", row, ResolvedWindow(row, NoWindow))
  <2>. DEFINE x == [op |-> "update", pc |-> "call", row |-> row,
                    window |-> ResolvedWindow(row, NoWindow), event |-> None]
  <2>1. /\ session' = [session EXCEPT ![s] = x]
        /\ x.op # "create" /\ x.pc = "call" /\ x.event = None
        /\ x.row.linked = row.linked
      BY <1>3 DEF Calls
  <2>. HIDE DEF x
  <2>. QED  BY <1>1, <2>1 DEF Touches
<1>. QED  BY <1>2, <1>3 DEF SyncLinked

LEMMA RefusedTouches ==
    ASSUME TypeInv, NEW s \in Sessions, CallRefused(s)
    PROVE  \E x : /\ Touches(s, x) /\ s \in Open /\ UNCHANGED <<made, races>>
                  /\ UNCHANGED budget \/ Spend("fault")
                  /\ x # None => x.op = session[s].op
<1>1. /\ s \in Open /\ session[s] \in Session /\ session[s].pc = "call"
      /\ session[s].event = None
      /\ UNCHANGED <<row, events, made, races>>
      /\ UNCHANGED budget \/ Spend("fault")
    BY OpenSession DEF CallRefused, Fits, history
<1>. DEFINE x == [session[s] EXCEPT !.pc = "mark"]
<1>2. session' = [session EXCEPT ![s] = x]
    BY <1>1 DEF CallRefused, TypeInv, TypeOK
<1>3. x.pc = "mark" /\ x.event = None /\ x.row = session[s].row /\ x.op = session[s].op
    BY <1>1 DEF Session
<1>. HIDE DEF x
<1>. QED  BY <1>1, <1>2, <1>3 DEF Touches

LEMMA MarkTouches ==
    ASSUME TypeInv, NEW s \in Sessions, MarkError(s)
    PROVE  Touches(s, None) /\ s \in Open /\ UNCHANGED <<made, budget, races>>
    BY MarkLink DEF MarkError, Close, Touches, Open

LEMMA TouchesKnown ==
    ASSUME TypeInv, Known, NEW s \in Sessions, NEW x, Touches(s, x)
    PROVE  Known'
    BY KnownKept DEF Touches

\* A call takes effect, whatever comes of its answer.
LEMMA EffectFacts ==
    ASSUME TypeInv, NEW s \in Sessions, session[s] # None, session[s].pc = "call",
           TakesEffect(s)
    PROVE  /\ Target(s) \in EventId /\ session[s].op \in {"create", "update", "delete"}
           /\ events'[Target(s)] = None <=> session[s].op = "delete"
           /\ \A e \in EventId \ {Target(s)} : events'[e] = events[e]
<1>1. Target(s) \in EventId
    BY TargetType
<1>2. session[s] \in Session /\ Fits(session[s], made)
    BY OpenSession
<1>. DEFINE r == session[s].row
            written == [title |-> r.title, due |-> r.due, window |-> session[s].window]
<1>3. written # None
    BY <1>2, NoneAssumption DEF Session, Row, Event
<1>4. events' = [events EXCEPT ![Target(s)] =
                    IF session[s].op = "delete" THEN None ELSE written]
    BY DEF TakesEffect
<1>. HIDE DEF written
<1>5. /\ events'[Target(s)] = None <=> session[s].op = "delete"
      /\ \A e \in EventId \ {Target(s)} : events'[e] = events[e]
    BY <1>1, <1>3, <1>4 DEF TypeInv, TypeOK
<1>6. session[s].op \in {"create", "update", "delete"}
    BY <1>2 DEF Session, Op, Fits
<1>. QED  BY <1>1, <1>5, <1>6

LEMMA LostKnown ==
    ASSUME TypeInv, Known, NEW s \in Sessions, CallGarbled(s) \/ CallBroken(s)
    PROVE  Known'
<1>1. /\ session[s] # None /\ session[s].pc = "call" /\ s \in Open
      /\ session[s] \in Session /\ session[s].event = None
      /\ row' = row
    BY OpenSession DEF CallGarbled, CallBroken, Fits
<1>2. \A op \in {"create", "delete"} : \A t \in SavedBy(op) \ {s} :
          events'[session[t].event] = events[session[t].event]
  <2>1. CASE UNCHANGED events
      BY <2>1
  <2>2. CASE Possible(s) /\ TakesEffect(s)
      BY <1>1, <2>2, EffectElsewhere
  <2>. QED  BY <2>1, <2>2 DEF CallGarbled, CallBroken
<1>3. CASE CallBroken(s)
    BY <1>1, <1>2, <1>3, KnownKept DEF CallBroken, Close
<1>4. CASE CallGarbled(s)
  <2>. DEFINE x == [session[s] EXCEPT !.pc = "mark"]
  <2>1. session' = [session EXCEPT ![s] = x]
      BY <1>1, <1>4 DEF CallGarbled, TypeInv, TypeOK
  <2>2. x.pc = "mark" /\ x.event = None /\ x.row = session[s].row
      BY <1>1 DEF Session
  <2>. HIDE DEF x
  <2>. QED  BY <1>1, <1>2, <2>1, <2>2, KnownKept
<1>. QED  BY <1>3, <1>4

\* The link a save leaves.
LEMMA SaveLink ==
    ASSUME TypeInv, NEW s \in Sessions, Save(s)
    PROVE  /\ s \in Open /\ session[s].pc = "save"
           /\ session[s].op \in {"create", "update", "delete"}
           /\ session[s].event \in EventId
           /\ row'.linked = CASE session[s].op = "create" -> session[s].event
                              [] session[s].op = "update" -> row.linked
                              [] session[s].op = "delete" -> None
<1>1. /\ session[s] # None /\ session[s].pc = "save" /\ s \in Open
      /\ session[s] \in Session /\ session[s].row \in Row /\ row \in Row
      /\ Fits(session[s], made)
    BY OpenSession DEF Save
<1>2. session[s].op \in {"create", "update", "delete"}
    BY <1>1 DEF Fits, Session, Op
<1>3. session[s].event \in EventId
    BY <1>1, <1>2, SavedSession DEF SavedBy
<1>. DEFINE new == Saved(session[s].op, session[s].row, session[s].event,
                         session[s].window)
<1>4. /\ new \in Row
      /\ new.linked = IF session[s].op = "delete" THEN None ELSE session[s].event
    BY <1>1, SavedRow
<1>5. Flush(session[s].row, new)
    BY DEF Save
<1>. HIDE DEF new
<1>6. row'.linked = IF new.linked = session[s].row.linked THEN row.linked ELSE new.linked
    BY <1>1, <1>4, <1>5, FlushType
<1>7. CASE session[s].op = "create"
  <2>1. session[s].row.linked = None /\ session[s].event # None
      BY <1>1, <1>3, <1>7, EventIdType DEF Fits
  <2>. QED  BY <1>1, <1>2, <1>3, <1>4, <1>6, <1>7, <2>1
<1>8. CASE session[s].op = "update"
  <2>1. session[s].row.linked = session[s].event
      BY <1>1, <1>8 DEF Fits
  <2>. QED  BY <1>1, <1>2, <1>3, <1>4, <1>6, <1>8, <2>1
<1>9. CASE session[s].op = "delete"
  <2>1. session[s].row.linked # None
      BY <1>1, <1>9 DEF Fits
  <2>. QED  BY <1>1, <1>2, <1>3, <1>4, <1>6, <1>9, <2>1
<1>. QED  BY <1>2, <1>7, <1>8, <1>9

LEMMA ClosedKnown ==
    ASSUME TypeInv, Known, NEW s \in Sessions, CutOff(s) \/ Save(s)
    PROVE  Known'
<1>1. session' = [session EXCEPT ![s] = None] /\ UNCHANGED events
    BY DEF CutOff, Save, Close
<1>2. \/ row'.linked \in {row.linked, None}
      \/ s \in Open /\ row'.linked = session[s].event
    BY SaveLink DEF CutOff
<1>. QED  BY <1>1, <1>2, KnownKept

LEMMA SucceedsKnown ==
    ASSUME TypeInv, Known, NEW s \in Sessions, CallSucceeds(s)
    PROVE  Known'
<1>. DEFINE x == [session[s] EXCEPT !.pc = "save", !.event = Target(s)]
<1>1. /\ session[s] # None /\ session[s].pc = "call" /\ s \in Open
      /\ session[s] \in Session /\ Fits(session[s], made) /\ made \in Nat
      /\ Possible(s) /\ TakesEffect(s) /\ row' = row
    BY OpenSession DEF CallSucceeds
<1>2. x \in Session /\ x.op = session[s].op /\ x.pc = "save" /\ x.event = Target(s)
      /\ x.row = session[s].row /\ x # None
    BY <1>1, TargetType, NoneAssumption DEF Session
<1>3. session' = [session EXCEPT ![s] = x]
    BY <1>1 DEF CallSucceeds, TypeInv, TypeOK
<1>. HIDE DEF x
<1>4. /\ session'[s] = x
      /\ \A t \in Sessions \ {s} : session'[t] = session[t]
      /\ Open' = Open
      /\ \A op \in Op : SavedBy(op)' =
             IF session[s].op = op THEN SavedBy(op) \cup {s} ELSE SavedBy(op) \ {s}
  <2>1. /\ session'[s] = x
        /\ \A t \in Sessions \ {s} : session'[t] = session[t]
        /\ Open' = IF x # None THEN Open \cup {s} ELSE Open \ {s}
        /\ \A op \in Op : SavedBy(op)' = IF x # None /\ x.op = op /\ x.pc = "save"
                                         THEN SavedBy(op) \cup {s} ELSE SavedBy(op) \ {s}
      BY <1>3, SessionStep DEF TypeInv, TypeOK
  <2>. QED  BY <1>1, <1>2, <2>1
<1>5. "create" \in Op /\ "delete" \in Op
    BY DEF Op
<1>6. /\ events'[Target(s)] = None <=> session[s].op = "delete"
      /\ \A e \in EventId \ {Target(s)} : events'[e] = events[e]
      /\ Target(s) \in EventId
    BY <1>1, EffectFacts
\* Nobody knows of an event that is new.
<1>7. ASSUME session[s].op = "create"
      PROVE  /\ Target(s) # row.linked
             /\ \A u \in Open : session[u].row.linked # Target(s)
                                /\ session[u].event # Target(s)
  <2>1. Target(s) = made + 1
      BY <1>7 DEF Target
  <2>2. row.linked # Target(s)
      BY <1>1, <2>1, LinkType, EventIdType, <1>6
  <2>3. ASSUME NEW u \in Open
        PROVE  session[u].row.linked # Target(s) /\ session[u].event # Target(s)
    <3>1. Fits(session[u], made)
        BY DEF TypeInv
    <3>2. /\ session[u].row.linked = None \/ session[u].row.linked \in 1..made
          /\ session[u].event = None \/ session[u].event \in 1..made
        BY <3>1 DEF Fits
    <3>. QED  BY <1>1, <1>6, <2>1, <3>2, EventIdType
  <2>. QED  BY <2>2, <2>3
<1>8. ASSUME NEW t \in SavedBy("create")'
      PROVE  /\ events'[session'[t].event] # None /\ session'[t].event # row'.linked
             /\ \A u \in Open' : session'[u].row.linked # session'[t].event
             /\ \A u \in Open' \ {t} : session'[u].event # session'[t].event
  <2>1. CASE t = s
    <3>1. session[s].op = "create"
        BY <1>4, <1>5, <2>1
    <3>2. events'[Target(s)] # None /\ Target(s) # row'.linked
        BY <1>1, <1>6, <1>7, <3>1
    <3>3. ASSUME NEW u \in Open'
          PROVE  session'[u].row.linked # Target(s)
                 /\ (u # s => session'[u].event # Target(s))
      <4>1. u \in Open /\ u \in Sessions
          BY <1>4 DEF Open
      <4>2. session'[u].row = session[u].row /\ (u # s => session'[u].event = session[u].event)
          BY <1>2, <1>4, <4>1
      <4>. QED  BY <1>7, <3>1, <4>1, <4>2
    <3>. QED  BY <1>2, <1>4, <2>1, <3>2, <3>3
  <2>2. CASE t # s
    <3>1. t \in SavedBy("create")
        BY <1>4, <1>5, <2>2
    <3>2. /\ t \in Open /\ t \in Sessions /\ session'[t] = session[t]
          /\ session[t].event # Target(s)
          /\ events'[session[t].event] = events[session[t].event]
        BY <1>1, <1>4, <2>2, <3>1, SavedSession, EffectElsewhere
    <3>3. ASSUME NEW u \in Open'
          PROVE  session'[u].row.linked # session[t].event
                 /\ (u # t => session'[u].event # session[t].event)
      <4>1. u \in Open /\ u \in Sessions
          BY <1>4 DEF Open
      <4>2. /\ session'[u].row = session[u].row
            /\ session'[u].event = IF u = s THEN Target(s) ELSE session[u].event
          BY <1>2, <1>4, <4>1
      <4>. QED  BY <3>1, <3>2, <4>1, <4>2 DEF Known
    <3>. QED  BY <1>1, <3>1, <3>2, <3>3 DEF Known
  <2>. QED  BY <2>1, <2>2
<1>9. ASSUME NEW t \in SavedBy("delete")'
      PROVE  /\ events'[session'[t].event] = None
             /\ \A u \in SavedBy("delete")' \ {t} : session'[u].event # session'[t].event
  <2>1. ASSUME NEW u \in SavedBy("delete")', u # s
        PROVE  /\ u \in SavedBy("delete") /\ session'[u] = session[u]
               /\ session[u].event # Target(s)
               /\ events'[session[u].event] = events[session[u].event]
    <3>1. u \in SavedBy("delete")
        BY <1>4, <1>5, <2>1
    <3>. QED  BY <1>1, <1>4, <2>1, <3>1, SavedSession, EffectElsewhere
  <2>2. CASE t = s
    <3>1. session[s].op = "delete"
        BY <1>4, <1>5, <2>2
    <3>. QED  BY <1>2, <1>4, <1>6, <2>1, <2>2, <3>1
  <2>3. CASE t # s
    <3>1. /\ events[session[t].event] = None
          /\ \A u \in SavedBy("delete") \ {t} : session[u].event # session[t].event
        BY <2>1, <2>3 DEF Known
    <3>2. ASSUME NEW u \in SavedBy("delete")' \ {t}
          PROVE  session'[u].event # session[t].event
        BY <1>2, <1>4, <2>1, <2>3, <3>1
    <3>. QED  BY <2>1, <2>3, <3>1, <3>2
  <2>. QED  BY <2>2, <2>3
<1>. QED  BY <1>8, <1>9 DEF Known

LEMMA BotKnown ==
    ASSUME TypeInv, Known, row'.linked = row.linked, UNCHANGED <<events, session>>
    PROVE  Known'
    BY DEF Known, SavedBy, Open

-----------------------------------------------------------------------------
\* Waste and links are accounted for.

LEMMA IdsAreFinite ==
    ASSUME NEW A \in SUBSET EventId
    PROVE  IsFiniteSet(A) /\ Cardinality(A) \in Nat
    BY EventIdType, FS_Subset, FS_CardinalityType

\* One id more is at most one more; one for another is not more.
LEMMA OneMore ==
    ASSUME NEW A \in SUBSET EventId, NEW B \in SUBSET EventId, NEW y,
           B \subseteq A \cup {y}
    PROVE  Cardinality(B) <= Cardinality(A) + 1
<1>1. IsFiniteSet(A) /\ Cardinality(A) \in Nat /\ Cardinality(B) \in Nat
    BY IdsAreFinite
<1>2. /\ IsFiniteSet(A \cup {y})
      /\ Cardinality(A \cup {y}) = IF y \in A THEN Cardinality(A) ELSE Cardinality(A) + 1
    BY <1>1, FS_AddElement
<1>3. Cardinality(B) <= Cardinality(A \cup {y})
    BY <1>2, FS_Subset
<1>. QED  BY <1>1, <1>2, <1>3

LEMMA NoMore ==
    ASSUME NEW A \in SUBSET EventId, NEW B \in SUBSET EventId,
           B \subseteq A \/ \E y, d : d \in A /\ B \subseteq (A \ {d}) \cup {y}
    PROVE  Cardinality(B) <= Cardinality(A)
<1>1. IsFiniteSet(A) /\ Cardinality(A) \in Nat
    BY IdsAreFinite
<1>2. CASE B \subseteq A
    BY <1>1, <1>2, FS_Subset
<1>3. CASE \E y, d : d \in A /\ B \subseteq (A \ {d}) \cup {y}
  <2>1. PICK y, d : d \in A /\ B \subseteq (A \ {d}) \cup {y}
      BY <1>3
  <2>2. Cardinality(A \ {d}) = Cardinality(A) - 1
      BY <1>1, <2>1, FS_RemoveElement
  <2>3. Cardinality(B) <= Cardinality(A \ {d}) + 1
      BY <2>1, OneMore
  <2>. QED  BY <1>1, <2>2, <2>3
<1>. QED  BY <1>2, <1>3

LEMMA HeldStep ==
    ASSUME TypeInv, NEW s \in Sessions, NEW x, session' = [session EXCEPT ![s] = x],
           NEW op \in {"create", "delete"}
    PROVE  LET saves == x # None /\ x.op = op /\ x.pc = "save"
           IN  /\ HeldBy(op)' \subseteq HeldBy(op) \cup (IF saves THEN {x.event} ELSE {})
               /\ HeldBy(op) \subseteq HeldBy(op)' \cup
                      (IF s \in SavedBy(op) THEN {session[s].event} ELSE {})
               /\ saves => x.event \in HeldBy(op)'
<1>. DEFINE saves == x # None /\ x.op = op /\ x.pc = "save"
<1>1. op \in Op
    BY DEF Op
<1>2. /\ session'[s] = x
      /\ \A t \in Sessions \ {s} : session'[t] = session[t]
      /\ SavedBy(op)' = IF saves THEN SavedBy(op) \cup {s} ELSE SavedBy(op) \ {s}
    BY <1>1, SessionStep DEF TypeInv, TypeOK
<1>3. SavedBy(op) \subseteq Sessions
    BY DEF SavedBy, Open
<1>4. /\ HeldBy(op)' = {session'[t].event : t \in SavedBy(op)'}
      /\ HeldBy(op) = {session[t].event : t \in SavedBy(op)}
    BY DEF HeldBy
<1>. HIDE DEF saves
<1>5. HeldBy(op)' \subseteq HeldBy(op) \cup (IF saves THEN {x.event} ELSE {})
    BY <1>2, <1>3, <1>4
<1>6. HeldBy(op) \subseteq HeldBy(op)' \cup
          (IF s \in SavedBy(op) THEN {session[s].event} ELSE {})
    BY <1>2, <1>3, <1>4
<1>7. saves => x.event \in HeldBy(op)'
    BY <1>2, <1>4
<1>. QED  BY <1>5, <1>6, <1>7 DEF saves

LEMMA TouchesWaste ==
    ASSUME TypeInv, NEW s \in Sessions, NEW x, Touches(s, x)
    PROVE  /\ Waste' = Waste
           /\ HeldBy("create")' = HeldBy("create") /\ HeldBy("delete")' = HeldBy("delete")
           /\ Creating' = IF x # None /\ x.op = "create"
                          THEN Creating \cup {s} ELSE Creating \ {s}
<1>1. /\ session' = [session EXCEPT ![s] = x] /\ UNCHANGED events
      /\ x # None => x.pc # "save"
      /\ row'.linked = row.linked
      /\ s \in Open => session[s].pc # "save"
    BY DEF Touches
<1>2. s \notin SavedBy("create") /\ s \notin SavedBy("delete")
    BY <1>1 DEF SavedBy
<1>3. HeldBy("create")' = HeldBy("create")
    BY <1>1, <1>2, HeldStep
<1>4. HeldBy("delete")' = HeldBy("delete")
    BY <1>1, <1>2, HeldStep
<1>5. Waste' = Waste
    BY <1>1, <1>3, <1>4 DEF Waste
<1>6. Creating' = IF x # None /\ x.op = "create"
                  THEN Creating \cup {s} ELSE Creating \ {s}
    BY <1>1, SessionStep DEF TypeInv, TypeOK
<1>. QED  BY <1>3, <1>4, <1>5, <1>6

LEMMA DisplaceType ==
    ASSUME IsFiniteSet(Creating)
    PROVE  /\ MayDisplace \in Nat /\ Cardinality(Creating) \in Nat
           /\ Creating # {} => Cardinality(Creating) > 0
<1>1. Cardinality(Creating) \in Nat
    BY FS_CardinalityType
<1>2. Creating # {} => Cardinality(Creating) # 0
    BY FS_EmptySet
<1>. QED  BY <1>1, <1>2 DEF MayDisplace

LEMMA DisplaceTypeAfter ==
    ASSUME IsFiniteSet(Creating')
    PROVE  /\ MayDisplace' \in Nat /\ Cardinality(Creating') \in Nat
           /\ Creating' # {} => Cardinality(Creating') > 0
<1>1. Cardinality(Creating') \in Nat
    BY FS_CardinalityType
<1>2. Creating' # {} => Cardinality(Creating') # 0
    BY FS_EmptySet
<1>. QED  BY <1>1, <1>2 DEF MayDisplace

\* How a step changes what the open creations may displace.
LEMMA DisplaceStep ==
    ASSUME TypeInv, NEW s,
           Creating' \in {Creating, Creating \ {s}, Creating \cup {s}}
    PROVE  /\ MayDisplace \in Nat /\ MayDisplace' \in Nat
           /\ Creating' \subseteq Creating /\ (row'.linked = None \/ row.linked # None) =>
                 MayDisplace' <= MayDisplace
           /\ Creating' = Creating \ {s} /\ s \in Creating =>
                 MayDisplace' <= Cardinality(Creating) - 1
           /\ s \in Creating => MayDisplace = IF row.linked = None THEN Cardinality(Creating) - 1
                                              ELSE Cardinality(Creating)
           /\ s \notin Creating /\ row.linked = None /\ row'.linked = None =>
                 MayDisplace' <= MayDisplace + (IF Creating = {} THEN 0 ELSE 1)
<1>1. IsFiniteSet(Creating)
    BY DEF TypeInv, Counts
<1>2. /\ IsFiniteSet(Creating \cup {s}) /\ IsFiniteSet(Creating \ {s})
      /\ Cardinality(Creating \cup {s}) =
            IF s \in Creating THEN Cardinality(Creating) ELSE Cardinality(Creating) + 1
      /\ Cardinality(Creating \ {s}) =
            IF s \in Creating THEN Cardinality(Creating) - 1 ELSE Cardinality(Creating)
    BY <1>1, FS_AddElement, FS_RemoveElement
<1>3. IsFiniteSet(Creating')
    BY <1>1, <1>2
<1>4. /\ MayDisplace \in Nat /\ Cardinality(Creating) \in Nat
      /\ MayDisplace' \in Nat /\ Cardinality(Creating') \in Nat
      /\ Creating # {} => Cardinality(Creating) > 0
      /\ Creating' # {} => Cardinality(Creating') > 0
    BY <1>1, <1>3, DisplaceType, DisplaceTypeAfter
<1>5. /\ MayDisplace = IF Creating = {} THEN 0
             ELSE Cardinality(Creating) - 1 + (IF row.linked = None THEN 0 ELSE 1)
      /\ MayDisplace' = IF Creating' = {} THEN 0
             ELSE Cardinality(Creating') - 1 + (IF row'.linked = None THEN 0 ELSE 1)
    BY DEF MayDisplace
<1>6. ASSUME Creating' \subseteq Creating, row'.linked = None \/ row.linked # None
      PROVE  MayDisplace' <= MayDisplace
  <2>1. Cardinality(Creating') <= Cardinality(Creating)
      BY <1>1, <1>6, FS_Subset
  <2>2. Creating = {} => Creating' = {}
      BY <1>6
  <2>. QED  BY <1>4, <1>5, <1>6, <2>1, <2>2
<1>7. ASSUME Creating' = Creating \ {s}, s \in Creating
      PROVE  MayDisplace' <= Cardinality(Creating) - 1
  <2>1. Cardinality(Creating') = Cardinality(Creating) - 1
      BY <1>2, <1>7
  <2>2. Creating # {}
      BY <1>7
  <2>. QED  BY <1>4, <1>5, <2>1, <2>2
<1>8. ASSUME s \in Creating
      PROVE  MayDisplace = IF row.linked = None THEN Cardinality(Creating) - 1
                           ELSE Cardinality(Creating)
    BY <1>4, <1>5, <1>8
<1>9. ASSUME s \notin Creating, row.linked = None, row'.linked = None
      PROVE  MayDisplace' <= MayDisplace + (IF Creating = {} THEN 0 ELSE 1)
  <2>1. Cardinality(Creating') <= Cardinality(Creating) + 1
      BY <1>2, <1>4, <1>9
  <2>2. Creating = {} => Cardinality(Creating) = 0
      BY FS_EmptySet
  <2>. QED  BY <1>4, <1>5, <1>9, <2>1, <2>2
<1>. QED  BY <1>4, <1>6, <1>7, <1>8, <1>9

LEMMA FaultCount ==
    ASSUME TypeInv
    PROVE  /\ Used("fault") \in Nat
           /\ UNCHANGED budget => Used("fault")' = Used("fault")
           /\ Spend("request") \/ Spend("bot") => Used("fault")' = Used("fault")
           /\ Spend("fault") => Used("fault")' = Used("fault") + 1
<1>1. UNCHANGED budget => Used("fault")' = Used("fault")
    BY DEF Used
<1>2. ASSUME NEW e \in {"request", "bot"}, Spend(e) PROVE Used("fault")' = Used("fault")
    BY <1>2, SpendFacts, OutsideNames
<1>3. Spend("fault") => Used("fault")' = Used("fault") + 1
    BY SpendFacts, OutsideNames
<1>. QED  BY <1>1, <1>2, <1>3, UsedType, OutsideNames

LEMMA WasteTypes ==
    /\ Waste \in SUBSET EventId /\ Waste' \in SUBSET EventId
    /\ Cardinality(Waste) \in Nat /\ Cardinality(Waste') \in Nat
<1>1. Waste \in SUBSET EventId /\ Waste' \in SUBSET EventId
    BY DEF Waste
<1>. QED  BY <1>1, IdsAreFinite

\* A step after which a link tells of what it told of.
LEMMA LinkKept ==
    ASSUME TypeInv, LinkIsAccounted, row'.linked = row.linked,
           row.linked \in Existing => row.linked \in Existing',
           HeldBy("delete") \subseteq HeldBy("delete")',
           Used("fault")' = Used("fault")
    PROVE  LinkIsAccounted'
    BY DEF LinkIsAccounted

LEMMA LinkAfterFault ==
    ASSUME TypeInv, Spend("fault")
    PROVE  LinkIsAccounted'
<1>1. Used("fault")' > 0
    BY FaultCount
<1>. QED  BY <1>1 DEF LinkIsAccounted

\* A creation begun while another one is open is counted as a race.
CountsRaces(s, x) ==
    \/ /\ s \notin Open
       /\ \/ /\ x # None /\ x.op = "create" /\ row.linked = None
             /\ races' = races + (IF Creating = {} THEN 0 ELSE 1)
          \/ (x = None \/ x.op # "create") /\ races' = races
    \/ s \in Open /\ races' = races /\ (x # None /\ x.op = "create" => s \in Creating)

\* Requests, the refresh, a refused call and its mark touch no event.
LEMMA TouchesAccount ==
    ASSUME AccountInv, NEW s \in Sessions, NEW x, Touches(s, x), CountsRaces(s, x),
           UNCHANGED budget \/ Spend("request") \/ Spend("fault")
    PROVE  WasteIsAccounted' /\ LinkIsAccounted'
<1>1. TypeInv /\ WasteIsAccounted /\ LinkIsAccounted
    BY DEF AccountInv
<1>2. /\ Waste' = Waste /\ HeldBy("delete")' = HeldBy("delete")
      /\ Creating' = IF x # None /\ x.op = "create" THEN Creating \cup {s} ELSE Creating \ {s}
    BY <1>1, TouchesWaste
<1>3. row'.linked = row.linked /\ UNCHANGED events
    BY DEF Touches
<1>4. /\ Used("fault") \in Nat
      /\ Used("fault")' \in {Used("fault"), Used("fault") + 1}
      /\ ~Spend("fault") => Used("fault")' = Used("fault")
    BY <1>1, FaultCount
<1>5. /\ MayDisplace \in Nat /\ MayDisplace' \in Nat /\ races \in Nat
      /\ \E more \in Nat : MayDisplace' <= MayDisplace + more /\ races' = races + more
  <2>1. /\ MayDisplace \in Nat /\ MayDisplace' \in Nat
        /\ Creating' \subseteq Creating => MayDisplace' <= MayDisplace
        /\ s \notin Creating /\ row.linked = None /\ row'.linked = None =>
               MayDisplace' <= MayDisplace + (IF Creating = {} THEN 0 ELSE 1)
      BY <1>1, <1>2, <1>3, DisplaceStep
  <2>2. races \in Nat
      BY <1>1 DEF TypeInv, TypeOK
  <2>3. CASE Creating' \subseteq Creating /\ races' = races
    <3>1. MayDisplace' <= MayDisplace + 0 /\ races' = races + 0
        BY <2>1, <2>2, <2>3
    <3>. QED  BY <2>1, <2>2, <3>1
  <2>4. CASE /\ s \notin Creating /\ row.linked = None
             /\ races' = races + (IF Creating = {} THEN 0 ELSE 1)
    <3>. DEFINE more == IF Creating = {} THEN 0 ELSE 1
    <3>1. more \in Nat
        OBVIOUS
    <3>2. MayDisplace' <= MayDisplace + more /\ races' = races + more
        BY <1>3, <2>1, <2>4
    <3>. HIDE DEF more
    <3>. QED  BY <2>1, <2>2, <3>1, <3>2
  <2>5. s \notin Open => s \notin Creating
      BY DEF Creating
  <2>6. Creating' \subseteq Creating \/ (x # None /\ x.op = "create" /\ s \notin Creating)
      BY <1>2
  <2>7. \/ Creating' \subseteq Creating /\ races' = races
        \/ /\ s \notin Creating /\ row.linked = None
           /\ races' = races + (IF Creating = {} THEN 0 ELSE 1)
    <3>1. CASE s \in Open
        BY <2>6, <3>1 DEF CountsRaces
    <3>2. CASE s \notin Open
      <4>1. Creating' \subseteq Creating \/ (x # None /\ x.op = "create")
          BY <2>6
      <4>2. CASE x # None /\ x.op = "create" /\ row.linked = None
                 /\ races' = races + (IF Creating = {} THEN 0 ELSE 1)
          BY <2>5, <3>2, <4>2
      <4>3. CASE (x = None \/ x.op # "create") /\ races' = races
          BY <4>1, <4>3
      <4>. QED  BY <3>2, <4>2, <4>3 DEF CountsRaces
    <3>. QED  BY <3>1, <3>2
  <2>. QED  BY <2>3, <2>4, <2>7
<1>6. WasteIsAccounted'
  <2>1. Cardinality(Waste') + MayDisplace' <= Used("fault")' + races'
    <3>. PICK more \in Nat : MayDisplace' <= MayDisplace + more /\ races' = races + more
        BY <1>5
    <3>1. Cardinality(Waste) \in Nat /\ Cardinality(Waste') = Cardinality(Waste)
        BY <1>2, WasteTypes
    <3>2. Cardinality(Waste) + MayDisplace <= Used("fault") + races
        BY <1>1 DEF WasteIsAccounted
    <3>3. Used("fault") <= Used("fault")' /\ Used("fault")' \in Nat
        BY <1>4
    <3>. QED  BY <1>4, <1>5, <3>1, <3>2, <3>3
  <2>. QED  BY <2>1 DEF WasteIsAccounted
<1>7. LinkIsAccounted'
  <2>1. CASE Spend("fault")
      BY <1>1, <2>1, LinkAfterFault
  <2>2. CASE ~Spend("fault")
      BY <1>1, <1>2, <1>3, <1>4, <2>2, LinkKept DEF Existing
  <2>. QED  BY <2>1, <2>2
<1>. QED  BY <1>6, <1>7

\* An answer that is lost costs one fault and wastes one event at most.
LEMMA LostAccount ==
    ASSUME AccountInv, NEW s \in Sessions,
           CallGarbled(s) \/ CallBroken(s) \/ CutOff(s)
    PROVE  WasteIsAccounted' /\ LinkIsAccounted'
<1>1. TypeInv /\ WasteIsAccounted
    BY DEF AccountInv
<1>2. /\ session[s] # None /\ s \in Open /\ session[s] \in Session /\ Spend("fault")
      /\ row'.linked = row.linked /\ races' = races
    BY <1>1, OpenSession DEF CallGarbled, CallBroken, CutOff, history
<1>3. PICK x : /\ session' = [session EXCEPT ![s] = x]
               /\ x # None => x.op = session[s].op /\ x.pc # "save"
  <2>1. CASE CallBroken(s) \/ CutOff(s)
      BY <2>1 DEF CallBroken, CutOff, Close
  <2>2. CASE CallGarbled(s)
    <3>. DEFINE r == [session[s] EXCEPT !.pc = "mark"]
    <3>1. session' = [session EXCEPT ![s] = r] /\ r.op = session[s].op /\ r.pc = "mark"
        BY <1>1, <1>2, <2>2 DEF CallGarbled, TypeInv, TypeOK, Session
    <3>. QED  BY <3>1
  <2>. QED  BY <2>1, <2>2
<1>4. PICK y : Waste' \subseteq Waste \cup {y}
  <2>1. CASE session[s].pc = "save"
    <3>1. CutOff(s) /\ UNCHANGED events
        BY <2>1 DEF CallGarbled, CallBroken, CutOff
    <3>2. HeldBy("create") \subseteq HeldBy("create")' \cup {session[s].event}
        BY <1>1, <1>3, HeldStep
    <3>3. HeldBy("delete")' \subseteq HeldBy("delete")
        BY <1>1, <1>3, HeldStep
    <3>4. Waste' \subseteq Waste \cup {session[s].event}
        BY <1>2, <3>1, <3>2, <3>3 DEF Waste
    <3>. QED  BY <3>4
  <2>2. CASE session[s].pc # "save"
    <3>1. \A e \in EventId \ {Target(s)} : events'[e] = events[e]
        BY <1>1, <1>2, EffectFacts DEF CallGarbled, CallBroken, CutOff
    <3>2. s \notin SavedBy("create") /\ s \notin SavedBy("delete")
        BY <2>2 DEF SavedBy
    <3>3. HeldBy("create") \subseteq HeldBy("create")'
        BY <1>1, <1>3, <3>2, HeldStep
    <3>4. HeldBy("delete")' \subseteq HeldBy("delete")
        BY <1>1, <1>3, <3>2, HeldStep
    <3>5. Waste' \subseteq Waste \cup {Target(s)}
        BY <1>2, <3>1, <3>3, <3>4 DEF Waste
    <3>. QED  BY <3>5
  <2>. QED  BY <2>1, <2>2
<1>5. Cardinality(Waste') <= Cardinality(Waste) + 1
    BY <1>4, OneMore, WasteTypes
<1>6. MayDisplace \in Nat /\ MayDisplace' \in Nat /\ MayDisplace' <= MayDisplace
  <2>1. Creating' = IF x # None /\ x.op = "create" THEN Creating \cup {s} ELSE Creating \ {s}
      BY <1>1, <1>3, SessionStep DEF TypeInv, TypeOK
  <2>2. x # None /\ x.op = "create" => s \in Creating
      BY <1>2, <1>3 DEF Creating
  <2>. QED  BY <1>1, <1>2, <2>1, <2>2, DisplaceStep
<1>7. races \in Nat /\ Used("fault") \in Nat /\ Used("fault")' = Used("fault") + 1
    BY <1>1, <1>2, FaultCount DEF TypeInv, TypeOK
<1>8. Cardinality(Waste') + MayDisplace' <= Used("fault")' + races'
    BY <1>1, <1>2, <1>5, <1>6, <1>7, WasteTypes DEF WasteIsAccounted
<1>. QED  BY <1>1, <1>2, <1>8, LinkAfterFault DEF WasteIsAccounted

\* What an answered call has made or deleted, its request knows.
LEMMA SucceedsAccount ==
    ASSUME AccountInv, NEW s \in Sessions, CallSucceeds(s)
    PROVE  WasteIsAccounted' /\ LinkIsAccounted'
<1>. DEFINE x == [session[s] EXCEPT !.pc = "save", !.event = Target(s)]
<1>1. TypeInv /\ Known /\ WasteIsAccounted /\ LinkIsAccounted
    BY DEF AccountInv
<1>2. /\ session[s] # None /\ session[s].pc = "call" /\ s \in Open
      /\ session[s] \in Session /\ Possible(s) /\ TakesEffect(s)
      /\ UNCHANGED <<row, budget, races>>
    BY <1>1, OpenSession DEF CallSucceeds, history
<1>3. x.op = session[s].op /\ x.pc = "save" /\ x.event = Target(s) /\ x # None
    BY <1>1, <1>2, TargetType, NoneAssumption DEF Session
<1>4. session' = [session EXCEPT ![s] = x]
    BY <1>1, <1>2 DEF CallSucceeds, TypeInv, TypeOK
<1>. HIDE DEF x
<1>5. /\ Target(s) \in EventId /\ session[s].op \in {"create", "update", "delete"}
      /\ events'[Target(s)] = None <=> session[s].op = "delete"
      /\ \A e \in EventId \ {Target(s)} : events'[e] = events[e]
      /\ session[s].op # "create" => events[Target(s)] # None
    BY <1>1, <1>2, EffectFacts DEF Possible
<1>6. s \notin SavedBy("create") /\ s \notin SavedBy("delete")
    BY <1>2 DEF SavedBy
<1>7. /\ HeldBy("create")' \subseteq HeldBy("create") \cup
             (IF session[s].op = "create" THEN {Target(s)} ELSE {})
      /\ HeldBy("create") \subseteq HeldBy("create")'
      /\ session[s].op = "create" => Target(s) \in HeldBy("create")'
    BY <1>1, <1>3, <1>4, <1>6, HeldStep
<1>8. /\ HeldBy("delete")' \subseteq HeldBy("delete") \cup
             (IF session[s].op = "delete" THEN {Target(s)} ELSE {})
      /\ HeldBy("delete") \subseteq HeldBy("delete")'
      /\ session[s].op = "delete" => Target(s) \in HeldBy("delete")'
    BY <1>1, <1>3, <1>4, <1>6, HeldStep
<1>9. Waste' \subseteq Waste
  <2>1. ASSUME NEW e \in Waste'
        PROVE  e \in Waste
    <3>1. /\ e \in EventId /\ e # row'.linked /\ e \notin HeldBy("create")'
          /\ events'[e] # None \/ e \in HeldBy("delete")'
        BY DEF Waste
    <3>2. e # row.linked /\ e \notin HeldBy("create")
        BY <1>2, <1>7, <3>1
    <3>3. CASE e = Target(s)
        BY <1>5, <1>7, <3>1, <3>2, <3>3 DEF Waste
    <3>4. CASE e # Target(s)
        BY <1>5, <1>8, <3>1, <3>2, <3>4 DEF Waste
    <3>. QED  BY <3>3, <3>4
  <2>. QED  BY <2>1
<1>10. MayDisplace \in Nat /\ MayDisplace' \in Nat /\ MayDisplace' <= MayDisplace
  <2>1. Creating' = IF session[s].op = "create" THEN Creating \cup {s} ELSE Creating \ {s}
    <3>1. Creating' = IF x # None /\ x.op = "create"
                      THEN Creating \cup {s} ELSE Creating \ {s}
        BY <1>1, <1>4, SessionStep DEF TypeInv, TypeOK
    <3>. QED  BY <1>3, <3>1
  <2>2. session[s].op = "create" => s \in Creating
      BY <1>2 DEF Creating
  <2>. QED  BY <1>1, <1>2, <2>1, <2>2, DisplaceStep
<1>11. races \in Nat /\ Used("fault") \in Nat /\ Used("fault")' = Used("fault")
    BY <1>1, <1>2, FaultCount DEF TypeInv, TypeOK
<1>12. Cardinality(Waste') <= Cardinality(Waste)
    BY <1>9, NoMore, WasteTypes
<1>13. Cardinality(Waste') + MayDisplace' <= Used("fault")' + races'
    BY <1>1, <1>2, <1>10, <1>11, <1>12, WasteTypes DEF WasteIsAccounted
<1>14. LinkIsAccounted'
  <2>1. CASE row.linked \in Existing /\ row.linked \notin Existing'
    <3>1. row.linked = Target(s) /\ session[s].op = "delete"
        BY <1>5, <2>1 DEF Existing
    <3>. QED  BY <1>2, <1>8, <3>1 DEF LinkIsAccounted
  <2>2. CASE ~(row.linked \in Existing /\ row.linked \notin Existing')
      BY <1>1, <1>2, <1>8, <1>11, <2>2, LinkKept
  <2>. QED  BY <2>1, <2>2
<1>. QED  BY <1>13, <1>14 DEF WasteIsAccounted

\* The link that a second creation displaces was counted when it began; the one
\* that a deletion displaces takes the place of the event it has deleted.
LEMMA SaveAccount ==
    ASSUME AccountInv, NEW s \in Sessions, Save(s)
    PROVE  WasteIsAccounted' /\ LinkIsAccounted'
<1>1. TypeInv /\ Known /\ WasteIsAccounted /\ LinkIsAccounted
    BY DEF AccountInv
<1>2. /\ s \in Open /\ session[s].pc = "save" /\ session[s].event \in EventId
      /\ session[s].op \in {"create", "update", "delete"}
      /\ row'.linked = CASE session[s].op = "create" -> session[s].event
                         [] session[s].op = "update" -> row.linked
                         [] session[s].op = "delete" -> None
    BY <1>1, SaveLink
<1>3. session' = [session EXCEPT ![s] = None] /\ UNCHANGED <<events, budget, races>>
    BY DEF Save, Close
<1>4. \A op \in {"create", "delete"} :
          /\ HeldBy(op)' \subseteq HeldBy(op)
          /\ HeldBy(op) \subseteq HeldBy(op)' \cup
                 (IF session[s].op = op THEN {session[s].event} ELSE {})
  <2>1. ASSUME NEW op \in {"create", "delete"}
        PROVE  /\ HeldBy(op)' \subseteq HeldBy(op)
               /\ HeldBy(op) \subseteq HeldBy(op)' \cup
                      (IF s \in SavedBy(op) THEN {session[s].event} ELSE {})
      BY <1>1, <1>3, HeldStep
  <2>2. \A op \in {"create", "delete"} : s \in SavedBy(op) => session[s].op = op
      BY DEF SavedBy
  <2>. QED  BY <2>1, <2>2
<1>5. s \in SavedBy(session[s].op)
    BY <1>2 DEF SavedBy
<1>6. Creating' = Creating \ {s}
    BY <1>1, <1>3, SessionStep DEF TypeInv, TypeOK
<1>7. /\ MayDisplace \in Nat /\ MayDisplace' \in Nat
      /\ row'.linked = None \/ row.linked # None => MayDisplace' <= MayDisplace
      /\ s \in Creating => MayDisplace' <= Cardinality(Creating) - 1
      /\ s \in Creating => MayDisplace = IF row.linked = None THEN Cardinality(Creating) - 1
                                         ELSE Cardinality(Creating)
    BY <1>1, <1>6, DisplaceStep
<1>8. Cardinality(Waste) \in Nat /\ Cardinality(Waste') \in Nat
    BY WasteTypes
<1>9. races \in Nat /\ Used("fault") \in Nat /\ Used("fault")' = Used("fault")
    BY <1>1, <1>3, FaultCount DEF TypeInv, TypeOK
<1>10. CASE session[s].op = "create"
  <2>1. s \in Creating /\ Cardinality(Creating) \in Nat
      BY <1>1, <1>2, <1>10, DisplaceType DEF Creating, TypeInv, Counts
  <2>2. row'.linked = session[s].event
      BY <1>2, <1>10
  <2>3. HeldBy("create") \subseteq HeldBy("create")' \cup {session[s].event}
        /\ HeldBy("delete")' \subseteq HeldBy("delete")
      BY <1>4
  <2>4. Waste' \subseteq Waste \cup {row.linked}
      BY <1>3, <2>2, <2>3 DEF Waste
  <2>5. ASSUME row.linked = None PROVE WasteIsAccounted'
    <3>1. Waste' \subseteq Waste
        BY <2>4, <2>5, EventIdType, WasteTypes
    <3>2. Cardinality(Waste') <= Cardinality(Waste)
        BY <3>1, NoMore, WasteTypes
    <3>3. MayDisplace' <= MayDisplace
        BY <1>7, <2>1, <2>5
    <3>4. Cardinality(Waste') + MayDisplace' <= Used("fault")' + races'
        BY <1>1, <1>3, <1>7, <1>8, <1>9, <3>2, <3>3 DEF WasteIsAccounted
    <3>. QED  BY <3>4 DEF WasteIsAccounted
  <2>6. ASSUME row.linked # None PROVE WasteIsAccounted'
    <3>1. Cardinality(Waste') <= Cardinality(Waste) + 1
        BY <2>4, OneMore, WasteTypes
    <3>2. MayDisplace' <= MayDisplace - 1
        BY <1>7, <2>1, <2>6
    <3>3. Cardinality(Waste') + MayDisplace' <= Used("fault")' + races'
        BY <1>1, <1>3, <1>7, <1>8, <1>9, <3>1, <3>2 DEF WasteIsAccounted
    <3>. QED  BY <3>3 DEF WasteIsAccounted
  <2>7. WasteIsAccounted'
      BY <2>5, <2>6
  <2>8. events[session[s].event] # None
      BY <1>1, <1>5, <1>10 DEF Known
  <2>9. LinkIsAccounted'
      BY <1>2, <1>3, <2>2, <2>8 DEF LinkIsAccounted, Existing
  <2>. QED  BY <2>7, <2>9
<1>11. CASE session[s].op = "update"
  <2>1. row'.linked = row.linked
      BY <1>2, <1>11
  <2>2. HeldBy("create") = HeldBy("create")' /\ HeldBy("delete")' = HeldBy("delete")
      BY <1>4, <1>11
  <2>3. Waste' = Waste
      BY <1>3, <2>1, <2>2 DEF Waste
  <2>4. MayDisplace' <= MayDisplace
      BY <1>7, <2>1
  <2>5. Cardinality(Waste') + MayDisplace' <= Used("fault")' + races'
      BY <1>1, <1>3, <1>7, <1>8, <1>9, <2>3, <2>4 DEF WasteIsAccounted
  <2>6. LinkIsAccounted'
      BY <1>1, <1>3, <1>9, <2>1, <2>2, LinkKept DEF Existing
  <2>. QED  BY <2>5, <2>6 DEF WasteIsAccounted
<1>12. CASE session[s].op = "delete"
  <2>. DEFINE d == session[s].event
  <2>1. row'.linked = None
      BY <1>2, <1>12
  <2>2. HeldBy("create") = HeldBy("create")'
      BY <1>4, <1>12
  <2>3. /\ events[d] = None
        /\ \A t \in SavedBy("delete") \ {s} : session[t].event # d
      BY <1>1, <1>5, <1>12 DEF Known
  <2>4. d \notin HeldBy("delete")' /\ HeldBy("delete")' \subseteq HeldBy("delete")
    <3>1. /\ \A t \in Sessions \ {s} : session'[t] = session[t]
          /\ SavedBy("delete")' = SavedBy("delete") \ {s}
        BY <1>1, <1>3, SessionStep DEF TypeInv, TypeOK, Op
    <3>2. SavedBy("delete") \subseteq Sessions
        BY DEF SavedBy, Open
    <3>3. \A t \in SavedBy("delete")' : session'[t].event # d
        BY <2>3, <3>1, <3>2
    <3>. QED  BY <1>4, <3>3 DEF HeldBy
  <2>5. d \notin HeldBy("create") /\ d \in HeldBy("delete")
    <3>1. \A t \in SavedBy("create") : events[session[t].event] # None
        BY <1>1 DEF Known
    <3>. QED  BY <1>5, <1>12, <2>3, <3>1 DEF HeldBy
  <2>6. Waste' \subseteq (Waste \ {d}) \cup {row.linked} /\ d \notin Waste'
      BY <1>3, <2>1, <2>2, <2>3, <2>4 DEF Waste
  <2>7. Cardinality(Waste') <= Cardinality(Waste)
    <3>1. CASE row.linked = None \/ row.linked = d
      <4>1. Waste' \subseteq Waste
          BY <2>6, <3>1, EventIdType, WasteTypes
      <4>. QED  BY <4>1, NoMore, WasteTypes
    <3>2. CASE row.linked # d
      <4>1. d \in Waste
          BY <1>2, <2>5, <3>2 DEF Waste
      <4>. QED  BY <2>6, <4>1, NoMore, WasteTypes
    <3>. QED  BY <3>1, <3>2
  <2>8. Cardinality(Waste') + MayDisplace' <= Used("fault")' + races'
      BY <1>1, <1>3, <1>7, <1>8, <1>9, <2>1, <2>7 DEF WasteIsAccounted
  <2>9. LinkIsAccounted'
      BY <2>1 DEF LinkIsAccounted
  <2>. QED  BY <2>8, <2>9 DEF WasteIsAccounted
<1>. QED  BY <1>2, <1>10, <1>11, <1>12

LEMMA BotAccount ==
    ASSUME AccountInv, row'.linked = row.linked, UNCHANGED <<events, session, races>>,
           UNCHANGED budget \/ Spend("bot")
    PROVE  WasteIsAccounted' /\ LinkIsAccounted'
<1>1. TypeInv /\ WasteIsAccounted /\ LinkIsAccounted
    BY DEF AccountInv
<1>2. Used("fault")' = Used("fault")
    BY <1>1, FaultCount
<1>3. /\ HeldBy("create")' = HeldBy("create") /\ HeldBy("delete")' = HeldBy("delete")
      /\ Creating' = Creating
    BY DEF HeldBy, SavedBy, Creating, Open
<1>4. Waste' = Waste /\ MayDisplace' = MayDisplace
    BY <1>3 DEF Waste, MayDisplace
<1>5. WasteIsAccounted'
    BY <1>1, <1>2, <1>4 DEF WasteIsAccounted
<1>6. LinkIsAccounted'
    BY <1>1, <1>2, <1>3, LinkKept DEF Existing
<1>. QED  BY <1>5, <1>6

LEMMA AccountInit == Init => AccountInv
<1>. SUFFICES ASSUME Init PROVE AccountInv
    OBVIOUS
<1>1. TypeInv
    BY TypeInit
<1>2. Open = {} /\ Creating = {} /\ row.linked = None
    BY DEF Init, Open, Creating
<1>3. SavedBy("create") = {} /\ SavedBy("delete") = {} /\ MayDisplace = 0
    BY <1>2 DEF SavedBy, MayDisplace
<1>4. Waste = {}
    BY <1>3 DEF Waste, HeldBy, Init
<1>5. Cardinality(Waste) = 0 /\ Used("fault") \in Nat /\ races = 0
    BY <1>1, <1>4, FS_EmptySet, UsedType, OutsideNames DEF Init
<1>6. WasteIsAccounted
    BY <1>3, <1>5 DEF WasteIsAccounted
<1>. QED  BY <1>1, <1>2, <1>3, <1>6 DEF AccountInv, Known, LinkIsAccounted

LEMMA AccountNext == AccountInv /\ [Next]_vars => AccountInv'
<1>. SUFFICES ASSUME AccountInv, [Next]_vars PROVE AccountInv'
    OBVIOUS
<1>1. TypeInv /\ Known /\ TypeInv'
    BY TypeNext DEF AccountInv
<1>2. ASSUME NEW s \in Sessions, NEW x, Touches(s, x), CountsRaces(s, x),
             UNCHANGED budget \/ Spend("request") \/ Spend("fault")
      PROVE  AccountInv'
    BY <1>1, <1>2, TouchesKnown, TouchesAccount DEF AccountInv
<1>3. ASSUME NEW s \in Sessions, Request(s)
      PROVE  AccountInv'
  <2>1. PICK x : /\ Touches(s, x) /\ Opens(s)
                 /\ \/ x # None /\ x.op = "create" /\ row.linked = None
                       /\ races' = races + (IF Creating = {} THEN 0 ELSE 1)
                    \/ (x = None \/ x.op # "create") /\ races' = races
      BY <1>1, <1>3, RequestTouches
  <2>2. s \notin Open /\ Spend("request")
      BY <2>1 DEF Opens, Open
  <2>3. CountsRaces(s, x)
      BY <2>1, <2>2 DEF CountsRaces
  <2>. QED  BY <1>2, <2>1, <2>2, <2>3
<1>4. ASSUME NEW s \in Sessions, SyncLinked(s)
      PROVE  AccountInv'
  <2>1. PICK x : /\ Touches(s, x) /\ s \in Open /\ UNCHANGED <<budget, races>>
                 /\ x = None \/ x.op # "create"
      BY <1>1, <1>4, SyncTouches
  <2>2. CountsRaces(s, x)
      BY <2>1 DEF CountsRaces
  <2>. QED  BY <1>2, <2>1, <2>2
<1>5. ASSUME NEW s \in Sessions, CallRefused(s)
      PROVE  AccountInv'
  <2>1. PICK x : /\ Touches(s, x) /\ s \in Open /\ UNCHANGED races
                 /\ UNCHANGED budget \/ Spend("fault")
                 /\ x # None => x.op = session[s].op
      BY <1>1, <1>5, RefusedTouches
  <2>2. CountsRaces(s, x)
      BY <2>1 DEF CountsRaces, Creating
  <2>. QED  BY <1>2, <2>1, <2>2
<1>6. ASSUME NEW s \in Sessions, MarkError(s)
      PROVE  AccountInv'
  <2>1. Touches(s, None) /\ s \in Open /\ UNCHANGED <<budget, races>>
      BY <1>1, <1>6, MarkTouches
  <2>2. CountsRaces(s, None)
      BY <2>1 DEF CountsRaces
  <2>. QED  BY <1>2, <2>1, <2>2
<1>7. ASSUME NEW s \in Sessions, CallGarbled(s) \/ CallBroken(s) \/ CutOff(s)
      PROVE  AccountInv'
    BY <1>1, <1>7, LostKnown, ClosedKnown, LostAccount DEF AccountInv
<1>8. ASSUME NEW s \in Sessions, CallSucceeds(s)
      PROVE  AccountInv'
    BY <1>1, <1>8, SucceedsKnown, SucceedsAccount DEF AccountInv
<1>9. ASSUME NEW s \in Sessions, Save(s)
      PROVE  AccountInv'
    BY <1>1, <1>9, ClosedKnown, SaveAccount DEF AccountInv
<1>10. ASSUME NEW c \in Changes, BotChange(c[1], c[2])
       PROVE  AccountInv'
  <2>1. /\ row'.linked = row.linked /\ Spend("bot")
        /\ UNCHANGED <<events, session, races>>
      BY <1>1, <1>10, ChangeLink DEF BotChange, history
  <2>. QED  BY <1>1, <2>1, BotKnown, BotAccount DEF AccountInv
<1>11. CASE UNCHANGED vars
  <2>1. row'.linked = row.linked /\ UNCHANGED <<events, session, races, budget>>
      BY <1>11 DEF vars
  <2>. QED  BY <1>1, <2>1, BotKnown, BotAccount DEF AccountInv
<1>. QED
    BY <1>3, <1>4, <1>5, <1>6, <1>7, <1>8, <1>9, <1>10, <1>11
    DEF Next, Serve, Fail

\* Orphaned events are paid for, one each, by a lost answer, a request cut off or
\* a creation that ran into another one, and a link to an event that is gone by a
\* fault: whatever retries, concurrent requests and refused calls there are.
THEOREM EveryEventAccounted == Spec => []EventsAccounted
<1>1. AccountInv => EventsAccounted
  <2>. SUFFICES ASSUME AccountInv PROVE EventsAccounted
      OBVIOUS
  <2>1. Existing \ ({row.linked} \cup Held) \subseteq Waste
      BY DEF Existing, Held, Waste, HeldBy, SavedBy
  <2>2. Existing \ ({row.linked} \cup Held) \in SUBSET EventId
      BY DEF Existing
  <2>3. Cardinality(Existing \ ({row.linked} \cup Held)) <= Cardinality(Waste)
      BY <2>1, <2>2, NoMore, WasteTypes
  <2>4. /\ MayDisplace \in Nat /\ Used("fault") \in Nat /\ races \in Nat
        /\ Cardinality(Waste) + MayDisplace <= Used("fault") + races
      BY DisplaceType, FaultCount
         DEF AccountInv, TypeInv, TypeOK, Counts, WasteIsAccounted
  <2>5. Cardinality(Existing \ ({row.linked} \cup Held)) <= Used("fault") + races
      BY <2>2, <2>3, <2>4, WasteTypes, IdsAreFinite
  <2>6. row.linked # None /\ row.linked \notin Existing =>
            \/ Used("fault") > 0
            \/ \E s \in Open : session[s].op = "delete" /\ session[s].event = row.linked
      BY DEF AccountInv, LinkIsAccounted, HeldBy, SavedBy
  <2>. QED  BY <2>5, <2>6 DEF EventsAccounted
<1>. QED  BY <1>1, AccountInit, AccountNext, PTL DEF Spec

-----------------------------------------------------------------------------
\* A divergence is told.

Undisturbed == ~overlapped /\ Used("bot") = 0

LEMMA BotCount ==
    ASSUME TypeInv
    PROVE  /\ UNCHANGED budget \/ Spend("fault") \/ Spend("request") =>
                 Used("bot")' = Used("bot")
           /\ Spend("bot") => Used("bot")' # 0
<1>1. UNCHANGED budget => Used("bot")' = Used("bot")
    BY DEF Used
<1>2. ASSUME NEW e \in {"request", "fault"}, Spend(e) PROVE Used("bot")' = Used("bot")
    BY <1>2, SpendFacts, OutsideNames
<1>3. ASSUME Spend("bot") PROVE Used("bot")' # 0
  <2>1. Used("bot")' = Used("bot") + 1 /\ Used("bot") \in Nat
      BY <1>3, SpendFacts, UsedType, OutsideNames
  <2>. QED  BY <2>1
<1>. QED  BY <1>1, <1>2, <1>3

\* The one open request goes on, and is alone as before.
LEMMA ToldStep ==
    ASSUME TypeInv, ToldInv, NEW s \in Open, NEW x, session' = [session EXCEPT ![s] = x],
           UNCHANGED overlapped, UNCHANGED budget \/ Spend("fault"),
           Undisturbed /\ Alone(s) /\ x = None /\ ~warned' => InSync',
           Undisturbed /\ Alone(s) /\ x # None =>
               /\ x.pc # "refresh" => x.row = row'
               /\ x.pc = "save" /\ x.op # "delete" =>
                      events'[x.event] =
                          [title |-> row'.title, due |-> row'.due, window |-> x.window]
    PROVE  ToldInv'
<1>. SUFFICES ASSUME ~overlapped', Used("bot")' = 0
     PROVE  /\ \A t, u \in Open' : t = u
            /\ \A t \in Open' : Alone(t)'
            /\ Open' = {} /\ ~warned' => InSync'
    BY DEF ToldInv
<1>1. Undisturbed
    BY BotCount DEF Undisturbed
<1>2. Alone(s) /\ \A t \in Open : t = s
    BY <1>1 DEF ToldInv, Undisturbed
<1>3. s \in Sessions
    BY DEF Open
<1>4. /\ session'[s] = x /\ Open' \subseteq {s}
      /\ x # None <=> s \in Open'
  <2>1. /\ session'[s] = x
        /\ Open' = IF x # None THEN Open \cup {s} ELSE Open \ {s}
      BY <1>3, SessionStep DEF TypeInv, TypeOK
  <2>. QED  BY <1>2, <2>1
<1>5. ASSUME NEW t \in Open' PROVE Alone(t)'
  <2>1. t = s /\ x # None
      BY <1>4
  <2>2. /\ x.pc # "refresh" => x.row = row'
        /\ x.pc = "save" /\ x.op # "delete" =>
               events'[x.event] =
                   [title |-> row'.title, due |-> row'.due, window |-> x.window]
      BY <1>1, <1>2, <2>1
  <2>. QED  BY <1>4, <2>1, <2>2 DEF Alone
<1>6. ASSUME Open' = {}, ~warned' PROVE InSync'
    BY <1>1, <1>2, <1>4, <1>6
<1>. QED  BY <1>4, <1>5, <1>6

\* A request opens, when nobody else's is open.
LEMMA ToldRequest ==
    ASSUME TypeInv, ToldInv, NEW s \in Sessions, Request(s)
    PROVE  ToldInv'
<1>. SUFFICES ASSUME ~overlapped', Used("bot")' = 0
     PROVE  /\ \A t, u \in Open' : t = u
            /\ \A t \in Open' : Alone(t)'
            /\ Open' = {} /\ ~warned' => InSync'
    BY DEF ToldInv
<1>1. Opens(s)
    BY DEF Request, RequestCreate, RequestUpdate, RequestDelete, RequestChange
<1>2. /\ Undisturbed /\ Open = {} /\ session[s] = None
    BY <1>1, BotCount DEF Opens, Undisturbed
<1>3. ~warned => InSync
    BY <1>2 DEF ToldInv, Undisturbed
<1>4. CASE UNCHANGED <<row, events, session>> /\ (warned' = TRUE \/ UNCHANGED warned)
  <2>1. Open' = {}
      BY <1>2, <1>4 DEF Open
  <2>2. ~warned' => InSync'
      BY <1>3, <1>4 DEF InSync
  <2>. QED  BY <2>1, <2>2
<1>5. CASE \E x : /\ session' = [session EXCEPT ![s] = x] /\ x # None
                  /\ x.pc \in {"refresh", "call"} /\ (x.pc = "call" => x.row = row')
  <2>1. PICK x : /\ session' = [session EXCEPT ![s] = x] /\ x # None
                 /\ x.pc \in {"refresh", "call"} /\ (x.pc = "call" => x.row = row')
      BY <1>5
  <2>2. session'[s] = x /\ Open' = {s}
    <3>1. session'[s] = x /\ Open' = IF x # None THEN Open \cup {s} ELSE Open \ {s}
        BY <2>1, SessionStep DEF TypeInv, TypeOK
    <3>. QED  BY <1>2, <2>1, <3>1
  <2>3. Alone(s)'
      BY <2>1, <2>2 DEF Alone
  <2>. QED  BY <2>2, <2>3
<1>6. ASSUME NEW op \in {"create", "update", "delete"}, NEW w \in Window,
             op = "create" <=> row.linked = None,
             Calls(s, op, row, w), UNCHANGED row
      PROVE  \E x : /\ session' = [session EXCEPT ![s] = x] /\ x # None
                    /\ x.pc \in {"refresh", "call"} /\ (x.pc = "call" => x.row = row')
  <2>. DEFINE x == [op |-> op, pc |-> "call", row |-> row, window |-> w, event |-> None]
  <2>1. session' = [session EXCEPT ![s] = x] /\ x.pc = "call" /\ x.row = row'
      BY <1>6 DEF Calls
  <2>2. x # None
      BY <1>6, CallRecord
  <2>. HIDE DEF x
  <2>. QED  BY <2>1, <2>2
<1>7. row \in Row /\ \A asked \in Windows : ResolvedWindow(row, asked) \in Window
    BY ConstantsAssumption, WindowType DEF TypeInv, TypeOK
<1>8. CASE \E asked \in Windows : RequestCreate(s, asked)
  <2>1. PICK asked \in Windows : RequestCreate(s, asked)
      BY <1>8
  <2>2. UNCHANGED <<row, events>>
      BY <2>1 DEF RequestCreate
  <2>3. CASE UNCHANGED session /\ (warned' = TRUE \/ UNCHANGED warned)
      BY <1>4, <2>2, <2>3
  <2>4. CASE ~Reuses(row) /\ Calls(s, "create", row, ResolvedWindow(row, asked))
      BY <1>5, <1>6, <1>7, <2>2, <2>4 DEF Reuses
  <2>. QED  BY <2>1, <2>3, <2>4 DEF RequestCreate
<1>9. CASE \E asked \in Windows : RequestUpdate(s, asked)
  <2>1. PICK asked \in Windows : RequestUpdate(s, asked)
      BY <1>9
  <2>2. UNCHANGED <<row, events>>
      BY <2>1 DEF RequestUpdate
  <2>3. CASE UNCHANGED session /\ (warned' = TRUE \/ UNCHANGED warned)
      BY <1>4, <2>2, <2>3
  <2>4. CASE row.linked # None /\ Calls(s, "update", row, ResolvedWindow(row, asked))
      BY <1>5, <1>6, <1>7, <2>2, <2>4
  <2>. QED  BY <2>1, <2>3, <2>4 DEF RequestUpdate
<1>10. CASE RequestDelete(s)
  <2>1. UNCHANGED <<row, events, warned>>
      BY <1>10 DEF RequestDelete
  <2>2. CASE UNCHANGED session
      BY <1>4, <2>1, <2>2
  <2>3. CASE row.linked # None /\ Calls(s, "delete", row, NoWindow)
      BY <1>5, <1>6, <2>1, <2>3, NoWindowType
  <2>. QED  BY <1>10, <2>2, <2>3 DEF RequestDelete
<1>11. CASE \E c \in Changes : RequestChange(s, c[1], c[2])
  <2>1. PICK c \in Changes : RequestChange(s, c[1], c[2])
      BY <1>11
  <2>. DEFINE x == [op |-> "change", pc |-> "refresh", row |-> row',
                    window |-> NoWindow, event |-> None]
  <2>2. session' = [session EXCEPT ![s] = x] /\ x.pc = "refresh"
      BY <2>1 DEF RequestChange
  <2>3. row' \in Row
      BY TypeNext DEF Next, TypeInv, TypeOK
  <2>4. x # None
      BY <2>3, NoWindowType, NoneAssumption DEF Session, Op
  <2>. HIDE DEF x
  <2>. QED  BY <1>5, <2>2, <2>4
<1>. QED  BY <1>8, <1>9, <1>10, <1>11 DEF Request

\* What a request saves is what it has sent, and Google shows it.
LEMMA ToldSave ==
    ASSUME TypeInv, NEW s \in Sessions, Save(s), Alone(s)
    PROVE  InSync'
<1>1. /\ session[s] # None /\ session[s].pc = "save" /\ session[s].row = row
      /\ row \in Row /\ UNCHANGED events
    BY OpenSession DEF Save, Alone
<1>2. /\ session[s].op \in {"create", "update", "delete"}
      /\ session[s].event \in EventId
    BY SaveLink
<1>. DEFINE new == Saved(session[s].op, row, session[s].event, session[s].window)
<1>3. /\ new \in Row
      /\ new.title = row.title /\ new.due = row.due
      /\ new.linked = IF session[s].op = "delete" THEN None ELSE session[s].event
      /\ new.status = IF session[s].op = "delete" THEN "UNLINKED" ELSE "SYNCED"
      /\ session[s].op # "delete" => new.window = session[s].window
    BY <1>1, SavedRow
<1>4. Flush(row, new)
    BY <1>1 DEF Save
<1>. HIDE DEF new
<1>5. /\ row'.linked = new.linked /\ row'.title = new.title /\ row'.due = new.due
      /\ row'.status = new.status /\ row'.window = new.window
    BY <1>1, <1>3, <1>4, FlushWrites DEF Column
<1>6. CASE session[s].op = "delete"
    BY <1>3, <1>5, <1>6 DEF InSync
<1>7. CASE session[s].op # "delete"
  <2>1. events[session[s].event] =
            [title |-> row.title, due |-> row.due, window |-> session[s].window]
      BY <1>1, <1>7 DEF Alone
  <2>2. events[session[s].event] # None
    <3>1. session[s].window \in Window
        BY <1>1, OpenSession
    <3>2. events[session[s].event] \in Event
        BY <1>1, <2>1, <3>1 DEF Event, Row
    <3>. QED  BY <3>2, NoneAssumption
  <2>3. /\ row'.linked = session[s].event /\ row'.status = "SYNCED"
        /\ row'.window = session[s].window /\ row'.title = row.title /\ row'.due = row.due
      BY <1>3, <1>5, <1>7
  <2>. QED  BY <1>1, <2>1, <2>2, <2>3 DEF InSync
<1>. QED  BY <1>6, <1>7

LEMMA ToldInit == Init => ToldInv
    BY DEF Init, ToldInv, Open, InSync

LEMMA ToldNext == TypeInv /\ ToldInv /\ [Next]_vars => ToldInv'
<1>. SUFFICES ASSUME TypeInv, ToldInv, [Next]_vars PROVE ToldInv'
    OBVIOUS
<1>1. ASSUME NEW s \in Sessions, SyncLinked(s) PROVE ToldInv'
  <2>. DEFINE x == [op |-> "update", pc |-> "call", row |-> row,
                    window |-> ResolvedWindow(row, NoWindow), event |-> None]
  <2>1. s \in Open /\ UNCHANGED <<row, events, budget, overlapped>>
      BY <1>1 DEF SyncLinked, Open
  <2>2. CASE Close(s) /\ (row.linked = None \/ warned' = TRUE)
    <3>1. session' = [session EXCEPT ![s] = None] /\ (~warned' => InSync')
        BY <2>1, <2>2 DEF Close, InSync
    <3>. QED  BY <2>1, <3>1, ToldStep
  <2>3. CASE Calls(s, "update", row, ResolvedWindow(row, NoWindow))
    <3>1. session' = [session EXCEPT ![s] = x]
        BY <2>3 DEF Calls
    <3>2. x.pc = "call" /\ x.row = row /\ x # None
      <4>1. row \in Row
          BY DEF TypeInv, TypeOK
      <4>2. x \in Session
          BY <4>1, WindowType, NoWindowType DEF Session, Op
      <4>. QED  BY <4>2, NoneAssumption
    <3>. HIDE DEF x
    <3>. QED  BY <2>1, <3>1, <3>2, ToldStep
  <2>. QED  BY <1>1, <2>2, <2>3 DEF SyncLinked
<1>2. ASSUME NEW s \in Sessions, CallSucceeds(s) PROVE ToldInv'
  <2>. DEFINE x == [session[s] EXCEPT !.pc = "save", !.event = Target(s)]
  <2>1. /\ session[s] # None /\ session[s].pc = "call" /\ s \in Open
        /\ session[s] \in Session /\ TakesEffect(s)
        /\ UNCHANGED <<row, budget, overlapped>>
      BY <1>2, OpenSession DEF CallSucceeds, history
  <2>2. session' = [session EXCEPT ![s] = x]
      BY <1>2, <2>1 DEF CallSucceeds, TypeInv, TypeOK
  <2>3. /\ x.pc = "save" /\ x.row = session[s].row /\ x.op = session[s].op
        /\ x.event = Target(s) /\ x.window = session[s].window /\ x # None
      BY <2>1, TargetType, NoneAssumption DEF Session
  <2>4. session[s].op # "delete" =>
            events'[Target(s)] = [title |-> session[s].row.title,
                                  due |-> session[s].row.due,
                                  window |-> session[s].window]
      BY <2>1, TargetType DEF TakesEffect, TypeInv, TypeOK
  <2>. HIDE DEF x
  <2>5. Alone(s) => x.row = row'
      BY <2>1, <2>3 DEF Alone
  <2>6. Alone(s) /\ x.op # "delete" =>
            events'[x.event] = [title |-> row'.title, due |-> row'.due,
                                window |-> x.window]
      BY <2>1, <2>3, <2>4 DEF Alone
  <2>. QED  BY <2>1, <2>2, <2>3, <2>5, <2>6, ToldStep
<1>3. ASSUME NEW s \in Sessions, CallRefused(s) \/ CallGarbled(s) PROVE ToldInv'
  <2>. DEFINE x == [session[s] EXCEPT !.pc = "mark"]
  <2>1. /\ session[s] # None /\ session[s].pc = "call" /\ s \in Open
        /\ session[s] \in Session
        /\ UNCHANGED <<row, overlapped>> /\ (UNCHANGED budget \/ Spend("fault"))
      BY <1>3, OpenSession DEF CallRefused, CallGarbled, history
  <2>2. session' = [session EXCEPT ![s] = x]
      BY <1>3, <2>1 DEF CallRefused, CallGarbled, TypeInv, TypeOK
  <2>3. x.pc = "mark" /\ x.row = session[s].row /\ x # None
    <3>1. x \in Session /\ x.pc = "mark" /\ x.row = session[s].row
        BY <2>1 DEF Session
    <3>. QED  BY <3>1, NoneAssumption
  <2>. HIDE DEF x
  <2>4. Alone(s) => x.row = row'
      BY <2>1, <2>3 DEF Alone
  <2>. QED  BY <2>1, <2>2, <2>3, <2>4, ToldStep
<1>4. ASSUME NEW s \in Sessions, CallBroken(s) \/ CutOff(s) \/ MarkError(s) PROVE ToldInv'
  <2>1. /\ s \in Open /\ session' = [session EXCEPT ![s] = None] /\ warned' = TRUE
        /\ UNCHANGED overlapped /\ (UNCHANGED budget \/ Spend("fault"))
      BY <1>4 DEF CallBroken, CutOff, MarkError, Close, Open
  <2>. QED  BY <2>1, ToldStep
<1>5. ASSUME NEW s \in Sessions, Save(s) PROVE ToldInv'
  <2>1. /\ s \in Open /\ session' = [session EXCEPT ![s] = None]
        /\ UNCHANGED <<budget, overlapped>>
      BY <1>5 DEF Save, Close, Open
  <2>. QED  BY <1>5, <2>1, ToldSave, ToldStep
<1>6. ASSUME NEW s \in Sessions, Request(s) PROVE ToldInv'
    BY <1>6, ToldRequest
<1>7. ASSUME NEW c \in Changes, BotChange(c[1], c[2]) PROVE ToldInv'
    BY <1>7, BotCount DEF BotChange, ToldInv
<1>8. CASE UNCHANGED vars
    BY <1>8 DEF vars, ToldInv, Open, Used, Alone, InSync
<1>. QED
    BY <1>1, <1>2, <1>3, <1>4, <1>5, <1>6, <1>7, <1>8 DEF Next, Serve, Fail

\* Between requests that did not overlap, a linked event shows the task as it is,
\* or the last request that tried has been answered with an error, for every
\* sequence of changes, windows, failures, links and unlinks.
THEOREM DivergencesAreTold == Spec => []DivergenceIsTold
<1>1. ToldInv => DivergenceIsTold
    BY DEF ToldInv, DivergenceIsTold, InSync
<1>. QED  BY <1>1, TypeInit, TypeNext, ToldInit, ToldNext, PTL DEF Spec
=============================================================================
