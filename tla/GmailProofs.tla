---------------------------- MODULE GmailProofs ----------------------------
(***************************************************************************)
(* Theorems about GmailSync, for any number of mails, pollers, ticks and   *)
(* outside events.                                                         *)
(***************************************************************************)
EXTENDS GmailSync, FiniteSetTheorems, SequenceTheorems, TLAPS

-----------------------------------------------------------------------------
\* The invariants.

\* The steps at which a session has a mail at hand.
AtHand == {"create", "insert", "decide", "notify", "reject"}
Fresh == {"idle", "token", "list", "failing"}

\* A session goes through each mail once, and holds what it has written.
Fits(r) ==
    /\ r.at # None <=> r.pc \in AtHand
    /\ IsInjective(r.todo)
    /\ r.at # None => r.at \notin ToSet(r.todo) \cup r.shown
    /\ r.shown \cap ToSet(r.todo) = {}
    /\ \A m \in Message :
          /\ r.src[m] # "NEW"
          /\ r.src[m] # None \/ r.cand[m] # None => m \in r.locks
          /\ m \in r.shown => m \in r.locks /\ r.cand[m] # None
    /\ r.pc \in Fresh => r.locks = {}
    /\ r.pc = "notify" => r.cand[r.at] # None
\* What it has decided concerns stored mails.
Stored(r, rows) ==
    /\ \A m \in Message : r.cand[m] # None => rows[m] # None
    /\ r.pc \in {"decide", "notify", "reject"} => rows[r.at] # None

TypeInv ==
    /\ TypeOK
    /\ \A p \in Poller :
          Fits(poll[p]) /\ Stored(poll[p], source) /\ poll[p].current <= now

\* A candidate a session is about to commit was shown, or the failure is with it.
SeenInv ==
    \A p \in Poller, m \in Message :
        poll[p].cand[m] # None =>
            \/ told[m] > 0
            \/ poll[p].cand[m].error
            \/ poll[p].pc = "notify" /\ poll[p].at = m

\* A session shows a mail at most once in one transaction, and no two sessions
\* show it at once.
Shown(m) == \E p \in Poller : m \in poll[p].shown
Shows(r, m) == IF m \in r.shown THEN 1 ELSE 0
RecordedInv ==
    \A m \in Message :
        told[m] > lost[m] + (IF Shown(m) THEN 1 ELSE 0) => candidate[m] # None

\* Sessions that are alone.
Alone == \A p, q \in Poller : poll[p].pc # "idle" /\ poll[q].pc # "idle" => p = q

\* The session decides about the rows as they are.
Current(r, from, rows) ==
    /\ ~ r.expired
    /\ r.pc \in {"token", "list"} => r.since = from
    /\ r.pc \in {"create", "insert"} => rows[r.at] = None
    /\ r.pc = "decide" => rows[r.at] = r.loaded /\ r.loaded \notin Handled
    /\ r.pc = "notify" => rows[r.at] \notin Handled /\ r.src[r.at] = "PROCESSED"
CurrentAll == \A p \in Poller : Current(poll[p], account.polledAt, source)

\* How often a mail may be shown, when no answer about another mail was garbled.
Limit(m) == lost[m] + IF source[m] \in Handled \/ Shown(m) THEN 1 ELSE 0
\* What a session is about to write agrees with that.
Counts(r) ==
    /\ \A m \in r.shown : r.src[m] = "PROCESSED"
    /\ \A m \in Message : r.src[m] = "FAILED" => told[m] <= lost[m]
    /\ r.pc = "reject" => told[r.at] <= lost[r.at]
CountInv ==
    skipped = {} =>
        /\ \A m \in Message : told[m] <= Limit(m)
        /\ \A p \in Poller : Counts(poll[p])

\* Between the listing and its end a poll has left each mail, decided about it
\* or has still to come to it.
Settled(rows, m) == rows[m] \in {"PROCESSED", "IGNORED", "FAILED"}
Covers(r, rows, m) ==
    Settled(rows, m) \/ m \in ToSet(r.todo) \/ r.at = m \/ r.src[m] # None
Before(m, t) == arrived[m] # None /\ t # None /\ arrived[m] < t
LeftInv ==
    /\ account.polledAt # None => account.polledAt <= now
    /\ \A m \in Message \ skipped :
          /\ Before(m, account.polledAt) => Settled(source, m)
          /\ \A p \in Poller :
                poll[p].pc \in AtHand \cup {"next"} /\ Before(m, poll[p].current) =>
                    Covers(poll[p], source, m)

SoloInv == ~ overlapped => Alone /\ CurrentAll /\ CountInv /\ LeftInv

-----------------------------------------------------------------------------
\* The mails a poll lists, and the rest of them after the first one.

LEMMA ConstantTypes ==
    /\ IsFiniteSet(Message) /\ Message \subseteq Nat \ {0}
    /\ Unbound \notin Message /\ Loop \in Poller
    /\ Cooldown \in Nat /\ MaxTime \in Nat
    /\ \A t \in Time : t \in Nat /\ t <= MaxTime
    /\ \A m \in Message : m # None
    /\ \A t \in Time : t # None
    /\ \A c \in Candidate : c # None
    /\ \A s \in SourceStatus : s # None
<1>1. Cardinality(Message) \in Nat
    BY ConstantsAssumption, FS_CardinalityType
<1>2. Message \subseteq Nat \ {0}
    BY <1>1, ConstantsAssumption
<1>. QED  BY <1>1, <1>2, ConstantsAssumption DEF Time, Unbound

\* How many mails of a listing are at least as new as this one.
NotOlder(listed, m) == {k \in listed : k >= m}
Position(listed) == [m \in listed |-> Cardinality(NotOlder(listed, m))]

LEMMA PositionIsInjective ==
    ASSUME NEW listed \in SUBSET Message
    PROVE  /\ Position(listed) \in Injection(listed, 1..Cardinality(listed))
           /\ \A m, k \in listed :
                  k > m => Position(listed)[k] < Position(listed)[m]
<1>1. IsFiniteSet(listed) /\ Cardinality(listed) \in Nat
    BY ConstantTypes, FS_Subset, FS_CardinalityType
<1>2. ASSUME NEW m \in listed
      PROVE  /\ IsFiniteSet(NotOlder(listed, m))
             /\ Cardinality(NotOlder(listed, m)) \in 1..Cardinality(listed)
  <2>1. NotOlder(listed, m) \in SUBSET listed /\ m \in NotOlder(listed, m)
      BY ConstantTypes DEF NotOlder
  <2>2. /\ IsFiniteSet(NotOlder(listed, m))
        /\ Cardinality(NotOlder(listed, m)) <= Cardinality(listed)
      BY <1>1, <2>1, FS_Subset
  <2>3. Cardinality(NotOlder(listed, m)) \in Nat
      BY <2>2, FS_CardinalityType
  <2>4. Cardinality(NotOlder(listed, m)) # 0
      BY <2>1, <2>2, FS_EmptySet
  <2>. QED  BY <1>1, <2>2, <2>3, <2>4
<1>3. ASSUME NEW m \in listed, NEW k \in listed, k > m
      PROVE  Position(listed)[k] < Position(listed)[m]
  <2>1. NotOlder(listed, k) \in SUBSET NotOlder(listed, m)
    <3>1. ASSUME NEW o \in listed, o >= k
          PROVE  o >= m
        BY <1>3, <3>1, ConstantTypes
    <3>. QED  BY <3>1 DEF NotOlder
  <2>2. m \in NotOlder(listed, m) /\ m \notin NotOlder(listed, k)
      BY <1>3, ConstantTypes DEF NotOlder
  <2>3. IsFiniteSet(NotOlder(listed, m))
      BY <1>2
  <2>4. /\ Cardinality(NotOlder(listed, k)) <= Cardinality(NotOlder(listed, m))
        /\ Cardinality(NotOlder(listed, k)) # Cardinality(NotOlder(listed, m))
      BY <2>1, <2>2, <2>3, FS_Subset
  <2>5. /\ Cardinality(NotOlder(listed, k)) \in 1..Cardinality(listed)
        /\ Cardinality(NotOlder(listed, m)) \in 1..Cardinality(listed)
      BY <1>2
  <2>. QED  BY <1>1, <2>4, <2>5 DEF Position
<1>4. Position(listed) \in [listed -> 1..Cardinality(listed)]
    BY <1>2 DEF Position
<1>5. \A m, k \in listed : Position(listed)[m] = Position(listed)[k] => m = k
  <2>1. ASSUME NEW m \in listed, NEW k \in listed, m # k
        PROVE  Position(listed)[m] # Position(listed)[k]
    <3>1. m \in Nat /\ k \in Nat
        BY ConstantTypes
    <3>2. k > m \/ m > k
        BY <2>1, <3>1
    <3>3. Position(listed)[m] \in Nat /\ Position(listed)[k] \in Nat
        BY <1>1, <1>4
    <3>. QED  BY <1>3, <3>2, <3>3
  <2>. QED  BY <2>1
<1>6. DOMAIN Position(listed) = listed
    BY DEF Position
<1>7. IsInjective(Position(listed))
    BY <1>5, <1>6 DEF IsInjective
<1>. QED  BY <1>3, <1>4, <1>7 DEF Injection

\* The mails can be put into the order in which Gmail lists them, so the
\* listing is a sequence of them all, each once.
LEMMA ListingExists ==
    ASSUME NEW listed \in SUBSET Message
    PROVE  \E s \in SetToSeqs(listed) :
               \A i, j \in DOMAIN s : i < j => s[i] > s[j]
<1>. DEFINE n == Cardinality(listed)
            f == Position(listed)
            s == [i \in 1..n |-> CHOOSE m \in listed : f[m] = i]
<1>1. IsFiniteSet(listed) /\ n \in Nat
    BY ConstantTypes, FS_Subset, FS_CardinalityType
<1>2. f \in Injection(listed, 1..n)
    BY PositionIsInjective
<1>3. IsFiniteSet(1..n) /\ Cardinality(1..n) = n
    BY <1>1, FS_Interval
<1>4. f \in Surjection(listed, 1..n)
    BY <1>2, <1>3, FS_Injection
<1>5. f \in [listed -> 1..n] /\ \A i \in 1..n : \E m \in listed : f[m] = i
    BY <1>4 DEF Surjection
<1>6. \A m, k \in listed : k > m => f[k] < f[m]
    BY PositionIsInjective
<1>. HIDE DEF n, f
<1>7. \A i \in 1..n : s[i] \in listed /\ f[s[i]] = i
    BY <1>5
<1>8. s \in [1..n -> listed] /\ DOMAIN s = 1..n
    BY <1>7
<1>. HIDE DEF s
<1>9. \A i, j \in 1..n : i # j => s[i] # s[j]
    BY <1>7
<1>10. s \in SetToSeqs(listed)
    BY <1>8, <1>9 DEF SetToSeqs, n
<1>11. ASSUME NEW i \in 1..n, NEW j \in 1..n, i < j
       PROVE  s[i] > s[j]
  <2>1. s[i] \in Nat /\ s[j] \in Nat
      BY <1>7, ConstantTypes
  <2>2. s[i] # s[j]
      BY <1>9, <1>11, <1>1
  <2>3. ~ (s[j] > s[i])
      BY <1>1, <1>6, <1>7, <1>11
  <2>. QED  BY <2>1, <2>2, <2>3
<1>. QED  BY <1>8, <1>10, <1>11

Listed(p) == {m \in Message : Lists(m, poll[p].since)}
Listing(p) == CHOOSE s \in SetToSeqs(Listed(p)) :
                  \A i, j \in DOMAIN s : i < j => ComesFirst(p, s[i], s[j])

\* A sequence goes through a set of mails, each once.
GoesThrough(s, S) == s \in Seq(Message) /\ IsInjective(s) /\ ToSet(s) = S

LEMMA ListingGoesThrough ==
    ASSUME NEW p
    PROVE  GoesThrough(Listing(p), Listed(p))
<1>. DEFINE S == Listed(p)
            n == Cardinality(S)
            L == Listing(p)
<1>1. S \in SUBSET Message
    BY DEF Listed
<1>2. \E s \in SetToSeqs(S) :
          \A i, j \in DOMAIN s : i < j => ComesFirst(p, s[i], s[j])
    BY <1>1, ListingExists DEF ComesFirst
<1>3. L \in SetToSeqs(S)
    BY <1>2 DEF Listing
<1>4. IsFiniteSet(S) /\ n \in Nat
    BY <1>1, ConstantTypes, FS_Subset, FS_CardinalityType
<1>5. IsFiniteSet(1..n) /\ Cardinality(1..n) = n
    BY <1>4, FS_Interval
<1>. HIDE DEF L, S
<1>6. /\ L \in [1..n -> S] /\ DOMAIN L = 1..n
      /\ \A i, j \in 1..n : i # j => L[i] # L[j]
    BY <1>3 DEF SetToSeqs
<1>. HIDE DEF n
<1>7. IsInjective(L)
    BY <1>6 DEF IsInjective
<1>8. L \in Surjection(1..n, S)
    BY <1>4, <1>5, <1>6, <1>7, FS_Injection DEF Injection, n
<1>9. \A m \in S : \E i \in 1..n : L[i] = m
    BY <1>8 DEF Surjection
<1>10. ToSet(L) = S
    BY <1>6, <1>9 DEF ToSet
<1>11. L \in Seq(Message)
    BY <1>1, <1>4, <1>6, IsASeq
<1>. QED  BY <1>7, <1>10, <1>11 DEF GoesThrough, L, S

\* The first mail of a poll's list is not among the others.
LEMMA TailGoesThrough ==
    ASSUME NEW s \in Seq(Message), s # <<>>, IsInjective(s)
    PROVE  /\ Head(s) \in Message
           /\ Head(s) \in ToSet(s)
           /\ GoesThrough(Tail(s), ToSet(s) \ {Head(s)})
<1>1. /\ Len(s) \in Nat \ {0} /\ DOMAIN s = 1..Len(s)
      /\ \A i \in 1..Len(s) : s[i] \in Message
    BY EmptySeq, LenProperties, ElementOfSeq
<1>2. /\ Head(s) \in Message /\ Tail(s) \in Seq(Message)
      /\ Len(Tail(s)) = Len(s) - 1
      /\ \A i \in 1..Len(Tail(s)) : Tail(s)[i] = s[i + 1]
    BY HeadTailProperties
<1>3. Head(s) = s[1]
    OBVIOUS
<1>4. DOMAIN Tail(s) = 1..(Len(s) - 1)
    BY <1>2, LenProperties
<1>5. \A i, j \in 1..Len(s) : s[i] = s[j] => i = j
    BY <1>1 DEF IsInjective
<1>6. IsInjective(Tail(s))
  <2>1. ASSUME NEW a \in 1..(Len(s) - 1), NEW b \in 1..(Len(s) - 1),
               Tail(s)[a] = Tail(s)[b]
        PROVE  a = b
    <3>1. s[a + 1] = s[b + 1] /\ a + 1 \in 1..Len(s) /\ b + 1 \in 1..Len(s)
        BY <1>1, <1>2, <2>1
    <3>2. a + 1 = b + 1
        BY <1>5, <3>1
    <3>. QED  BY <1>1, <3>2
  <2>. QED  BY <1>4, <2>1 DEF IsInjective
<1>7. ASSUME NEW m \in ToSet(Tail(s))
      PROVE  m \in ToSet(s) /\ m # Head(s)
  <2>1. PICK i \in 1..(Len(s) - 1) : m = Tail(s)[i]
      BY <1>4 DEF ToSet
  <2>2. m = s[i + 1] /\ i + 1 \in 1..Len(s) /\ 1 \in 1..Len(s) /\ i + 1 # 1
      BY <1>1, <1>2, <2>1
  <2>. QED  BY <1>1, <1>3, <1>5, <2>2 DEF ToSet
<1>8. ASSUME NEW m \in ToSet(s), m # Head(s)
      PROVE  m \in ToSet(Tail(s))
  <2>1. PICK i \in 1..Len(s) : m = s[i]
      BY <1>1 DEF ToSet
  <2>2. i # 1
      BY <1>3, <1>8, <2>1
  <2>3. i - 1 \in 1..(Len(s) - 1) /\ (i - 1) + 1 = i
      BY <1>1, <2>2
  <2>4. Tail(s)[i - 1] = m
      BY <1>2, <2>1, <2>3
  <2>. QED  BY <1>4, <2>3, <2>4 DEF ToSet
<1>9. Head(s) \in ToSet(s)
    BY <1>1, <1>3 DEF ToSet
<1>10. ToSet(Tail(s)) = ToSet(s) \ {Head(s)}
    BY <1>7, <1>8
<1>. QED  BY <1>2, <1>6, <1>9, <1>10 DEF GoesThrough

-----------------------------------------------------------------------------
\* Sessions.

RowsOK ==
    /\ account \in [status : {"CONNECTED", "ERROR"}, polledAt : Time \cup {None}]
    /\ source \in [Message -> SourceStatus \cup {None}]
    /\ candidate \in [Message -> Candidate \cup {None}]
    /\ \A m \in Message : candidate[m] # None => source[m] # None
    /\ told \in [Message -> Nat] /\ lost \in [Message -> Nat]
    /\ skipped \subseteq Message
    /\ overlapped \in BOOLEAN
    /\ budget \in [Events -> Nat]

\* One session takes a step that leaves it as it should be.
SessionMoves(p) ==
    /\ poll' = [poll EXCEPT ![p] = poll'[p]]
    /\ poll'[p] \in Session
    /\ Fits(poll'[p]) /\ Stored(poll'[p], source')
    /\ poll'[p].current <= now
    /\ \A m \in poll'[p].locks : ~ LockedByOther(p, m)
    /\ \A m \in Message : source[m] # None => source'[m] # None
    /\ now' = now /\ arrived' = arrived

LEMMA SessionMovesType ==
    ASSUME TypeInv, RowsOK', NEW p \in Poller, SessionMoves(p)
    PROVE  TypeInv'
<1>. DEFINE x == poll'[p]
<1>1. /\ poll \in [Poller -> Session] /\ now \in Time
      /\ arrived \in [Message -> Time \cup {None}]
      /\ \A q \in Poller :
            Fits(poll[q]) /\ Stored(poll[q], source) /\ poll[q].current <= now
      /\ \A q \in Poller, m \in Message :
            m \in poll[q].locks => ~ LockedByOther(q, m)
    BY DEF TypeInv, TypeOK
<1>2. /\ poll' = [poll EXCEPT ![p] = x]
      /\ x \in Session /\ Fits(x) /\ Stored(x, source') /\ x.current <= now
      /\ \A m \in x.locks : ~ LockedByOther(p, m)
      /\ \A m \in Message : source[m] # None => source'[m] # None
      /\ now' = now /\ arrived' = arrived
    BY DEF SessionMoves
<1>. HIDE DEF x
<1>3. /\ poll' \in [Poller -> Session] /\ poll'[p] = x
      /\ \A q \in Poller : q # p => poll'[q] = poll[q]
    BY <1>1, <1>2
<1>4. \A q \in Poller : poll[q] \in Session /\ poll'[q] \in Session
    BY <1>1, <1>3
<1>5. ASSUME NEW q \in Poller
      PROVE  Fits(poll'[q]) /\ Stored(poll'[q], source') /\ poll'[q].current <= now
  <2>1. CASE q = p
      BY <1>2, <1>3, <2>1
  <2>2. CASE q # p
    <3>1. poll[q].at \in Message \cup {None}
        BY <1>4 DEF Session
    <3>2. poll[q].pc \in AtHand => poll[q].at \in Message
        BY <1>1, <3>1 DEF Fits
    <3>3. Stored(poll[q], source)
        BY <1>1
    <3>4. Stored(poll[q], source')
        BY <1>2, <3>2, <3>3 DEF Stored, AtHand
    <3>. QED  BY <1>1, <1>3, <2>2, <3>4
  <2>. QED  BY <2>1, <2>2
<1>6. ASSUME NEW q \in Poller, NEW m \in Message
      PROVE  poll'[q].src[m] # None \/ poll'[q].cand[m] # None \/ m \in poll'[q].shown
                => m \in poll'[q].locks
    BY <1>5 DEF Fits
<1>7. ASSUME NEW q \in Poller, NEW o \in Poller, q # o, NEW m \in Message,
             m \in poll'[q].locks
      PROVE  m \notin poll'[o].locks
  <2>1. CASE q = p
      BY <1>2, <1>3, <1>7, <2>1 DEF LockedByOther
  <2>2. CASE o = p
    <3>1. m \in poll[q].locks /\ q \in Poller \ {p}
        BY <1>3, <1>7, <2>2
    <3>. QED  BY <1>2, <1>3, <2>2, <3>1 DEF LockedByOther
  <2>3. CASE q # p /\ o # p
      BY <1>1, <1>3, <1>7, <2>3 DEF LockedByOther
  <2>. QED  BY <2>1, <2>2, <2>3
<1>8. \A q \in Poller, m \in Message : m \in poll'[q].locks => ~ LockedByOther(q, m)'
    BY <1>7 DEF LockedByOther
<1>9. TypeOK'
    BY <1>1, <1>2, <1>3, <1>6, <1>8 DEF TypeOK, RowsOK
<1>. QED  BY <1>2, <1>5, <1>9 DEF TypeInv

LEMMA RowsStay ==
    ASSUME TypeInv,
           UNCHANGED <<account, source, candidate, told, skipped, overlapped>>,
           lost' \in [Message -> Nat], budget' \in [Events -> Nat]
    PROVE  RowsOK'
    BY DEF TypeInv, TypeOK, RowsOK

LEMMA SpendType ==
    ASSUME TypeInv, NEW e \in Events, Spend(e)
    PROVE  budget' \in [Events -> Nat]
    BY DEF TypeInv, TypeOK, Spend

LEMMA RollbackType ==
    ASSUME TypeInv, NEW p \in Poller, Rollback(p)
    PROVE  /\ lost' \in [Message -> Nat]
           /\ \A m \in Message : lost'[m] = lost[m] + IF m \in poll[p].shown THEN 1 ELSE 0
    BY DEF TypeInv, TypeOK, Rollback

\* What is known of a session at hand.
LEMMA SessionFacts ==
    ASSUME TypeInv, NEW p \in Poller
    PROVE  /\ poll[p] \in Session /\ Fits(poll[p]) /\ Stored(poll[p], source)
           /\ poll[p].current <= now
           /\ \A m \in poll[p].locks : ~ LockedByOther(p, m)
           /\ poll[p].pc \in AtHand => poll[p].at \in Message
<1>1. poll[p] \in Session /\ Fits(poll[p])
    BY DEF TypeInv, TypeOK
<1>2. poll[p].at \in Message \cup {None} /\ poll[p].locks \subseteq Message
    BY <1>1 DEF Session
<1>. QED  BY <1>1, <1>2 DEF TypeInv, TypeOK, Fits

LEMMA EmptyListFacts ==
    /\ <<>> \in Seq(Message) /\ IsInjective(<<>>) /\ ToSet(<<>>) = {}
    BY EmptySeq DEF IsInjective, ToSet

\* A session with nothing at hand.
Blank(x) ==
    /\ x \in Session /\ x.pc \in Fresh
    /\ x.locks = {} /\ x.shown = {} /\ x.todo = <<>> /\ x.at = None
    /\ x.src = [m \in Message |-> None] /\ x.cand = [m \in Message |-> None]
    /\ x.expired = FALSE
Ended(x) == Blank(x) /\ x.pc \in {"idle", "failing"}

LEMMA BlankFits ==
    ASSUME NEW x, Blank(x)
    PROVE  Fits(x) /\ \A rows : Stored(x, rows)
<1>1. x.pc \notin AtHand /\ x.pc \notin {"decide", "notify", "reject"}
    BY DEF Blank, Fresh, AtHand
<1>2. \A m \in Message : x.src[m] = None /\ x.cand[m] = None /\ x.src[m] # "NEW"
    BY ConstantTypes DEF SourceStatus, Blank
<1>3. Fits(x)
    BY <1>1, <1>2, EmptyListFacts DEF Fits, Blank
<1>4. \A rows : Stored(x, rows)
    BY <1>1, <1>2 DEF Stored
<1>. QED  BY <1>3, <1>4

LEMMA NoPollIsBlank == Blank(NoPoll)
<1>1. 0 \in Time
    BY ConstantTypes DEF Time
<1>. QED  BY <1>1, EmptyListFacts DEF Blank, NoPoll, Session, Fresh, Unbound

LEMMA BlankWith ==
    ASSUME NEW pc \in Fresh, NEW current \in Time, NEW since \in Time \cup {None}
    PROVE  /\ Blank([NoPoll EXCEPT !.pc = pc])
           /\ Blank([NoPoll EXCEPT !.pc = pc, !.current = current, !.since = since])
<1>. HIDE DEF NoPoll
<1>1. /\ NoPoll.pc \in Fresh /\ NoPoll \in Session
      /\ Fresh \subseteq {"idle", "token", "list", "next", "create", "insert",
                          "decide", "notify", "reject", "failing"}
    BY NoPollIsBlank DEF Blank, Fresh
<1>2. /\ [NoPoll EXCEPT !.pc = pc] \in Session
      /\ [NoPoll EXCEPT !.pc = pc, !.current = current, !.since = since] \in Session
    BY <1>1 DEF Session
<1>. QED  BY <1>1, <1>2, NoPollIsBlank DEF Blank, Session

-----------------------------------------------------------------------------
\* Every step leaves the session it belongs to as it should be.

LEMMA Moves ==
    ASSUME TypeInv, NEW p \in Poller, NEW x \in Session, Fits(x), Stored(x, source'),
           x.current <= now, \A m \in x.locks : ~ LockedByOther(p, m),
           poll' = [poll EXCEPT ![p] = x],
           \A m \in Message : source[m] # None => source'[m] # None,
           now' = now, arrived' = arrived
    PROVE  SessionMoves(p) /\ poll'[p] = x
<1>1. poll \in [Poller -> Session]
    BY DEF TypeInv, TypeOK
<1>2. poll'[p] = x
    BY <1>1
<1>. QED  BY <1>2 DEF SessionMoves

LEMMA BlankMoves ==
    ASSUME TypeInv, NEW p \in Poller, NEW x, Blank(x), x.current <= now,
           poll' = [poll EXCEPT ![p] = x],
           \A m \in Message : source[m] # None => source'[m] # None,
           now' = now, arrived' = arrived
    PROVE  SessionMoves(p) /\ poll'[p] = x
<1>1. x \in Session /\ x.locks = {}
    BY DEF Blank
<1>2. Fits(x) /\ Stored(x, source')
    BY BlankFits
<1>. QED  BY <1>1, <1>2, Moves

LEMMA NowType ==
    ASSUME TypeInv
    PROVE  now \in Time /\ now \in Nat /\ 0 <= now /\ 0 \in Time
    BY ConstantTypes DEF TypeInv, TypeOK, Time

LEMMA EndMoves ==
    ASSUME TypeInv, NEW p \in Poller,
           \/ poll' = [poll EXCEPT ![p] = NoPoll]
           \/ poll' = [poll EXCEPT ![p] = [NoPoll EXCEPT !.pc = "failing"]],
           \A m \in Message : source[m] # None => source'[m] # None,
           now' = now, arrived' = arrived
    PROVE  SessionMoves(p) /\ Ended(poll'[p])
<1>1. Blank(NoPoll) /\ Blank([NoPoll EXCEPT !.pc = "failing"])
    BY NoPollIsBlank, BlankWith, NowType DEF Fresh
<1>5. NoPoll.pc = "idle" /\ [NoPoll EXCEPT !.pc = "failing"].pc = "failing"
    BY DEF NoPoll
<1>2. NoPoll.current <= now /\ [NoPoll EXCEPT !.pc = "failing"].current <= now
    BY NowType DEF NoPoll
<1>. HIDE DEF NoPoll
<1>3. CASE poll' = [poll EXCEPT ![p] = NoPoll]
    BY <1>1, <1>2, <1>3, <1>5, BlankMoves DEF Ended
<1>4. CASE poll' = [poll EXCEPT ![p] = [NoPoll EXCEPT !.pc = "failing"]]
    BY <1>1, <1>2, <1>4, <1>5, BlankMoves DEF Ended
<1>. QED  BY <1>3, <1>4

LEMMA StartPollMoves ==
    ASSUME TypeInv, NEW p \in Poller, StartPoll(p)
    PROVE  /\ SessionMoves(p) /\ RowsOK' /\ Blank(poll'[p])
           /\ poll'[p].pc = "token" /\ poll'[p].since = account.polledAt
<1>. DEFINE x == [NoPoll EXCEPT !.pc = "token", !.current = now,
                                !.since = account.polledAt]
<1>1. now \in Time /\ account.polledAt \in Time \cup {None} /\ now <= now
    BY NowType DEF TypeInv, TypeOK
<1>2. /\ Blank(x) /\ x.current = now
      /\ x.pc = "token" /\ x.since = account.polledAt
    BY <1>1, BlankWith DEF Fresh, NoPoll
<1>3. poll' = [poll EXCEPT ![p] = x] /\ UNCHANGED <<now, arrived, source>>
    BY DEF StartPoll
<1>. HIDE DEF x
<1>4. SessionMoves(p) /\ poll'[p] = x
    BY <1>1, <1>2, <1>3, BlankMoves
<1>5. budget' \in [Events -> Nat]
  <2>1. CASE UNCHANGED budget
      BY <2>1 DEF TypeInv, TypeOK
  <2>2. CASE Spend("manual")
      BY <2>2, SpendType DEF Events
  <2>. QED  BY <2>1, <2>2 DEF StartPoll
<1>6. overlapped' \in BOOLEAN
    BY DEF StartPoll, TypeInv, TypeOK
<1>7. UNCHANGED <<account, source, candidate, told, lost, skipped>>
    BY DEF StartPoll
<1>8. RowsOK'
    BY <1>5, <1>6, <1>7 DEF RowsOK, TypeInv, TypeOK
<1>. QED  BY <1>2, <1>4, <1>8

LEMMA SameRows ==
    ASSUME TypeInv, UNCHANGED <<account, source, candidate, told, lost, skipped,
                                overlapped, budget>>
    PROVE  RowsOK'
    BY DEF RowsOK, TypeInv, TypeOK

LEMMA GetTokenMoves ==
    ASSUME TypeInv, NEW p \in Poller, GetToken(p)
    PROVE  SessionMoves(p) /\ RowsOK' /\ poll'[p] = [poll[p] EXCEPT !.pc = "list"]
<1>. DEFINE r == poll[p]
            x == [r EXCEPT !.pc = "list"]
<1>1. /\ r \in Session /\ Fits(r) /\ Stored(r, source) /\ r.current <= now
      /\ \A m \in r.locks : ~ LockedByOther(p, m)
    BY SessionFacts
<1>2. r.pc = "token" /\ poll' = [poll EXCEPT ![p] = x]
    BY DEF GetToken, Goto
<1>3. x \in Session
    BY <1>1 DEF Session
<1>4. Fits(x)
    BY <1>1, <1>2 DEF Fits, Session, AtHand, Fresh
<1>5. Stored(x, source)
    BY <1>1 DEF Stored, Session
<1>6. x.locks = r.locks /\ x.current = r.current
    BY <1>1 DEF Session
<1>7. UNCHANGED <<now, arrived, source>>
    BY DEF GetToken
<1>. HIDE DEF r, x
<1>8. SessionMoves(p) /\ poll'[p] = x
    BY <1>1, <1>2, <1>3, <1>4, <1>5, <1>6, <1>7, Moves
<1>9. RowsOK'
    BY DEF GetToken, RowsOK, TypeInv, TypeOK
<1>. QED  BY <1>8, <1>9 DEF x, r

LEMMA ListMessagesMoves ==
    ASSUME TypeInv, NEW p \in Poller, ListMessages(p)
    PROVE  /\ SessionMoves(p) /\ RowsOK'
           /\ poll'[p] = [poll[p] EXCEPT !.pc = "next", !.since = None,
                                         !.todo = Listing(p)]
<1>. DEFINE r == poll[p]
            x == [r EXCEPT !.pc = "next", !.since = None, !.todo = Listing(p)]
<1>1. /\ r \in Session /\ Fits(r) /\ Stored(r, source) /\ r.current <= now
      /\ \A m \in r.locks : ~ LockedByOther(p, m)
    BY SessionFacts
<1>2. r.pc = "list" /\ poll \in [Poller -> Session]
    BY DEF ListMessages, TypeInv, TypeOK
<1>3. poll' = [poll EXCEPT ![p] = x]
    BY <1>2 DEF ListMessages, Listing, Listed
<1>4. Listing(p) \in Seq(Message) /\ IsInjective(Listing(p))
    BY ListingGoesThrough DEF GoesThrough
<1>5. x \in Session
    BY <1>1, <1>4 DEF Session
<1>6. /\ x.pc = "next" /\ x.todo = Listing(p) /\ x.at = r.at /\ x.shown = r.shown
      /\ x.locks = r.locks /\ x.current = r.current
      /\ x.src = r.src /\ x.cand = r.cand
    BY <1>1 DEF Session
<1>. HIDE DEF x
<1>7. r.locks = {} /\ r.at = None /\ r.shown = {} /\ "next" \notin Fresh \cup AtHand
  <2>1. r.locks = {} /\ r.at = None /\ "next" \notin Fresh \cup AtHand
      BY <1>1, <1>2 DEF Fits, Fresh, AtHand
  <2>2. r.shown \subseteq Message
      BY <1>1 DEF Session
  <2>. QED  BY <1>1, <2>1, <2>2 DEF Fits
<1>8. Fits(x)
    BY <1>1, <1>4, <1>6, <1>7 DEF Fits
<1>9. Stored(x, source)
    BY <1>1, <1>6 DEF Stored
<1>10. UNCHANGED <<now, arrived, source>>
    BY DEF ListMessages
<1>. HIDE DEF r
<1>11. SessionMoves(p) /\ poll'[p] = x
    BY <1>1, <1>3, <1>5, <1>6, <1>8, <1>9, <1>10, Moves
<1>12. RowsOK'
    BY SameRows DEF ListMessages
<1>. QED  BY <1>11, <1>12 DEF x, r

\* What a session keeps while its poll goes on.
Same(x, r) ==
    x.current = r.current /\ x.src = r.src /\ x.cand = r.cand /\ x.shown = r.shown
        /\ x.locks = r.locks

\* A mail passed over, or taken up.
Passes(x, r) ==
    x.pc = "next" /\ x.at = None /\ x.todo = Tail(r.todo) /\ x.expired = r.expired
TakesUp(x, r) ==
    /\ x.at = Head(r.todo) /\ x.todo = Tail(r.todo) /\ x.expired = r.expired
    /\ x.loaded = source[x.at] /\ source[x.at] \notin Handled
    /\ x.pc = IF source[x.at] = None THEN "create" ELSE "decide"

\* The first mail of the list, which the session has not shown.
LEMMA HeadFacts ==
    ASSUME NEW r \in Session, Fits(r), r.todo # <<>>
    PROVE  /\ Head(r.todo) \in Message /\ Head(r.todo) \notin r.shown
           /\ Tail(r.todo) \in Seq(Message) /\ IsInjective(Tail(r.todo))
           /\ Head(r.todo) \in ToSet(r.todo)
           /\ ToSet(Tail(r.todo)) = ToSet(r.todo) \ {Head(r.todo)}
<1>1. r.todo \in Seq(Message) /\ IsInjective(r.todo) /\ r.shown \cap ToSet(r.todo) = {}
    BY DEF Session, Fits
<1>. QED  BY <1>1, TailGoesThrough DEF GoesThrough

LEMMA NextMessageMoves ==
    ASSUME TypeInv, NEW p \in Poller, NextMessage(p)
    PROVE  /\ SessionMoves(p) /\ RowsOK' /\ Same(poll'[p], poll[p])
           /\ \/ Passes(poll'[p], poll[p]) /\ source[Head(poll[p].todo)] \in Handled
              \/ TakesUp(poll'[p], poll[p])
<1>. DEFINE r == poll[p]
            m == Head(r.todo)
            x == IF source[m] \in Handled
                 THEN [r EXCEPT !.todo = Tail(@)]
                 ELSE [r EXCEPT !.todo = Tail(@), !.at = m,
                          !.loaded = source[m],
                          !.bound = IF source[m] = None THEN None ELSE m,
                          !.pc = IF source[m] = None THEN "create" ELSE "decide"]
<1>1. /\ r \in Session /\ Fits(r) /\ Stored(r, source) /\ r.current <= now
      /\ \A k \in r.locks : ~ LockedByOther(p, k)
    BY SessionFacts
<1>2. /\ r.pc = "next" /\ r.todo # <<>> /\ poll' = [poll EXCEPT ![p] = x]
      /\ UNCHANGED <<now, arrived, account, source, candidate, told, lost, overlapped,
                     budget, skipped>>
    BY DEF NextMessage
<1>3. /\ m \in Message /\ m \notin r.shown /\ m # None
      /\ Tail(r.todo) \in Seq(Message) /\ IsInjective(Tail(r.todo))
      /\ ToSet(Tail(r.todo)) = ToSet(r.todo) \ {m}
    BY <1>1, <1>2, HeadFacts, ConstantTypes
<1>4. source[m] \in SourceStatus \cup {None}
    BY <1>3 DEF TypeInv, TypeOK
<1>5. r.at = None
    BY <1>1, <1>2 DEF Fits, AtHand
<1>6. x \in Session /\ Same(x, r) /\ x.expired = r.expired /\ x.todo = Tail(r.todo)
  <2>. HIDE DEF r, m
  <2>1. CASE source[m] \in Handled
    <3>1. x = [r EXCEPT !.todo = Tail(r.todo)]
        BY <2>1
    <3>. HIDE DEF x
    <3>. QED  BY <1>1, <1>3, <3>1 DEF Session, Same
  <2>2. CASE source[m] \notin Handled
    <3>. DEFINE b == IF source[m] = None THEN None ELSE m
                c == IF source[m] = None THEN "create" ELSE "decide"
    <3>1. x = [r EXCEPT !.todo = Tail(r.todo), !.at = m, !.loaded = source[m],
                        !.bound = b, !.pc = c]
        BY <2>2
    <3>2. b \in Message \cup {Unbound, None} /\ c \in {"create", "decide"}
        BY <1>3
    <3>. HIDE DEF x, b, c
    <3>. QED  BY <1>1, <1>3, <1>4, <3>1, <3>2 DEF Session, Same
  <2>. QED  BY <2>1, <2>2
<1>7. CASE source[m] \in Handled
  <2>1. x.pc = "next" /\ x.at = None
      BY <1>1, <1>2, <1>5, <1>7 DEF Session
  <2>. HIDE DEF x, r, m
  <2>2. Fits(x)
      BY <1>1, <1>2, <1>3, <1>6, <2>1 DEF Fits, Same, AtHand, Fresh
  <2>3. Stored(x, source')
      BY <1>1, <1>2, <1>6, <2>1 DEF Stored, Same
  <2>4. SessionMoves(p) /\ poll'[p] = x
      BY <1>1, <1>2, <1>6, <2>2, <2>3, Moves DEF Same
  <2>5. RowsOK'
      BY <1>2, SameRows
  <2>. QED  BY <1>6, <1>7, <2>1, <2>4, <2>5 DEF Passes, r, m
<1>8. CASE source[m] \notin Handled
  <2>1. /\ x.at = m /\ x.loaded = source[m]
        /\ x.pc = IF source[m] = None THEN "create" ELSE "decide"
      BY <1>1, <1>8 DEF Session
  <2>. HIDE DEF x, r, m
  <2>2. x.pc \in AtHand /\ x.pc \notin Fresh /\ x.pc # "notify"
      BY <2>1 DEF AtHand, Fresh
  <2>3. Fits(x)
      BY <1>1, <1>3, <1>6, <2>1, <2>2 DEF Fits, Same
  <2>4. Stored(x, source')
      BY <1>1, <1>2, <1>6, <2>1 DEF Stored, Same
  <2>5. SessionMoves(p) /\ poll'[p] = x
      BY <1>1, <1>2, <1>6, <2>3, <2>4, Moves DEF Same
  <2>6. RowsOK'
      BY <1>2, SameRows
  <2>. QED  BY <1>6, <1>8, <2>1, <2>5, <2>6 DEF TakesUp, r, m
<1>. QED  BY <1>7, <1>8

LEMMA SkipGarbledMoves ==
    ASSUME TypeInv, NEW p \in Poller, SkipGarbled(p)
    PROVE  LET x == poll'[p]
               r == poll[p] IN
           /\ SessionMoves(p) /\ RowsOK' /\ Passes(x, r)
           /\ skipped' = skipped \cup {Head(r.todo)} /\ Head(r.todo) \in Message
           /\ x.current = r.current /\ x.cand = r.cand /\ x.shown = r.shown
           /\ \A m \in Message :
                 /\ x.src[m] # None <=> r.src[m] # None
                 /\ x.src[m] \in {r.src[m], "FAILED"}
<1>. DEFINE r == poll[p]
            b == r.bound
            src == [n \in Message |-> IF n = b /\ r.src[n] # None THEN "FAILED"
                                      ELSE r.src[n]]
            x == [r EXCEPT !.todo = Tail(r.todo), !.src = src]
<1>1. /\ r \in Session /\ Fits(r) /\ Stored(r, source) /\ r.current <= now
      /\ \A k \in r.locks : ~ LockedByOther(p, k)
    BY SessionFacts
<1>2. /\ r.pc = "next" /\ r.todo # <<>> /\ poll' = [poll EXCEPT ![p] = x]
      /\ skipped' = skipped \cup {Head(r.todo)} /\ Spend("fault")
      /\ UNCHANGED <<now, arrived, account, source, candidate, told, lost, overlapped>>
    BY DEF SkipGarbled
<1>3. /\ Head(r.todo) \in Message
      /\ Tail(r.todo) \in Seq(Message) /\ IsInjective(Tail(r.todo))
      /\ ToSet(Tail(r.todo)) = ToSet(r.todo) \ {Head(r.todo)}
    BY <1>1, <1>2, HeadFacts
<1>4. r.src \in [Message -> SourceStatus \cup {None}]
    BY <1>1 DEF Session
<1>5. "FAILED" \in SourceStatus /\ "FAILED" # None
    BY ConstantTypes DEF SourceStatus
<1>6. src \in [Message -> SourceStatus \cup {None}]
    BY <1>4, <1>5
<1>7. \A m \in Message :
          /\ src[m] # None <=> r.src[m] # None
          /\ src[m] \in {r.src[m], "FAILED"}
    BY <1>5
<1>. HIDE DEF src, b
<1>8. /\ x.pc = r.pc /\ x.at = r.at /\ x.todo = Tail(r.todo) /\ x.expired = r.expired
      /\ x.current = r.current /\ x.cand = r.cand /\ x.shown = r.shown /\ x.src = src
      /\ x.locks = r.locks
    BY <1>1 DEF Session
<1>9. x \in Session
    BY <1>1, <1>3, <1>6 DEF Session
<1>. HIDE DEF x, r
<1>10. r.at = None
    BY <1>1, <1>2 DEF Fits, AtHand
<1>11. Fits(x)
    BY <1>1, <1>2, <1>3, <1>7, <1>8, <1>10 DEF Fits, AtHand, Fresh
<1>12. Stored(x, source')
    BY <1>1, <1>2, <1>8 DEF Stored
<1>13. SessionMoves(p) /\ poll'[p] = x
    BY <1>1, <1>2, <1>8, <1>9, <1>11, <1>12, Moves
<1>14. budget' \in [Events -> Nat]
    BY <1>2, SpendType DEF Events
<1>15. RowsOK'
    BY <1>2, <1>3, <1>14 DEF RowsOK, TypeInv, TypeOK
<1>16. Passes(x, r)
    BY <1>2, <1>8, <1>10 DEF Passes
<1>. QED  BY <1>2, <1>3, <1>7, <1>8, <1>13, <1>15, <1>16 DEF r

LEMMA CreateSourceMoves ==
    ASSUME TypeInv, NEW p \in Poller, CreateSource(p)
    PROVE  LET x == poll'[p]
               r == poll[p] IN
           /\ SessionMoves(p) /\ RowsOK' /\ Same(x, r)
           /\ x.todo = r.todo /\ x.expired = r.expired
           /\ \/ source[r.at] = None /\ x.pc = "insert" /\ x.at = r.at
              \/ source[r.at] # None /\ x.pc = "next" /\ x.at = None
<1>. DEFINE r == poll[p]
<1>1. /\ r \in Session /\ Fits(r) /\ Stored(r, source) /\ r.current <= now
      /\ \A k \in r.locks : ~ LockedByOther(p, k)
    BY SessionFacts
<1>2. /\ r.pc = "create"
      /\ UNCHANGED <<now, arrived, account, source, candidate, told, lost, overlapped,
                     budget, skipped>>
    BY DEF CreateSource
<1>3. RowsOK'
    BY <1>2, SameRows
<1>4. CASE source[r.at] = None
  <2>. DEFINE x == [r EXCEPT !.pc = "insert"]
  <2>1. poll' = [poll EXCEPT ![p] = x]
      BY <1>4 DEF CreateSource, Goto
  <2>2. /\ x \in Session /\ Same(x, r) /\ x.pc = "insert" /\ x.at = r.at
        /\ x.todo = r.todo /\ x.expired = r.expired
      BY <1>1 DEF Session, Same
  <2>. HIDE DEF x, r
  <2>3. Fits(x)
      BY <1>1, <1>2, <2>2 DEF Fits, Same, AtHand, Fresh
  <2>4. Stored(x, source')
      BY <1>1, <1>2, <2>2 DEF Stored, Same
  <2>5. SessionMoves(p) /\ poll'[p] = x
      BY <1>1, <1>2, <2>1, <2>2, <2>3, <2>4, Moves DEF Same
  <2>. QED  BY <1>3, <1>4, <2>2, <2>5 DEF r
<1>5. CASE source[r.at] # None
  <2>. DEFINE x == [r EXCEPT !.pc = "next", !.at = None, !.loaded = None]
  <2>1. poll' = [poll EXCEPT ![p] = x]
      BY <1>5 DEF CreateSource, GoOn
  <2>2. /\ x \in Session /\ Same(x, r) /\ x.pc = "next" /\ x.at = None
        /\ x.todo = r.todo /\ x.expired = r.expired
      BY <1>1 DEF Session, Same
  <2>. HIDE DEF x, r
  <2>3. Fits(x)
      BY <1>1, <1>2, <2>2 DEF Fits, Same, AtHand, Fresh
  <2>4. Stored(x, source')
      BY <1>1, <1>2, <2>2 DEF Stored, Same
  <2>5. SessionMoves(p) /\ poll'[p] = x
      BY <1>1, <1>2, <2>1, <2>2, <2>3, <2>4, Moves DEF Same
  <2>. QED  BY <1>3, <1>5, <2>2, <2>5 DEF r
<1>. QED  BY <1>4, <1>5

\* The session's transaction is over.
Emptied(x) ==
    x.locks = {} /\ x.shown = {} /\ x.src = NoPoll.src /\ x.cand = NoPoll.cand

LEMMA NothingWritten ==
    /\ NoPoll.src = [m \in Message |-> None]
    /\ NoPoll.cand = [m \in Message |-> None]
    /\ \A m \in Message : NoPoll.src[m] = None /\ NoPoll.cand[m] = None
    /\ NoPoll.src \in [Message -> SourceStatus \cup {None}]
    /\ NoPoll.cand \in [Message -> Candidate \cup {None}]
    BY DEF NoPoll

LEMMA CleanFacts ==
    ASSUME NEW r \in Session
    PROVE  /\ Clean(r) \in Session /\ Emptied(Clean(r))
           /\ Clean(r).pc = r.pc /\ Clean(r).at = r.at /\ Clean(r).todo = r.todo
           /\ Clean(r).current = r.current /\ Clean(r).expired = r.expired
           /\ Clean(r).loaded = r.loaded /\ Clean(r).bound = r.bound
           /\ Clean(r).since = r.since
<1>. DEFINE src == NoPoll.src
            cand == NoPoll.cand
<1>1. /\ src \in [Message -> SourceStatus \cup {None}]
      /\ cand \in [Message -> Candidate \cup {None}]
    BY NothingWritten
<1>2. Clean(r) = [r EXCEPT !.locks = {}, !.shown = {}, !.src = src, !.cand = cand]
    BY DEF Clean
<1>. HIDE DEF src, cand
<1>3. Clean(r) \in Session
    BY <1>1, <1>2 DEF Session
<1>4. /\ Clean(r).locks = {} /\ Clean(r).shown = {} /\ Clean(r).src = src
      /\ Clean(r).cand = cand
      /\ Clean(r).pc = r.pc /\ Clean(r).at = r.at /\ Clean(r).todo = r.todo
      /\ Clean(r).current = r.current /\ Clean(r).expired = r.expired
      /\ Clean(r).loaded = r.loaded /\ Clean(r).bound = r.bound
      /\ Clean(r).since = r.since
    BY <1>2 DEF Session
<1>. QED  BY <1>3, <1>4 DEF Emptied, src, cand

LEMMA GoOnFacts ==
    ASSUME NEW r \in Session
    PROVE  /\ GoOn(r) \in Session /\ Same(GoOn(r), r)
           /\ GoOn(r).pc = "next" /\ GoOn(r).at = None /\ GoOn(r).todo = r.todo
           /\ GoOn(r).expired = r.expired
    BY DEF GoOn, Session, Same

\* A commit of what a session has written, with the source rows "stored".
LEMMA CommitFacts ==
    ASSUME TypeInv, NEW p \in Poller, NEW stored \in [Message -> SourceStatus \cup {None}],
           CommitSession(p, stored)
    PROVE  /\ source' \in [Message -> SourceStatus \cup {None}]
           /\ candidate' \in [Message -> Candidate \cup {None}]
           /\ \A m \in Message :
                 /\ source[m] # None => source'[m] # None
                 /\ candidate'[m] # None => source'[m] # None
                 /\ source'[m] = IF stored[m] # None THEN stored[m]
                                 ELSE IF poll[p].src[m] # None THEN poll[p].src[m]
                                 ELSE source[m]
                 /\ candidate'[m] = IF poll[p].cand[m] # None THEN poll[p].cand[m]
                                    ELSE candidate[m]
<1>. DEFINE r == poll[p]
            rows == Over(r.src, source)
<1>1. /\ r.src \in [Message -> SourceStatus \cup {None}]
      /\ r.cand \in [Message -> Candidate \cup {None}]
      /\ \A m \in Message : r.cand[m] # None => source[m] # None
    BY SessionFacts DEF Session, Stored
<1>2. /\ source \in [Message -> SourceStatus \cup {None}]
      /\ candidate \in [Message -> Candidate \cup {None}]
      /\ \A m \in Message : candidate[m] # None => source[m] # None
    BY DEF TypeInv, TypeOK
<1>3. source' = Over(stored, rows) /\ candidate' = Over(r.cand, candidate)
    BY DEF CommitSession
<1>. HIDE DEF r
<1>4. /\ rows \in [Message -> SourceStatus \cup {None}]
      /\ \A m \in Message : rows[m] = IF r.src[m] # None THEN r.src[m] ELSE source[m]
    BY <1>1, <1>2 DEF Over
<1>. HIDE DEF rows
<1>5. /\ source' \in [Message -> SourceStatus \cup {None}]
      /\ \A m \in Message : source'[m] = IF stored[m] # None THEN stored[m] ELSE rows[m]
    BY <1>3, <1>4 DEF Over
<1>6. /\ candidate' \in [Message -> Candidate \cup {None}]
      /\ \A m \in Message : candidate'[m] = IF r.cand[m] # None THEN r.cand[m]
                                            ELSE candidate[m]
    BY <1>1, <1>2, <1>3 DEF Over
<1>7. \A m \in Message : source[m] # None => source'[m] # None
    BY <1>4, <1>5
<1>8. \A m \in Message : candidate'[m] # None => source'[m] # None
    BY <1>1, <1>2, <1>6, <1>7
<1>. QED  BY <1>4, <1>5, <1>6, <1>7, <1>8 DEF r

LEMMA InsertSourceMoves ==
    ASSUME TypeInv, NEW p \in Poller, InsertSource(p)
    PROVE  LET x == poll'[p]
               r == poll[p] IN
           /\ SessionMoves(p) /\ RowsOK' /\ Emptied(x)
           /\ x.pc = "decide" /\ x.at = r.at /\ x.todo = r.todo /\ x.loaded = "NEW"
           /\ x.current = r.current /\ x.expired = r.expired
           /\ r.at \in Message /\ source[r.at] = None /\ source'[r.at] = "NEW"
           /\ \A m \in Message :
                 /\ m # r.at => source'[m] = IF r.src[m] # None THEN r.src[m]
                                             ELSE source[m]
                 /\ candidate'[m] = IF r.cand[m] # None THEN r.cand[m] ELSE candidate[m]
<1>. DEFINE r == poll[p]
            c == Clean(r)
            x == [c EXCEPT !.pc = "decide", !.loaded = "NEW", !.bound = r.at]
            stored == [NoPoll.src EXCEPT ![r.at] = "NEW"]
<1>1. /\ r \in Session /\ Fits(r) /\ Stored(r, source) /\ r.current <= now
      /\ r.pc \in AtHand => r.at \in Message
    BY SessionFacts
<1>2. /\ r.pc = "insert" /\ source[r.at] = None /\ CommitSession(p, stored)
      /\ poll' = [poll EXCEPT ![p] = x]
      /\ UNCHANGED <<now, arrived, account, told, lost, overlapped, budget, skipped>>
    BY DEF InsertSource
<1>3. r.at \in Message
    BY <1>1, <1>2 DEF AtHand
<1>4. /\ stored \in [Message -> SourceStatus \cup {None}] /\ stored[r.at] = "NEW"
      /\ \A m \in Message : m # r.at => stored[m] = None
    BY <1>3, NothingWritten DEF SourceStatus
<1>5. "NEW" # None
    BY ConstantTypes DEF SourceStatus
<1>. HIDE DEF stored, r
<1>6. /\ source' \in [Message -> SourceStatus \cup {None}]
      /\ candidate' \in [Message -> Candidate \cup {None}]
      /\ \A m \in Message :
            /\ source[m] # None => source'[m] # None
            /\ candidate'[m] # None => source'[m] # None
            /\ source'[m] = IF stored[m] # None THEN stored[m]
                            ELSE IF r.src[m] # None THEN r.src[m]
                            ELSE source[m]
            /\ candidate'[m] = IF r.cand[m] # None THEN r.cand[m]
                               ELSE candidate[m]
    BY <1>2, <1>4, CommitFacts DEF r
<1>7. /\ c \in Session /\ Emptied(c) /\ c.at = r.at /\ c.todo = r.todo
      /\ c.current = r.current /\ c.expired = r.expired
    BY <1>1, CleanFacts
<1>. HIDE DEF c
<1>8. x \in Session
    BY <1>3, <1>7 DEF Session, SourceStatus
<1>9. /\ x.pc = "decide" /\ x.at = r.at /\ x.todo = r.todo /\ x.loaded = "NEW"
      /\ x.current = r.current /\ x.expired = r.expired /\ Emptied(x)
    BY <1>7 DEF Session, Emptied
<1>. HIDE DEF x
<1>10. Fits(x)
    BY <1>1, <1>2, <1>9, NothingWritten, ConstantTypes
    DEF Fits, AtHand, Fresh, Emptied, SourceStatus
<1>11. Stored(x, source')
    BY <1>3, <1>4, <1>5, <1>6, <1>9, NothingWritten DEF Stored, Emptied
<1>12. SessionMoves(p) /\ poll'[p] = x
    BY <1>1, <1>2, <1>6, <1>8, <1>9, <1>10, <1>11, Moves DEF Emptied
<1>13. RowsOK'
    BY <1>2, <1>6 DEF RowsOK, TypeInv, TypeOK
<1>. QED  BY <1>2, <1>3, <1>4, <1>5, <1>6, <1>9, <1>12, <1>13 DEF r

LEMMA InsertDuplicateMoves ==
    ASSUME TypeInv, NEW p \in Poller, InsertDuplicate(p)
    PROVE  LET x == poll'[p]
               r == poll[p] IN
           /\ SessionMoves(p) /\ RowsOK' /\ Emptied(x)
           /\ x.pc = "next" /\ x.at = None /\ source[r.at] # None
<1>. DEFINE r == poll[p]
            c == Clean(r)
            g == GoOn(c)
            x == [g EXCEPT !.expired = TRUE]
<1>1. /\ r \in Session /\ Fits(r) /\ Stored(r, source) /\ r.current <= now
    BY SessionFacts
<1>2. /\ r.pc = "insert" /\ source[r.at] # None /\ Rollback(p)
      /\ poll' = [poll EXCEPT ![p] = x]
      /\ UNCHANGED <<now, arrived, account, source, candidate, told, overlapped,
                     budget, skipped>>
    BY DEF InsertDuplicate
<1>3. /\ c \in Session /\ Emptied(c) /\ c.todo = r.todo /\ c.current = r.current
    BY <1>1, CleanFacts
<1>. HIDE DEF c, r
<1>4. g \in Session /\ Same(g, c) /\ g.pc = "next" /\ g.at = None /\ g.todo = c.todo
    BY <1>3, GoOnFacts
<1>. HIDE DEF g
<1>5. /\ x \in Session /\ x.pc = "next" /\ x.at = None /\ x.todo = r.todo
      /\ x.current = r.current /\ Emptied(x)
    BY <1>3, <1>4 DEF Session, Emptied, Same
<1>. HIDE DEF x
<1>6. Fits(x)
    BY <1>1, <1>2, <1>5, NothingWritten, ConstantTypes
    DEF Fits, AtHand, Fresh, Emptied, SourceStatus
<1>7. Stored(x, source')
    BY <1>5, NothingWritten DEF Stored, Emptied
<1>8. SessionMoves(p) /\ poll'[p] = x
    BY <1>1, <1>2, <1>5, <1>6, <1>7, Moves DEF Emptied
<1>9. RowsOK'
    BY <1>2, RollbackType DEF RowsOK, TypeInv, TypeOK
<1>. QED  BY <1>2, <1>5, <1>8, <1>9 DEF r

\* A mail is decided about, and the poll goes on to the next.
Decides(x, r, v) ==
    /\ x.pc = "next" /\ x.at = None /\ x.todo = r.todo /\ x.expired = r.expired
    /\ x.current = r.current /\ x.cand = r.cand /\ x.shown = r.shown
    /\ x.src = [r.src EXCEPT ![r.at] = v]

LEMMA DecideMoves ==
    ASSUME TypeInv, NEW p \in Poller, poll[p].pc \in {"decide", "reject"},
           ~ LockedByOther(p, poll[p].at),
           NEW v \in {"PROCESSED", "IGNORED", "FAILED", None},
           poll' = [poll EXCEPT ![p] = [GoOn(poll[p]) EXCEPT
                      !.locks = poll[p].locks \cup {poll[p].at},
                      !.src[poll[p].at] = v]],
           UNCHANGED <<now, arrived, account, source, candidate, told, lost,
                       overlapped, budget, skipped>>
    PROVE  /\ SessionMoves(p) /\ RowsOK' /\ Decides(poll'[p], poll[p], v)
           /\ poll[p].at \in Message
<1>. DEFINE r == poll[p]
            m == r.at
            g == GoOn(r)
            x == [g EXCEPT !.locks = r.locks \cup {m}, !.src[m] = v]
<1>1. /\ r \in Session /\ Fits(r) /\ Stored(r, source) /\ r.current <= now
      /\ \A k \in r.locks : ~ LockedByOther(p, k)
      /\ r.pc \in AtHand => r.at \in Message
    BY SessionFacts
<1>2. m \in Message /\ v \in SourceStatus \cup {None} /\ v # "NEW"
    BY <1>1, ConstantTypes DEF AtHand, SourceStatus
<1>3. poll' = [poll EXCEPT ![p] = x] /\ ~ LockedByOther(p, m)
    OBVIOUS
<1>4. /\ g \in Session /\ Same(g, r) /\ g.pc = "next" /\ g.at = None
      /\ g.todo = r.todo /\ g.expired = r.expired
    BY <1>1, GoOnFacts
<1>. HIDE DEF g, r, m
<1>5. g.src = r.src /\ r.src \in [Message -> SourceStatus \cup {None}]
    BY <1>1, <1>4 DEF Same, Session
<1>6. [r.src EXCEPT ![m] = v] \in [Message -> SourceStatus \cup {None}]
    BY <1>2, <1>5
<1>7. r.locks \cup {m} \in SUBSET Message
    BY <1>1, <1>2 DEF Session
<1>8. /\ x \in Session /\ x.src = [r.src EXCEPT ![m] = v] /\ x.locks = r.locks \cup {m}
    BY <1>4, <1>5, <1>6, <1>7 DEF Session
<1>9. /\ x.pc = "next" /\ x.at = None /\ x.todo = r.todo /\ x.expired = r.expired
      /\ x.current = r.current /\ x.cand = r.cand /\ x.shown = r.shown
    BY <1>4 DEF Session, Same
<1>. HIDE DEF x
<1>10. \A k \in Message : x.src[k] # "NEW" /\ (x.src[k] # None => k \in x.locks)
    BY <1>1, <1>2, <1>5, <1>8 DEF Fits
<1>11. Fits(x)
    BY <1>1, <1>8, <1>9, <1>10 DEF Fits, AtHand, Fresh
<1>12. Stored(x, source')
    BY <1>1, <1>9 DEF Stored
<1>13. \A k \in x.locks : ~ LockedByOther(p, k)
    BY <1>1, <1>3, <1>8
<1>14. SessionMoves(p) /\ poll'[p] = x
    BY <1>1, <1>3, <1>8, <1>9, <1>11, <1>12, <1>13, Moves
<1>15. RowsOK'
    BY SameRows
<1>. QED  BY <1>2, <1>8, <1>9, <1>14, <1>15 DEF Decides, r, m

LEMMA ClassifyMoves ==
    ASSUME TypeInv, NEW p \in Poller, Classify(p)
    PROVE  /\ SessionMoves(p) /\ RowsOK' /\ poll[p].at \in Message
           /\ \E status \in {"PROCESSED", "IGNORED", "FAILED"} :
                 Decides(poll'[p], poll[p], Written(poll[p], status))
<1>1. PICK status \in Outcomes(poll[p].at) :
          poll' = [poll EXCEPT ![p] = [GoOn(poll[p]) EXCEPT
                     !.locks = poll[p].locks \cup {poll[p].at},
                     !.src[poll[p].at] = Written(poll[p], status)]]
    BY DEF Classify
<1>2. status \in {"PROCESSED", "IGNORED", "FAILED"}
    BY <1>1 DEF Outcomes
<1>3. Written(poll[p], status) \in {"PROCESSED", "IGNORED", "FAILED", None}
    BY <1>2 DEF Written
<1>4. /\ poll[p].pc \in {"decide", "reject"} /\ ~ LockedByOther(p, poll[p].at)
      /\ UNCHANGED <<now, arrived, account, source, candidate, told, lost, overlapped,
                     budget, skipped>>
    BY DEF Classify
<1>5. /\ SessionMoves(p) /\ RowsOK' /\ poll[p].at \in Message
      /\ Decides(poll'[p], poll[p], Written(poll[p], status))
    BY <1>1, <1>3, <1>4, DecideMoves
<1>. QED  BY <1>2, <1>5

LEMMA RejectMoves ==
    ASSUME TypeInv, NEW p \in Poller, Reject(p)
    PROVE  /\ SessionMoves(p) /\ RowsOK' /\ poll[p].at \in Message
           /\ Decides(poll'[p], poll[p], "FAILED")
<1>1. /\ poll[p].pc \in {"decide", "reject"} /\ ~ LockedByOther(p, poll[p].at)
      /\ UNCHANGED <<now, arrived, account, source, candidate, told, lost, overlapped,
                     budget, skipped>>
      /\ poll' = [poll EXCEPT ![p] = [GoOn(poll[p]) EXCEPT
                     !.locks = poll[p].locks \cup {poll[p].at},
                     !.src[poll[p].at] = "FAILED"]]
    BY DEF Reject
<1>. QED  BY <1>1, DecideMoves

\* A candidate is written, and its message is the next step.
LEMMA ExtractMoves ==
    ASSUME TypeInv, NEW p \in Poller, Extract(p)
    PROVE  LET x == poll'[p]
               r == poll[p] IN
           /\ SessionMoves(p) /\ RowsOK' /\ r.at \in Message
           /\ x.pc = "notify" /\ x.at = r.at /\ x.todo = r.todo /\ x.expired = r.expired
           /\ x.current = r.current /\ x.shown = r.shown
           /\ x.src = [r.src EXCEPT ![r.at] = Written(r, "PROCESSED")]
           /\ \A m \in Message : m # r.at => x.cand[m] = r.cand[m]
<1>. DEFINE r == poll[p]
            m == r.at
            v == Written(r, "PROCESSED")
            c == IF candidate[m] # None THEN candidate[m]
                 ELSE [status |-> "PENDING", error |-> FALSE]
            x == [r EXCEPT !.pc = "notify", !.locks = r.locks \cup {m},
                           !.src[m] = v, !.cand[m] = c]
<1>1. /\ r \in Session /\ Fits(r) /\ Stored(r, source) /\ r.current <= now
      /\ \A k \in r.locks : ~ LockedByOther(p, k)
      /\ r.pc \in AtHand => r.at \in Message
    BY SessionFacts
<1>2. /\ r.pc = "decide" /\ ~ LockedByOther(p, m) /\ poll' = [poll EXCEPT ![p] = x]
      /\ UNCHANGED <<now, arrived, account, source, candidate, told, lost, overlapped,
                     budget, skipped>>
    BY DEF Extract
<1>3. m \in Message /\ v \in SourceStatus \cup {None} /\ v # "NEW" /\ m # None
    BY <1>1, <1>2, ConstantTypes DEF AtHand, SourceStatus, Written
<1>4. c \in Candidate
  <2>1. [status |-> "PENDING", error |-> FALSE] \in Candidate
      BY DEF Candidate
  <2>2. candidate[m] \in Candidate \cup {None}
      BY <1>3 DEF TypeInv, TypeOK
  <2>. QED  BY <2>1, <2>2
<1>5. c # None
    BY <1>4, ConstantTypes
<1>. HIDE DEF r, m, c, v
<1>6. /\ r.src \in [Message -> SourceStatus \cup {None}]
      /\ r.cand \in [Message -> Candidate \cup {None}] /\ r.locks \in SUBSET Message
    BY <1>1 DEF Session
<1>7. /\ [r.src EXCEPT ![m] = v] \in [Message -> SourceStatus \cup {None}]
      /\ [r.cand EXCEPT ![m] = c] \in [Message -> Candidate \cup {None}]
      /\ r.locks \cup {m} \in SUBSET Message
    BY <1>3, <1>4, <1>6
<1>8. /\ x \in Session /\ x.pc = "notify" /\ x.at = r.at /\ x.todo = r.todo
      /\ x.expired = r.expired /\ x.current = r.current /\ x.shown = r.shown
      /\ x.locks = r.locks \cup {m}
      /\ x.src = [r.src EXCEPT ![m] = v] /\ x.cand = [r.cand EXCEPT ![m] = c]
    BY <1>1, <1>7 DEF Session
<1>. HIDE DEF x
<1>9. \A k \in Message :
          /\ k = m => x.src[k] = v /\ x.cand[k] = c
          /\ k # m => x.src[k] = r.src[k] /\ x.cand[k] = r.cand[k]
    BY <1>6, <1>8
<1>10. \A k \in Message :
          /\ x.src[k] # "NEW"
          /\ x.src[k] # None \/ x.cand[k] # None => k \in x.locks
          /\ k \in x.shown => k \in x.locks /\ x.cand[k] # None
    BY <1>1, <1>3, <1>5, <1>8, <1>9 DEF Fits
<1>11. m = r.at
    BY DEF m
<1>12. Fits(x)
    BY <1>1, <1>2, <1>3, <1>5, <1>8, <1>9, <1>10, <1>11 DEF Fits, AtHand, Fresh
<1>13. Stored(x, source')
    BY <1>1, <1>2, <1>3, <1>8, <1>9, <1>11 DEF Stored
<1>14. \A k \in x.locks : ~ LockedByOther(p, k)
    BY <1>1, <1>2, <1>8
<1>15. SessionMoves(p) /\ poll'[p] = x
    BY <1>1, <1>2, <1>8, <1>12, <1>13, <1>14, Moves
<1>16. RowsOK'
    BY <1>2, SameRows
<1>. QED  BY <1>3, <1>8, <1>9, <1>11, <1>15, <1>16 DEF r, v

LEMMA NotifyMoves ==
    ASSUME TypeInv, NEW p \in Poller, Notify(p)
    PROVE  LET x == poll'[p]
               r == poll[p] IN
           /\ SessionMoves(p) /\ RowsOK' /\ r.at \in Message /\ r.at \notin r.shown
           /\ x.pc = "next" /\ x.at = None /\ x.todo = r.todo /\ x.expired = r.expired
           /\ x.current = r.current /\ x.src = r.src /\ x.shown = r.shown \cup {r.at}
           /\ \A m \in Message : x.cand[m] # None => r.cand[m] # None
           /\ \A m \in Message : m # r.at => x.cand[m] = r.cand[m]
           /\ told' = [told EXCEPT ![r.at] = @ + 1]
<1>. DEFINE r == poll[p]
            m == r.at
            g == GoOn(r)
            c == [status |-> "NOTIFIED", error |-> FALSE]
            x == [g EXCEPT !.shown = r.shown \cup {m}, !.cand[m] = c]
<1>1. /\ r \in Session /\ Fits(r) /\ Stored(r, source) /\ r.current <= now
      /\ \A k \in r.locks : ~ LockedByOther(p, k)
      /\ r.pc \in AtHand => r.at \in Message
    BY SessionFacts
<1>2. /\ r.pc = "notify" /\ poll' = [poll EXCEPT ![p] = x]
      /\ told' = [told EXCEPT ![m] = @ + 1]
      /\ UNCHANGED <<now, arrived, account, source, candidate, lost, overlapped,
                     budget, skipped>>
    BY DEF Notify
<1>3. m \in Message /\ m # None
    BY <1>1, <1>2, ConstantTypes DEF AtHand
<1>4. /\ m \notin ToSet(r.todo) /\ m \notin r.shown /\ r.cand[m] # None
      /\ m \in r.locks
    BY <1>1, <1>2, <1>3 DEF Fits
<1>5. c \in Candidate /\ c # None
  <2>1. c \in Candidate
      BY DEF Candidate
  <2>. QED  BY <2>1, ConstantTypes
<1>6. /\ g \in Session /\ Same(g, r) /\ g.pc = "next" /\ g.at = None
      /\ g.todo = r.todo /\ g.expired = r.expired
    BY <1>1, GoOnFacts
<1>. HIDE DEF g, r, c
<1>7. /\ g.cand = r.cand /\ r.cand \in [Message -> Candidate \cup {None}]
      /\ r.shown \in SUBSET Message
    BY <1>1, <1>6 DEF Same, Session
<1>. HIDE DEF m
<1>8. /\ [r.cand EXCEPT ![m] = c] \in [Message -> Candidate \cup {None}]
      /\ r.shown \cup {m} \in SUBSET Message
    BY <1>3, <1>5, <1>7
<1>9. /\ x \in Session /\ x.shown = r.shown \cup {m} /\ x.cand = [r.cand EXCEPT ![m] = c]
    BY <1>6, <1>7, <1>8 DEF Session
<1>10. /\ x.pc = "next" /\ x.at = None /\ x.todo = r.todo /\ x.expired = r.expired
       /\ x.current = r.current /\ x.src = r.src /\ x.locks = r.locks
    BY <1>6 DEF Session, Same
<1>. HIDE DEF x
<1>11. \A k \in Message :
          /\ k = m => x.cand[k] = c
          /\ k # m => x.cand[k] = r.cand[k]
    BY <1>7, <1>9
<1>12. Fits(x)
  <2>1. \A k \in Message :
            /\ x.src[k] # "NEW"
            /\ x.src[k] # None \/ x.cand[k] # None => k \in x.locks
            /\ k \in x.shown => k \in x.locks /\ x.cand[k] # None
      BY <1>1, <1>4, <1>5, <1>9, <1>10, <1>11 DEF Fits
  <2>2. x.shown \cap ToSet(x.todo) = {}
      BY <1>1, <1>4, <1>9, <1>10 DEF Fits
  <2>. QED  BY <1>1, <1>10, <2>1, <2>2 DEF Fits, AtHand, Fresh
<1>13. Stored(x, source')
    BY <1>1, <1>2, <1>4, <1>10, <1>11 DEF Stored
<1>14. SessionMoves(p) /\ poll'[p] = x
    BY <1>1, <1>2, <1>9, <1>10, <1>12, <1>13, Moves
<1>15. RowsOK'
    BY <1>2, <1>3 DEF RowsOK, TypeInv, TypeOK
<1>. QED  BY <1>2, <1>3, <1>4, <1>9, <1>10, <1>11, <1>14, <1>15 DEF r, m

\* A failed notification is committed with all that was open, and its error.
LEMMA FailureFacts ==
    ASSUME TypeInv, NEW p \in Poller, RecordFailure(p)
    PROVE  LET r == poll[p] IN
           /\ r.pc = "notify" /\ r.at \in Message /\ budget' \in [Events -> Nat]
           /\ source' \in [Message -> SourceStatus \cup {None}]
           /\ candidate' \in [Message -> Candidate \cup {None}]
           /\ candidate'[r.at] # None /\ candidate'[r.at].error
           /\ source'[r.at] # None
           /\ \A m \in Message :
                 /\ source[m] # None => source'[m] # None
                 /\ candidate'[m] # None => source'[m] # None
                 /\ source'[m] = IF r.src[m] # None THEN r.src[m] ELSE source[m]
                 /\ m # r.at => candidate'[m] = IF r.cand[m] # None THEN r.cand[m]
                                                ELSE candidate[m]
<1>. DEFINE r == poll[p]
            m == r.at
            rows == Over(r.cand, candidate)
            flag == Flagged(r, m)
<1>1. /\ r \in Session /\ Fits(r) /\ Stored(r, source)
      /\ r.pc \in AtHand => r.at \in Message
    BY SessionFacts
<1>2. /\ r.pc = "notify" /\ Spend("fault") /\ source' = Over(r.src, source)
      /\ candidate' = [rows EXCEPT ![m] = flag]
    BY DEF RecordFailure
<1>3. budget' \in [Events -> Nat]
    BY <1>2, SpendType DEF Events
<1>4. m \in Message /\ r.cand[m] # None /\ source[m] # None
    BY <1>1, <1>2 DEF AtHand, Fits, Stored
<1>5. /\ r.src \in [Message -> SourceStatus \cup {None}]
      /\ r.cand \in [Message -> Candidate \cup {None}]
      /\ \A k \in Message : r.cand[k] # None => source[k] # None
    BY <1>1 DEF Session, Stored
<1>6. /\ source \in [Message -> SourceStatus \cup {None}]
      /\ candidate \in [Message -> Candidate \cup {None}]
      /\ \A k \in Message : candidate[k] # None => source[k] # None
    BY DEF TypeInv, TypeOK
<1>7. r.cand[m] \in Candidate
    BY <1>4, <1>5
<1>8. flag \in Candidate /\ flag.error
    BY <1>7 DEF Flagged, Candidate
<1>9. flag # None
    BY <1>8, ConstantTypes
<1>. HIDE DEF r, flag, m
<1>10. /\ rows \in [Message -> Candidate \cup {None}]
       /\ \A k \in Message : rows[k] = IF r.cand[k] # None THEN r.cand[k] ELSE candidate[k]
    BY <1>5, <1>6 DEF Over
<1>. HIDE DEF rows
<1>11. /\ candidate' \in [Message -> Candidate \cup {None}]
       /\ candidate'[m] = flag
       /\ \A k \in Message : k # m => candidate'[k] = rows[k]
    BY <1>2, <1>4, <1>8, <1>10
<1>12. /\ source' \in [Message -> SourceStatus \cup {None}]
       /\ \A k \in Message : source'[k] = IF r.src[k] # None THEN r.src[k] ELSE source[k]
    BY <1>2, <1>5, <1>6 DEF Over
<1>13. \A k \in Message : source[k] # None => source'[k] # None
    BY <1>12
<1>14. \A k \in Message : candidate'[k] # None => source'[k] # None
    BY <1>4, <1>5, <1>6, <1>10, <1>11, <1>13
<1>15. \A k \in Message : k # m => candidate'[k] = IF r.cand[k] # None THEN r.cand[k]
                                                   ELSE candidate[k]
    BY <1>10, <1>11
<1>. QED
    BY <1>2, <1>3, <1>4, <1>8, <1>9, <1>11, <1>12, <1>13, <1>14, <1>15 DEF r, m

\* A message that may have come is counted.
LEMMA Counted ==
    ASSUME NEW f \in [Message -> Nat], NEW m \in Message, NEW came \in {0, 1},
           NEW g, g = [f EXCEPT ![m] = @ + came]
    PROVE  /\ g \in [Message -> Nat] /\ g[m] = f[m] + came
           /\ \A k \in Message : g[k] >= f[k] /\ (k # m => g[k] = f[k])
    OBVIOUS

LEMMA NotifyFailsMoves ==
    ASSUME TypeInv, NEW p \in Poller, NotifyFails(p)
    PROVE  SessionMoves(p) /\ RowsOK' /\ Ended(poll'[p])
<1>1. PICK came \in {0, 1} : told' = [told EXCEPT ![poll[p].at] = @ + came]
    BY DEF NotifyFails
<1>2. /\ RecordFailure(p)
      /\ poll' = [poll EXCEPT ![p] = [NoPoll EXCEPT !.pc = "failing"]]
      /\ UNCHANGED <<now, arrived, account, lost, overlapped, skipped>>
    BY DEF NotifyFails
<1>3. /\ poll[p].at \in Message /\ budget' \in [Events -> Nat]
      /\ source' \in [Message -> SourceStatus \cup {None}]
      /\ candidate' \in [Message -> Candidate \cup {None}]
      /\ \A m \in Message :
            /\ source[m] # None => source'[m] # None
            /\ candidate'[m] # None => source'[m] # None
    BY <1>2, FailureFacts
<1>4. SessionMoves(p) /\ Ended(poll'[p])
    BY <1>2, <1>3, EndMoves
<1>5. told' \in [Message -> Nat]
    BY <1>1, <1>3, Counted DEF TypeInv, TypeOK
<1>6. RowsOK'
    BY <1>2, <1>3, <1>5 DEF RowsOK, TypeInv, TypeOK
<1>. QED  BY <1>4, <1>6

LEMMA NotifyGarbledMoves ==
    ASSUME TypeInv, NEW p \in Poller, NotifyGarbled(p)
    PROVE  LET x == poll'[p]
               r == poll[p] IN
           /\ SessionMoves(p) /\ RowsOK' /\ Emptied(x)
           /\ x.pc = "reject" /\ x.at = r.at /\ x.todo = r.todo
           /\ x.current = r.current /\ x.expired = r.expired
<1>. DEFINE r == poll[p]
            c == Clean(r)
            x == [c EXCEPT !.pc = "reject"]
<1>1. /\ r \in Session /\ Fits(r) /\ Stored(r, source) /\ r.current <= now
      /\ r.pc \in AtHand => r.at \in Message
    BY SessionFacts
<1>2. /\ RecordFailure(p) /\ poll' = [poll EXCEPT ![p] = x]
      /\ UNCHANGED <<now, arrived, account, overlapped, skipped>>
    BY DEF NotifyGarbled
<1>3. /\ r.pc = "notify" /\ r.at \in Message /\ budget' \in [Events -> Nat]
      /\ source' \in [Message -> SourceStatus \cup {None}]
      /\ candidate' \in [Message -> Candidate \cup {None}]
      /\ source'[r.at] # None
      /\ \A m \in Message :
            /\ source[m] # None => source'[m] # None
            /\ candidate'[m] # None => source'[m] # None
    BY <1>2, FailureFacts
<1>4. PICK came \in {0, 1} :
          /\ told' = [told EXCEPT ![r.at] = @ + came]
          /\ lost' = [lost EXCEPT ![r.at] = @ + came]
    BY DEF NotifyGarbled
<1>5. told' \in [Message -> Nat] /\ lost' \in [Message -> Nat]
  <2>1. told \in [Message -> Nat] /\ lost \in [Message -> Nat]
      BY DEF TypeInv, TypeOK
  <2>. QED  BY <1>3, <1>4, <2>1, Counted
<1>6. /\ c \in Session /\ Emptied(c) /\ c.at = r.at /\ c.todo = r.todo
      /\ c.current = r.current /\ c.expired = r.expired
    BY <1>1, CleanFacts
<1>. HIDE DEF c, r
<1>7. /\ x \in Session /\ x.pc = "reject" /\ x.at = r.at /\ x.todo = r.todo
      /\ x.current = r.current /\ x.expired = r.expired /\ Emptied(x)
    BY <1>6 DEF Session, Emptied
<1>. HIDE DEF x
<1>8. Fits(x)
    BY <1>1, <1>3, <1>7, NothingWritten, ConstantTypes
    DEF Fits, AtHand, Fresh, Emptied, SourceStatus
<1>9. Stored(x, source')
    BY <1>3, <1>7, NothingWritten DEF Stored, Emptied
<1>10. SessionMoves(p) /\ poll'[p] = x
    BY <1>1, <1>2, <1>3, <1>7, <1>8, <1>9, Moves DEF Emptied
<1>11. RowsOK'
    BY <1>2, <1>3, <1>5 DEF RowsOK, TypeInv, TypeOK
<1>. QED  BY <1>7, <1>10, <1>11 DEF r

LEMMA EndSyncMoves ==
    ASSUME TypeInv, NEW p \in Poller, EndSync(p)
    PROVE  /\ SessionMoves(p) /\ RowsOK' /\ Ended(poll'[p])
           /\ account'.polledAt = poll[p].current
           /\ \A m \in Message :
                 /\ source'[m] = IF poll[p].src[m] # None THEN poll[p].src[m]
                                 ELSE source[m]
                 /\ candidate'[m] = IF poll[p].cand[m] # None THEN poll[p].cand[m]
                                    ELSE candidate[m]
<1>1. /\ CommitSession(p, NoPoll.src) /\ poll' = [poll EXCEPT ![p] = NoPoll]
      /\ account' = [account EXCEPT !.polledAt = poll[p].current]
      /\ UNCHANGED <<now, arrived, told, lost, overlapped, budget, skipped>>
    BY DEF EndSync, PolledUntil
<1>2. poll[p].current \in Time
    BY SessionFacts DEF Session
<1>3. /\ source' \in [Message -> SourceStatus \cup {None}]
      /\ candidate' \in [Message -> Candidate \cup {None}]
      /\ \A m \in Message :
            /\ source[m] # None => source'[m] # None
            /\ candidate'[m] # None => source'[m] # None
            /\ source'[m] = IF NoPoll.src[m] # None THEN NoPoll.src[m]
                            ELSE IF poll[p].src[m] # None THEN poll[p].src[m]
                            ELSE source[m]
            /\ candidate'[m] = IF poll[p].cand[m] # None THEN poll[p].cand[m]
                               ELSE candidate[m]
    BY <1>1, NothingWritten, CommitFacts
<1>4. SessionMoves(p) /\ Ended(poll'[p])
    BY <1>1, <1>3, EndMoves
<1>5. account \in [status : {"CONNECTED", "ERROR"}, polledAt : Time \cup {None}]
    BY DEF TypeInv, TypeOK
<1>6. /\ account' \in [status : {"CONNECTED", "ERROR"}, polledAt : Time \cup {None}]
      /\ account'.polledAt = poll[p].current
    BY <1>1, <1>2, <1>5
<1>7. RowsOK'
    BY <1>1, <1>3, <1>6 DEF RowsOK, TypeInv, TypeOK
<1>. QED  BY <1>3, <1>4, <1>6, <1>7, NothingWritten

\* A poll that ends without a commit.
Aborts(p) ==
    /\ Rollback(p)
    /\ \/ poll' = [poll EXCEPT ![p] = NoPoll]
       \/ poll' = [poll EXCEPT ![p] = [NoPoll EXCEPT !.pc = "failing"]]
    /\ budget' \in [Events -> Nat]
    /\ UNCHANGED <<now, arrived, account, source, candidate, told, overlapped, skipped>>

LEMMA AbortsMoves ==
    ASSUME TypeInv, NEW p \in Poller, Aborts(p)
    PROVE  SessionMoves(p) /\ RowsOK' /\ Ended(poll'[p])
<1>1. SessionMoves(p) /\ Ended(poll'[p])
    BY EndMoves DEF Aborts
<1>2. RowsOK'
    BY RollbackType, RowsStay DEF Aborts
<1>. QED  BY <1>1, <1>2

LEMMA WhatAborts ==
    ASSUME TypeInv, NEW p \in Poller, CallFails(p) \/ ExpiredFails(p) \/ Crash(p)
    PROVE  Aborts(p) /\ poll[p].pc # "idle"
<1>1. CASE CallFails(p)
    BY <1>1, SpendType DEF CallFails, Raise, Aborts, Events
<1>2. CASE ExpiredFails(p)
    BY <1>2 DEF ExpiredFails, Raise, Aborts, TypeInv, TypeOK
<1>3. CASE Crash(p)
    BY <1>3, SpendType DEF Crash, Aborts, Events
<1>. QED  BY <1>1, <1>2, <1>3

LEMMA MarkAccountErrorMoves ==
    ASSUME TypeInv, NEW p \in Poller, MarkAccountError(p)
    PROVE  SessionMoves(p) /\ RowsOK' /\ Ended(poll'[p])
<1>1. SessionMoves(p) /\ Ended(poll'[p])
    BY EndMoves DEF MarkAccountError
<1>2. RowsOK'
    BY DEF MarkAccountError, RowsOK, TypeInv, TypeOK
<1>. QED  BY <1>1, <1>2

LEMMA OutsideType ==
    ASSUME TypeInv, Tick \/ Reconnect \/ \E m \in Message : Arrive(m)
    PROVE  TypeInv'
<1>1. CASE Tick
  <2>1. now' \in Time /\ now <= now' /\ now \in Nat /\ now' \in Nat
      BY <1>1, NowType, ConstantTypes DEF Tick, Time
  <2>2. TypeOK'
      BY <1>1, <2>1 DEF Tick, TypeInv, TypeOK, LockedByOther
  <2>3. ASSUME NEW p \in Poller
        PROVE  poll'[p].current <= now'
    <3>1. poll[p].current \in Nat /\ poll[p].current <= now /\ poll' = poll
        BY <1>1, SessionFacts, ConstantTypes DEF Session, Tick
    <3>. QED  BY <2>1, <3>1
  <2>. QED  BY <1>1, <2>2, <2>3 DEF Tick, TypeInv
<1>2. CASE Reconnect
  <2>1. budget' \in [Events -> Nat]
      BY <1>2, SpendType DEF Reconnect, Events
  <2>. QED  BY <1>2, <2>1 DEF Reconnect, TypeInv, TypeOK, LockedByOther
<1>3. CASE \E m \in Message : Arrive(m)
    BY <1>3, NowType DEF Arrive, TypeInv, TypeOK, LockedByOther
<1>. QED  BY <1>1, <1>2, <1>3

LEMMA TypeNext ==
    ASSUME TypeInv, [Next]_vars
    PROVE  TypeInv'
<1>1. CASE UNCHANGED vars
    BY <1>1 DEF vars, TypeInv, TypeOK, LockedByOther
<1>2. CASE Tick \/ Reconnect \/ \E m \in Message : Arrive(m)
    BY <1>2, OutsideType
<1>3. ASSUME NEW p \in Poller,
             StartPoll(p) \/ Continue(p) \/ SkipGarbled(p) \/ NotifyFails(p)
             \/ NotifyGarbled(p) \/ CallFails(p) \/ Crash(p)
      PROVE  SessionMoves(p) /\ RowsOK'
  <2>1. CASE StartPoll(p)
      BY <2>1, StartPollMoves
  <2>2. CASE GetToken(p)
      BY <2>2, GetTokenMoves
  <2>3. CASE ListMessages(p)
      BY <2>3, ListMessagesMoves
  <2>4. CASE NextMessage(p)
      BY <2>4, NextMessageMoves
  <2>5. CASE CreateSource(p)
      BY <2>5, CreateSourceMoves
  <2>6. CASE InsertSource(p)
      BY <2>6, InsertSourceMoves
  <2>7. CASE InsertDuplicate(p)
      BY <2>7, InsertDuplicateMoves
  <2>8. CASE Classify(p)
      BY <2>8, ClassifyMoves
  <2>9. CASE Extract(p)
      BY <2>9, ExtractMoves
  <2>10. CASE Notify(p)
      BY <2>10, NotifyMoves
  <2>11. CASE Reject(p)
      BY <2>11, RejectMoves
  <2>12. CASE EndSync(p)
      BY <2>12, EndSyncMoves
  <2>13. CASE CallFails(p) \/ ExpiredFails(p) \/ Crash(p)
      BY <2>13, WhatAborts, AbortsMoves
  <2>14. CASE MarkAccountError(p)
      BY <2>14, MarkAccountErrorMoves
  <2>15. CASE SkipGarbled(p)
      BY <2>15, SkipGarbledMoves
  <2>16. CASE NotifyFails(p)
      BY <2>16, NotifyFailsMoves
  <2>17. CASE NotifyGarbled(p)
      BY <2>17, NotifyGarbledMoves
  <2>. QED  BY <1>3, <2>1, <2>2, <2>3, <2>4, <2>5, <2>6, <2>7, <2>8, <2>9, <2>10,
               <2>11, <2>12, <2>13, <2>14, <2>15, <2>16, <2>17 DEF Continue
<1>. QED  BY <1>1, <1>2, <1>3, SessionMovesType DEF Next

LEMMA TypeInit ==
    ASSUME Init
    PROVE  TypeInv
<1>1. 0 \in Time /\ 0 <= 0
    BY ConstantTypes DEF Time
<1>2. Blank(NoPoll) /\ Fits(NoPoll) /\ Stored(NoPoll, source)
    BY NoPollIsBlank, BlankFits
<1>3. NoPoll \in Session /\ NoPoll.locks = {} /\ NoPoll.shown = {} /\ NoPoll.current = 0
    BY <1>2 DEF Blank, NoPoll
<1>4. Budget \in [Events -> Nat]
    BY ConstantsAssumption
<1>. HIDE DEF NoPoll
<1>5. TypeOK
    BY <1>1, <1>3, <1>4, NothingWritten DEF Init, TypeOK, LockedByOther
<1>. QED  BY <1>1, <1>2, <1>3, <1>5 DEF Init, TypeInv

\* Every variable keeps its type, what a session has not committed is locked,
\* and no row is locked by two of them.
THEOREM TypeCorrect == Spec => []TypeOK
<1>1. TypeInv => TypeOK
    BY DEF TypeInv
<1>. QED  BY <1>1, TypeInit, TypeNext, PTL DEF Spec

-----------------------------------------------------------------------------
\* No candidate waits unseen and unexplained.

SeenAll == SeenInv /\ CandidateShownOrFlagged

LEMMA SeenStep ==
    ASSUME TypeInv, SeenAll, NEW p \in Poller, SessionMoves(p),
           \A m \in Message : told'[m] \in Nat /\ told'[m] >= told[m],
           NEW x, poll'[p] = x,
           \A m \in Message : x.cand[m] # None =>
               told'[m] > 0 \/ x.cand[m].error \/ (x.pc = "notify" /\ x.at = m),
           \A m \in Message : candidate'[m] # None =>
               told'[m] > 0 \/ candidate'[m].error
    PROVE  SeenAll'
<1>1. \A m \in Message : told[m] \in Nat
    BY DEF TypeInv, TypeOK
<1>2. \A m \in Message : told[m] > 0 => told'[m] > 0
    BY <1>1
<1>3. poll \in [Poller -> Session] /\ poll' = [poll EXCEPT ![p] = x]
    BY DEF SessionMoves, TypeInv, TypeOK
<1>4. \A q \in Poller : q # p => poll'[q] = poll[q]
    BY <1>3
<1>5. SeenInv'
    BY <1>2, <1>4 DEF SeenInv, SeenAll
<1>. QED  BY <1>5 DEF SeenAll, CandidateShownOrFlagged

\* A session that is not about to notify has shown its candidates.
LEMMA SeenBefore ==
    ASSUME SeenAll, NEW p \in Poller, NEW m \in Message, poll[p].pc # "notify",
           poll[p].cand[m] # None
    PROVE  told[m] > 0 \/ poll[p].cand[m].error
    BY DEF SeenAll, SeenInv

\* A step that neither writes a candidate nor shows one.
LEMMA SeenQuietly ==
    ASSUME TypeInv, SeenAll, NEW p \in Poller, SessionMoves(p),
           UNCHANGED <<candidate, told>>,
           \A m \in Message : poll'[p].cand[m] # None =>
               poll[p].pc # "notify" /\ poll'[p].cand[m] = poll[p].cand[m]
    PROVE  SeenAll'
<1>1. \A m \in Message : told'[m] \in Nat /\ told'[m] >= told[m]
    BY DEF TypeInv, TypeOK
<1>2. \A m \in Message : poll'[p].cand[m] # None =>
          told'[m] > 0 \/ poll'[p].cand[m].error
    BY SeenBefore
<1>3. \A m \in Message : candidate'[m] # None =>
          told'[m] > 0 \/ candidate'[m].error
    BY DEF SeenAll, CandidateShownOrFlagged
<1>. DEFINE x == poll'[p]
<1>4. poll'[p] = x /\ \A m \in Message : x.cand[m] # None => told'[m] > 0 \/ x.cand[m].error
    BY <1>2
<1>. HIDE DEF x
<1>. QED  BY <1>1, <1>3, <1>4, SeenStep

LEMMA SeenCommit ==
    ASSUME TypeInv, SeenAll, NEW p \in Poller, SessionMoves(p), told' = told,
           poll[p].pc # "notify", \A m \in Message : poll'[p].cand[m] = None,
           \A m \in Message : candidate'[m] = IF poll[p].cand[m] # None
                                              THEN poll[p].cand[m] ELSE candidate[m]
    PROVE  SeenAll'
<1>1. \A m \in Message : told'[m] \in Nat /\ told'[m] >= told[m]
    BY DEF TypeInv, TypeOK
<1>2. \A m \in Message : candidate'[m] # None =>
          told'[m] > 0 \/ candidate'[m].error
    BY SeenBefore DEF SeenAll, CandidateShownOrFlagged
<1>. QED  BY <1>1, <1>2, SeenStep

LEMMA BlankHasNothing ==
    ASSUME NEW x, Blank(x) \/ Ended(x) \/ Emptied(x)
    PROVE  /\ x.locks = {} /\ x.shown = {}
           /\ \A m \in Message : x.cand[m] = None /\ x.src[m] = None
    BY NothingWritten DEF Blank, Ended, Emptied

LEMMA SeenFailure ==
    ASSUME TypeInv, SeenAll, NEW p \in Poller, SessionMoves(p), RecordFailure(p),
           NEW came \in {0, 1}, told' = [told EXCEPT ![poll[p].at] = @ + came],
           \A m \in Message : poll'[p].cand[m] = None
    PROVE  SeenAll'
<1>1. told \in [Message -> Nat]
    BY DEF TypeInv, TypeOK
<1>2. /\ poll[p].pc = "notify" /\ poll[p].at \in Message
      /\ candidate'[poll[p].at].error
      /\ \A m \in Message \ {poll[p].at} :
            candidate'[m] = IF poll[p].cand[m] # None THEN poll[p].cand[m]
                            ELSE candidate[m]
    BY FailureFacts
<1>3. \A m \in Message : told'[m] \in Nat /\ told'[m] >= told[m]
    BY <1>1, <1>2
<1>4. \A m \in Message : told[m] > 0 => told'[m] > 0
    BY <1>1, <1>3
<1>5. ASSUME NEW m \in Message, m # poll[p].at, candidate'[m] # None
      PROVE  told'[m] > 0 \/ candidate'[m].error
  <2>1. CASE poll[p].cand[m] # None
    <3>1. candidate'[m] = poll[p].cand[m]
        BY <1>2, <1>5, <2>1
    <3>2. told[m] > 0 \/ poll[p].cand[m].error
        BY <1>5, <2>1 DEF SeenAll, SeenInv
    <3>. QED  BY <1>4, <3>1, <3>2
  <2>2. CASE poll[p].cand[m] = None
      BY <1>2, <1>4, <1>5, <2>2 DEF SeenAll, CandidateShownOrFlagged
  <2>. QED  BY <2>1, <2>2
<1>6. \A m \in Message : candidate'[m] # None => told'[m] > 0 \/ candidate'[m].error
    BY <1>2, <1>5
<1>. QED  BY <1>3, <1>6, SeenStep

LEMMA SeenNext ==
    ASSUME TypeInv, SeenAll, [Next]_vars
    PROVE  SeenAll'
<1>1. CASE UNCHANGED vars \/ Tick \/ Reconnect \/ \E m \in Message : Arrive(m)
    BY <1>1 DEF vars, Tick, Reconnect, Arrive, SeenAll, SeenInv, CandidateShownOrFlagged
<1>2. ASSUME NEW p \in Poller, StartPoll(p)
      PROVE  SeenAll'
    BY <1>2, StartPollMoves, BlankHasNothing, SeenQuietly DEF StartPoll
<1>3. ASSUME NEW p \in Poller, GetToken(p)
      PROVE  SeenAll'
  <2>1. poll[p] \in Session
      BY SessionFacts
  <2>2. poll'[p].cand = poll[p].cand
      BY <1>3, <2>1, GetTokenMoves DEF Session
  <2>. QED  BY <1>3, <2>2, GetTokenMoves, SeenQuietly DEF GetToken
<1>4. ASSUME NEW p \in Poller, ListMessages(p)
      PROVE  SeenAll'
  <2>1. poll[p] \in Session
      BY SessionFacts
  <2>2. poll'[p].cand = poll[p].cand
      BY <1>4, <2>1, ListMessagesMoves DEF Session
  <2>. QED  BY <1>4, <2>2, ListMessagesMoves, SeenQuietly DEF ListMessages
<1>5. ASSUME NEW p \in Poller, NextMessage(p)
      PROVE  SeenAll'
    BY <1>5, NextMessageMoves, SeenQuietly DEF NextMessage, Same
<1>6. ASSUME NEW p \in Poller, CreateSource(p)
      PROVE  SeenAll'
    BY <1>6, CreateSourceMoves, SeenQuietly DEF CreateSource, Same
<1>7. ASSUME NEW p \in Poller, InsertSource(p)
      PROVE  SeenAll'
  <2>1. poll[p].pc # "notify" /\ told' = told
      BY <1>7 DEF InsertSource
  <2>. QED  BY <1>7, <2>1, InsertSourceMoves, BlankHasNothing, SeenCommit
<1>8. ASSUME NEW p \in Poller, InsertDuplicate(p)
      PROVE  SeenAll'
    BY <1>8, InsertDuplicateMoves, BlankHasNothing, SeenQuietly DEF InsertDuplicate
<1>9. ASSUME NEW p \in Poller, Classify(p)
      PROVE  SeenAll'
    BY <1>9, ClassifyMoves, SeenQuietly DEF Classify, Decides
<1>10. ASSUME NEW p \in Poller, Extract(p)
       PROVE  SeenAll'
  <2>1. /\ poll[p].pc # "notify" /\ UNCHANGED <<candidate, told>>
      BY <1>10 DEF Extract
  <2>2. /\ SessionMoves(p) /\ poll'[p].pc = "notify" /\ poll'[p].at = poll[p].at
        /\ \A m \in Message \ {poll[p].at} : poll'[p].cand[m] = poll[p].cand[m]
      BY <1>10, ExtractMoves
  <2>3. \A m \in Message : told'[m] \in Nat /\ told'[m] >= told[m]
      BY <2>1 DEF TypeInv, TypeOK
  <2>4. \A m \in Message : poll'[p].cand[m] # None =>
            \/ told'[m] > 0
            \/ poll'[p].cand[m].error
            \/ poll'[p].pc = "notify" /\ poll'[p].at = m
      BY <2>1, <2>2, SeenBefore
  <2>5. \A m \in Message : candidate'[m] # None =>
            told'[m] > 0 \/ candidate'[m].error
      BY <2>1 DEF SeenAll, CandidateShownOrFlagged
  <2>. QED  BY <2>2, <2>3, <2>4, <2>5, SeenStep
<1>11. ASSUME NEW p \in Poller, Notify(p)
       PROVE  SeenAll'
  <2>1. candidate' = candidate
      BY <1>11 DEF Notify
  <2>2. /\ SessionMoves(p) /\ told' = [told EXCEPT ![poll[p].at] = @ + 1]
        /\ poll[p].at \in Message
        /\ \A m \in Message \ {poll[p].at} : poll'[p].cand[m] = poll[p].cand[m]
      BY <1>11, NotifyMoves
  <2>3. told \in [Message -> Nat]
      BY DEF TypeInv, TypeOK
  <2>4. /\ \A m \in Message : told'[m] \in Nat /\ told'[m] >= told[m]
        /\ told'[poll[p].at] > 0
      BY <2>2, <2>3
  <2>5. \A m \in Message : told[m] > 0 => told'[m] > 0
      BY <2>3, <2>4
  <2>6. \A m \in Message : poll'[p].cand[m] # None =>
            told'[m] > 0 \/ poll'[p].cand[m].error
      BY <2>2, <2>4, <2>5 DEF SeenAll, SeenInv
  <2>7. \A m \in Message : candidate'[m] # None =>
            told'[m] > 0 \/ candidate'[m].error
      BY <2>1, <2>5 DEF SeenAll, CandidateShownOrFlagged
  <2>. QED  BY <2>2, <2>4, <2>6, <2>7, SeenStep
<1>12. ASSUME NEW p \in Poller, Reject(p)
       PROVE  SeenAll'
    BY <1>12, RejectMoves, SeenQuietly DEF Reject, Decides
<1>13. ASSUME NEW p \in Poller, EndSync(p)
       PROVE  SeenAll'
  <2>1. poll[p].pc # "notify" /\ told' = told
      BY <1>13 DEF EndSync
  <2>. QED  BY <1>13, <2>1, EndSyncMoves, BlankHasNothing, SeenCommit
<1>14. ASSUME NEW p \in Poller, CallFails(p) \/ ExpiredFails(p) \/ Crash(p)
       PROVE  SeenAll'
  <2>1. Aborts(p)
      BY <1>14, WhatAborts
  <2>. QED  BY <2>1, AbortsMoves, BlankHasNothing, SeenQuietly DEF Aborts
<1>15. ASSUME NEW p \in Poller, MarkAccountError(p)
       PROVE  SeenAll'
    BY <1>15, MarkAccountErrorMoves, BlankHasNothing, SeenQuietly DEF MarkAccountError
<1>16. ASSUME NEW p \in Poller, SkipGarbled(p)
       PROVE  SeenAll'
    BY <1>16, SkipGarbledMoves, SeenQuietly DEF SkipGarbled
<1>17. ASSUME NEW p \in Poller, NotifyFails(p)
       PROVE  SeenAll'
  <2>1. RecordFailure(p)
      BY <1>17 DEF NotifyFails
  <2>3. PICK came \in {0, 1} : told' = [told EXCEPT ![poll[p].at] = @ + came]
      BY <1>17 DEF NotifyFails
  <2>2. SessionMoves(p) /\ \A m \in Message : poll'[p].cand[m] = None
      BY <1>17, NotifyFailsMoves, BlankHasNothing
  <2>. QED  BY <2>1, <2>2, <2>3, SeenFailure
<1>18. ASSUME NEW p \in Poller, NotifyGarbled(p)
       PROVE  SeenAll'
  <2>1. RecordFailure(p)
      BY <1>18 DEF NotifyGarbled
  <2>3. PICK came \in {0, 1} : told' = [told EXCEPT ![poll[p].at] = @ + came]
      BY <1>18 DEF NotifyGarbled
  <2>2. SessionMoves(p) /\ \A m \in Message : poll'[p].cand[m] = None
      BY <1>18, NotifyGarbledMoves, BlankHasNothing
  <2>. QED  BY <2>1, <2>2, <2>3, SeenFailure
<1>. QED  BY <1>1, <1>2, <1>3, <1>4, <1>5, <1>6, <1>7, <1>8, <1>9, <1>10, <1>11, <1>12,
             <1>13, <1>14, <1>15, <1>16, <1>17, <1>18 DEF Next, Continue

\* A candidate on record was shown to the owner, or its error is with it.
THEOREM CandidatesShownOrFlagged == Spec => []CandidateShownOrFlagged
<1>1. Init => SeenAll
    BY NothingWritten DEF Init, SeenAll, SeenInv, CandidateShownOrFlagged
<1>2. TypeInv /\ SeenAll /\ [Next]_vars => (TypeInv /\ SeenAll)'
    BY TypeNext, SeenNext
<1>3. SeenAll => CandidateShownOrFlagged
    BY DEF SeenAll
<1>. QED  BY <1>1, <1>2, <1>3, TypeInit, PTL DEF Spec

-----------------------------------------------------------------------------
\* What was shown is on record, or about to be.

\* Another session has shown the mail in its transaction.
Elsewhere(p, m) == \E q \in Poller \ {p} : m \in poll[q].shown

LEMMA ShownSplit ==
    ASSUME TypeInv, NEW p \in Poller, NEW m \in Message
    PROVE  /\ Shown(m) <=> m \in poll[p].shown \/ Elsewhere(p, m)
           /\ ~ (m \in poll[p].locks /\ Elsewhere(p, m))
           /\ ~ (m \in poll[p].shown /\ Elsewhere(p, m))
<1>1. m \in poll[p].shown => m \in poll[p].locks
    BY SessionFacts DEF Fits
<1>2. Elsewhere(p, m) => LockedByOther(p, m)
    BY SessionFacts DEF Fits, Elsewhere, LockedByOther
<1>3. m \in poll[p].locks => ~ LockedByOther(p, m)
    BY SessionFacts
<1>. QED  BY <1>1, <1>2, <1>3 DEF Shown, Elsewhere

LEMMA ShownNext ==
    ASSUME TypeInv, NEW p \in Poller, SessionMoves(p), NEW m \in Message
    PROVE  /\ Shown(m)' <=> m \in poll'[p].shown \/ Elsewhere(p, m)
           /\ ~ (m \in poll'[p].shown /\ Elsewhere(p, m))
<1>1. poll \in [Poller -> Session]
    BY DEF TypeInv, TypeOK
<1>2. \A q \in Poller : q # p => poll'[q] = poll[q]
    BY <1>1 DEF SessionMoves
<1>3. m \in poll'[p].shown => ~ LockedByOther(p, m)
    BY DEF SessionMoves, Fits
<1>4. Elsewhere(p, m) => LockedByOther(p, m)
    BY SessionFacts DEF Fits, Elsewhere, LockedByOther
<1>. QED  BY <1>2, <1>3, <1>4 DEF Shown, Elsewhere

LEMMA InFlightIs ==
    ASSUME TypeInv, NEW m \in Message
    PROVE  InFlight(m) = IF Shown(m) THEN 1 ELSE 0
<1>. DEFINE S == {p \in Poller : m \in poll[p].shown}
<1>1. CASE ~ Shown(m)
  <2>1. S = {}
      BY <1>1 DEF Shown
  <2>. QED  BY <1>1, <2>1, FS_EmptySet DEF InFlight
<1>2. CASE Shown(m)
  <2>1. PICK p \in Poller : m \in poll[p].shown
      BY <1>2 DEF Shown
  <2>2. ~ Elsewhere(p, m)
      BY <2>1, ShownSplit
  <2>3. S = {p}
      BY <2>1, <2>2 DEF Elsewhere
  <2>4. Cardinality(S) = 1
      BY <2>3, FS_Singleton
  <2>. QED  BY <1>2, <2>4 DEF InFlight
<1>. QED  BY <1>1, <1>2

LEMMA RecordedStep ==
    ASSUME TypeInv, RecordedInv, NEW p \in Poller, SessionMoves(p), RowsOK',
           \A m \in Message :
               candidate'[m] = None =>
                   /\ candidate[m] = None
                   /\ told'[m] + Shows(poll[p], m) + lost[m]
                        <= told[m] + Shows(poll'[p], m) + lost'[m]
    PROVE  RecordedInv'
<1>1. SUFFICES ASSUME NEW m \in Message, candidate'[m] = None
               PROVE  told'[m] <= lost'[m] + IF Shown(m)' THEN 1 ELSE 0
  <2>1. \A m \in Message : told'[m] \in Nat /\ lost'[m] \in Nat
      BY DEF RowsOK
  <2>. QED  BY <2>1 DEF RecordedInv
<1>2. /\ told[m] \in Nat /\ lost[m] \in Nat /\ told'[m] \in Nat /\ lost'[m] \in Nat
    BY DEF TypeInv, TypeOK, RowsOK
<1>3. told[m] <= lost[m] + IF Shown(m) THEN 1 ELSE 0
    BY <1>1, <1>2 DEF RecordedInv
<1>4. /\ Shown(m) <=> m \in poll[p].shown \/ Elsewhere(p, m)
      /\ ~ (m \in poll[p].shown /\ Elsewhere(p, m))
      /\ Shown(m)' <=> m \in poll'[p].shown \/ Elsewhere(p, m)
      /\ ~ (m \in poll'[p].shown /\ Elsewhere(p, m))
    BY ShownSplit, ShownNext
<1>5. told'[m] + Shows(poll[p], m) + lost[m]
          <= told[m] + Shows(poll'[p], m) + lost'[m]
    BY <1>1
<1>6. CASE Elsewhere(p, m)
  <2>1. Shows(poll[p], m) = 0 /\ Shows(poll'[p], m) = 0
      BY <1>4, <1>6 DEF Shows
  <2>. QED  BY <1>2, <1>3, <1>4, <1>5, <1>6, <2>1
<1>7. CASE ~ Elsewhere(p, m)
  <2>1. /\ Shows(poll[p], m) = IF Shown(m) THEN 1 ELSE 0
        /\ Shows(poll'[p], m) = IF Shown(m)' THEN 1 ELSE 0
      BY <1>4, <1>7 DEF Shows
  <2>2. CASE Shown(m)
    <3>1. Shows(poll[p], m) = 1 /\ told[m] <= lost[m] + 1
        BY <1>3, <2>1, <2>2
    <3>. QED  BY <1>2, <1>5, <2>1, <3>1
  <2>3. CASE ~ Shown(m)
    <3>1. Shows(poll[p], m) = 0 /\ told[m] <= lost[m]
        BY <1>2, <1>3, <2>1, <2>3
    <3>. QED  BY <1>2, <1>5, <2>1, <3>1
  <2>. QED  BY <2>2, <2>3
<1>. QED  BY <1>6, <1>7

LEMMA RecordedQuietly ==
    ASSUME TypeInv, RecordedInv, NEW p \in Poller, SessionMoves(p), RowsOK',
           UNCHANGED <<candidate, told, lost>>, poll'[p].shown = poll[p].shown
    PROVE  RecordedInv'
<1>1. \A m \in Message : Shows(poll'[p], m) = Shows(poll[p], m)
    BY DEF Shows
<1>2. \A m \in Message :
          told[m] \in Nat /\ lost[m] \in Nat /\ Shows(poll[p], m) \in {0, 1}
    BY DEF TypeInv, TypeOK, Shows
<1>3. \A m \in Message : told'[m] + Shows(poll[p], m) + lost[m]
                            <= told[m] + Shows(poll'[p], m) + lost'[m]
    BY <1>1, <1>2
<1>. QED  BY <1>3, RecordedStep

LEMMA RecordedRollback ==
    ASSUME TypeInv, RecordedInv, NEW p \in Poller, SessionMoves(p), RowsOK',
           UNCHANGED <<candidate, told>>, Rollback(p), poll'[p].shown = {}
    PROVE  RecordedInv'
<1>1. \A m \in Message : lost'[m] = lost[m] + Shows(poll[p], m)
    BY RollbackType DEF Shows
<1>2. \A m \in Message :
          told[m] \in Nat /\ lost[m] \in Nat /\ Shows(poll[p], m) \in {0, 1}
    BY DEF TypeInv, TypeOK, Shows
<1>3. \A m \in Message : Shows(poll'[p], m) = 0
    BY DEF Shows
<1>4. \A m \in Message : told'[m] + Shows(poll[p], m) + lost[m]
                            <= told[m] + Shows(poll'[p], m) + lost'[m]
    BY <1>1, <1>2, <1>3
<1>. QED  BY <1>4, RecordedStep

\* What a session has shown is in the candidates it commits.
LEMMA RecordedCommit ==
    ASSUME TypeInv, RecordedInv, NEW p \in Poller, SessionMoves(p), RowsOK',
           poll'[p].shown = {},
           \A m \in Message :
               candidate'[m] = None =>
                   /\ candidate[m] = None /\ poll[p].cand[m] = None
                   /\ told'[m] = told[m] /\ lost'[m] = lost[m]
    PROVE  RecordedInv'
<1>1. \A m \in Message : Shows(poll'[p], m) = 0
    BY DEF Shows
<1>2. \A m \in Message : poll[p].cand[m] = None => Shows(poll[p], m) = 0
    BY SessionFacts DEF Fits, Shows
<1>3. \A m \in Message : told[m] \in Nat /\ lost[m] \in Nat
    BY DEF TypeInv, TypeOK
<1>4. \A m \in Message : candidate'[m] = None =>
          told'[m] + Shows(poll[p], m) + lost[m]
              <= told[m] + Shows(poll'[p], m) + lost'[m]
    BY <1>1, <1>2, <1>3
<1>. QED  BY <1>4, RecordedStep

LEMMA RecordedFailure ==
    ASSUME TypeInv, RecordedInv, NEW p \in Poller, SessionMoves(p), RowsOK',
           RecordFailure(p), poll'[p].shown = {},
           \A m \in Message \ {poll[p].at} : told'[m] = told[m] /\ lost'[m] = lost[m]
    PROVE  RecordedInv'
<1>1. \A m \in Message : candidate'[m] = None => m # poll[p].at
    BY FailureFacts
<1>2. \A m \in Message :
          m # poll[p].at => candidate'[m] = IF poll[p].cand[m] # None THEN poll[p].cand[m]
                                            ELSE candidate[m]
    BY FailureFacts
<1>3. \A m \in Message : candidate'[m] = None =>
          candidate[m] = None /\ poll[p].cand[m] = None
    BY <1>1, <1>2
<1>. QED  BY <1>1, <1>3, RecordedCommit

LEMMA RecordedNotify ==
    ASSUME TypeInv, RecordedInv, NEW p \in Poller, Notify(p)
    PROVE  RecordedInv'
<1>. DEFINE n == poll[p].at
<1>1. /\ SessionMoves(p) /\ RowsOK' /\ n \in Message /\ n \notin poll[p].shown
      /\ poll'[p].shown = poll[p].shown \cup {n} /\ told' = [told EXCEPT ![n] = @ + 1]
    BY NotifyMoves
<1>2. UNCHANGED <<candidate, lost>>
    BY DEF Notify
<1>3. told \in [Message -> Nat] /\ lost \in [Message -> Nat]
    BY DEF TypeInv, TypeOK
<1>. HIDE DEF n
<1>4. ASSUME NEW m \in Message
      PROVE  told'[m] + Shows(poll[p], m) + lost[m]
                 <= told[m] + Shows(poll'[p], m) + lost'[m]
  <2>1. CASE m = n
    <3>1. Shows(poll[p], m) = 0 /\ Shows(poll'[p], m) = 1
        BY <1>1, <2>1 DEF Shows
    <3>2. told'[m] = told[m] + 1
        BY <1>1, <1>3, <2>1
    <3>. QED  BY <1>2, <1>3, <3>1, <3>2
  <2>2. CASE m # n
    <3>1. Shows(poll'[p], m) = Shows(poll[p], m) /\ Shows(poll[p], m) \in {0, 1}
        BY <1>1, <2>2 DEF Shows
    <3>2. told'[m] = told[m]
        BY <1>1, <1>3, <2>2
    <3>. QED  BY <1>2, <1>3, <3>1, <3>2
  <2>. QED  BY <2>1, <2>2
<1>. QED  BY <1>1, <1>2, <1>4, RecordedStep

LEMMA RecordedNext ==
    ASSUME TypeInv, RecordedInv, [Next]_vars
    PROVE  RecordedInv'
<1>1. CASE UNCHANGED vars \/ Tick \/ Reconnect \/ \E m \in Message : Arrive(m)
    BY <1>1 DEF vars, Tick, Reconnect, Arrive, RecordedInv, Shown
<1>2. ASSUME NEW p \in Poller, StartPoll(p)
      PROVE  RecordedInv'
  <2>1. poll[p].shown = {}
    <3>1. poll[p].locks = {} /\ poll[p].shown \subseteq Message
        BY <1>2, SessionFacts DEF StartPoll, Fits, Fresh, Session
    <3>. QED  BY <3>1, SessionFacts DEF Fits
  <2>. QED  BY <1>2, <2>1, StartPollMoves, BlankHasNothing, RecordedQuietly DEF StartPoll
<1>3. ASSUME NEW p \in Poller, GetToken(p)
      PROVE  RecordedInv'
  <2>1. poll[p] \in Session
      BY SessionFacts
  <2>2. poll'[p].shown = poll[p].shown
      BY <1>3, <2>1, GetTokenMoves DEF Session
  <2>. QED  BY <1>3, <2>2, GetTokenMoves, RecordedQuietly DEF GetToken
<1>4. ASSUME NEW p \in Poller, ListMessages(p)
      PROVE  RecordedInv'
  <2>1. poll[p] \in Session
      BY SessionFacts
  <2>2. poll'[p].shown = poll[p].shown
      BY <1>4, <2>1, ListMessagesMoves DEF Session
  <2>. QED  BY <1>4, <2>2, ListMessagesMoves, RecordedQuietly DEF ListMessages
<1>5. ASSUME NEW p \in Poller, NextMessage(p)
      PROVE  RecordedInv'
    BY <1>5, NextMessageMoves, RecordedQuietly DEF NextMessage, Same
<1>6. ASSUME NEW p \in Poller, CreateSource(p)
      PROVE  RecordedInv'
    BY <1>6, CreateSourceMoves, RecordedQuietly DEF CreateSource, Same
<1>7. ASSUME NEW p \in Poller, InsertSource(p)
      PROVE  RecordedInv'
  <2>1. told' = told /\ lost' = lost
      BY <1>7 DEF InsertSource
  <2>2. /\ SessionMoves(p) /\ RowsOK' /\ poll'[p].shown = {}
        /\ \A m \in Message : candidate'[m] = IF poll[p].cand[m] # None
                                              THEN poll[p].cand[m] ELSE candidate[m]
      BY <1>7, InsertSourceMoves, BlankHasNothing
  <2>3. \A m \in Message : candidate'[m] = None =>
            candidate[m] = None /\ poll[p].cand[m] = None
      BY <2>2
  <2>. QED  BY <2>1, <2>2, <2>3, RecordedCommit
<1>8. ASSUME NEW p \in Poller, InsertDuplicate(p)
      PROVE  RecordedInv'
    BY <1>8, InsertDuplicateMoves, BlankHasNothing, RecordedRollback DEF InsertDuplicate
<1>9. ASSUME NEW p \in Poller, Classify(p)
      PROVE  RecordedInv'
    BY <1>9, ClassifyMoves, RecordedQuietly DEF Classify, Decides
<1>10. ASSUME NEW p \in Poller, Extract(p)
       PROVE  RecordedInv'
    BY <1>10, ExtractMoves, RecordedQuietly DEF Extract
<1>11. ASSUME NEW p \in Poller, Notify(p)
       PROVE  RecordedInv'
    BY <1>11, RecordedNotify
<1>12. ASSUME NEW p \in Poller, Reject(p)
       PROVE  RecordedInv'
    BY <1>12, RejectMoves, RecordedQuietly DEF Reject, Decides
<1>13. ASSUME NEW p \in Poller, EndSync(p)
       PROVE  RecordedInv'
  <2>1. told' = told /\ lost' = lost
      BY <1>13 DEF EndSync
  <2>2. /\ SessionMoves(p) /\ RowsOK' /\ poll'[p].shown = {}
        /\ \A m \in Message : candidate'[m] = IF poll[p].cand[m] # None
                                              THEN poll[p].cand[m] ELSE candidate[m]
      BY <1>13, EndSyncMoves, BlankHasNothing
  <2>3. \A m \in Message : candidate'[m] = None =>
            candidate[m] = None /\ poll[p].cand[m] = None
      BY <2>2
  <2>. QED  BY <2>1, <2>2, <2>3, RecordedCommit
<1>14. ASSUME NEW p \in Poller, CallFails(p) \/ ExpiredFails(p) \/ Crash(p)
       PROVE  RecordedInv'
  <2>1. Aborts(p)
      BY <1>14, WhatAborts
  <2>. QED  BY <2>1, AbortsMoves, BlankHasNothing, RecordedRollback DEF Aborts
<1>15. ASSUME NEW p \in Poller, MarkAccountError(p)
       PROVE  RecordedInv'
  <2>1. poll[p].shown = {}
    <3>1. poll[p].locks = {} /\ poll[p].shown \subseteq Message
        BY <1>15, SessionFacts DEF MarkAccountError, Fits, Fresh, Session
    <3>. QED  BY <3>1, SessionFacts DEF Fits
  <2>. QED  BY <1>15, <2>1, MarkAccountErrorMoves, BlankHasNothing, RecordedQuietly
            DEF MarkAccountError
<1>16. ASSUME NEW p \in Poller, SkipGarbled(p)
       PROVE  RecordedInv'
    BY <1>16, SkipGarbledMoves, RecordedQuietly DEF SkipGarbled
<1>17. ASSUME NEW p \in Poller, NotifyFails(p)
       PROVE  RecordedInv'
  <2>1. RecordFailure(p) /\ lost' = lost
      BY <1>17 DEF NotifyFails
  <2>2. \A m \in Message \ {poll[p].at} : told'[m] = told[m]
      BY <1>17, Counted DEF NotifyFails, TypeInv, TypeOK
  <2>3. SessionMoves(p) /\ RowsOK' /\ poll'[p].shown = {}
      BY <1>17, NotifyFailsMoves, BlankHasNothing
  <2>. QED  BY <2>1, <2>2, <2>3, RecordedFailure
<1>18. ASSUME NEW p \in Poller, NotifyGarbled(p)
       PROVE  RecordedInv'
  <2>1. RecordFailure(p)
      BY <1>18 DEF NotifyGarbled
  <2>2. \A m \in Message \ {poll[p].at} : told'[m] = told[m] /\ lost'[m] = lost[m]
      BY <1>18, Counted DEF NotifyGarbled, TypeInv, TypeOK
  <2>3. SessionMoves(p) /\ RowsOK' /\ poll'[p].shown = {}
      BY <1>18, NotifyGarbledMoves, BlankHasNothing
  <2>. QED  BY <2>1, <2>2, <2>3, RecordedFailure
<1>. QED  BY <1>1, <1>2, <1>3, <1>4, <1>5, <1>6, <1>7, <1>8, <1>9, <1>10, <1>11, <1>12,
             <1>13, <1>14, <1>15, <1>16, <1>17, <1>18 DEF Next, Continue

-----------------------------------------------------------------------------
\* Polls that do not overlap.

\* An idle session has nothing written and nothing shown.
LEMMA IdleFacts ==
    ASSUME TypeInv, NEW p \in Poller, poll[p].pc \in Fresh
    PROVE  /\ poll[p].shown = {} /\ poll[p].locks = {}
           /\ \A m \in Message : poll[p].src[m] = None /\ poll[p].cand[m] = None
<1>1. /\ poll[p].locks = {} /\ poll[p].shown \subseteq Message
    BY SessionFacts DEF Fits, Session
<1>. QED  BY <1>1, SessionFacts DEF Fits

LEMMA AloneStep ==
    ASSUME TypeInv, ~ overlapped => Alone /\ CurrentAll,
           NEW p \in Poller, SessionMoves(p), poll[p].pc # "idle",
           overlapped' = overlapped,
           ~ overlapped => Current(poll'[p], account'.polledAt, source')
    PROVE  (~ overlapped => Alone /\ CurrentAll)'
<1>1. SUFFICES ASSUME ~ overlapped PROVE Alone' /\ CurrentAll'
    OBVIOUS
<1>2. poll \in [Poller -> Session]
    BY DEF TypeInv, TypeOK
<1>3. \A q \in Poller : q # p => poll'[q] = poll[q] /\ poll[q].pc = "idle"
    BY <1>1, <1>2 DEF SessionMoves, Alone
<1>4. Alone'
    BY <1>3 DEF Alone
<1>5. ASSUME NEW q \in Poller, q # p
      PROVE  Current(poll'[q], account'.polledAt, source')
  <2>1. Current(poll[q], account.polledAt, source)
      BY <1>1 DEF CurrentAll
  <2>. QED  BY <1>3, <1>5, <2>1 DEF Current
<1>6. CurrentAll'
    BY <1>1, <1>5 DEF CurrentAll
<1>. QED  BY <1>4, <1>6

\* While a poll is alone, each of its steps leaves it with the rows as they are.
LEMMA CurrentStep ==
    ASSUME TypeInv, NEW p \in Poller, Current(poll[p], account.polledAt, source),
           Continue(p) \/ SkipGarbled(p) \/ NotifyFails(p) \/ NotifyGarbled(p)
           \/ CallFails(p) \/ Crash(p)
    PROVE  /\ Current(poll'[p], account'.polledAt, source')
           /\ ~ InsertDuplicate(p) /\ ~ ExpiredFails(p)
           /\ CreateSource(p) => poll'[p].pc = "insert" /\ poll'[p].at = poll[p].at
<1>. DEFINE r == poll[p]
            Goal == Current(poll'[p], account'.polledAt, source')
<1>1. /\ r \in Session /\ Fits(r) /\ Stored(r, source)
      /\ r.pc \in AtHand => r.at \in Message
    BY SessionFacts
<1>2. ~ InsertDuplicate(p) /\ ~ ExpiredFails(p)
    BY DEF InsertDuplicate, ExpiredFails, Current
<1>3. CreateSource(p) => Goal /\ poll'[p].pc = "insert" /\ poll'[p].at = r.at
  <2>1. SUFFICES ASSUME CreateSource(p)
                 PROVE  Goal /\ poll'[p].pc = "insert" /\ poll'[p].at = r.at
      OBVIOUS
  <2>2. source[r.at] = None /\ source' = source
      BY <2>1 DEF CreateSource, Current
  <2>3. poll'[p].expired = r.expired /\ poll'[p].pc = "insert" /\ poll'[p].at = r.at
      BY <2>1, <2>2, CreateSourceMoves
  <2>. QED  BY <2>2, <2>3 DEF Current
<1>4. GetToken(p) => Goal
  <2>1. SUFFICES ASSUME GetToken(p) PROVE Goal
      OBVIOUS
  <2>2. account'.polledAt = account.polledAt /\ r.pc = "token"
      BY <2>1 DEF GetToken, TypeInv, TypeOK
  <2>3. /\ poll'[p].pc = "list" /\ poll'[p].expired = r.expired
        /\ poll'[p].since = r.since
      BY <1>1, <2>1, GetTokenMoves DEF Session
  <2>. QED  BY <2>2, <2>3 DEF Current
<1>5. ListMessages(p) => Goal
  <2>1. SUFFICES ASSUME ListMessages(p) PROVE Goal
      OBVIOUS
  <2>2. poll'[p].pc = "next" /\ poll'[p].expired = r.expired
      BY <1>1, <2>1, ListMessagesMoves DEF Session
  <2>. QED  BY <2>2 DEF Current
<1>6. NextMessage(p) => Goal
  <2>1. SUFFICES ASSUME NextMessage(p) PROVE Goal
      OBVIOUS
  <2>2. source' = source
      BY <2>1 DEF NextMessage
  <2>3. CASE Passes(poll'[p], r)
      BY <2>3 DEF Passes, Current
  <2>4. CASE TakesUp(poll'[p], r)
      BY <2>2, <2>4 DEF TakesUp, Current
  <2>. QED  BY <2>1, <2>3, <2>4, NextMessageMoves
<1>7. InsertSource(p) => Goal
  <2>1. SUFFICES ASSUME InsertSource(p) PROVE Goal
      OBVIOUS
  <2>2. /\ poll'[p].pc = "decide" /\ poll'[p].at = r.at /\ poll'[p].loaded = "NEW"
        /\ poll'[p].expired = r.expired /\ source'[r.at] = "NEW"
      BY <2>1, InsertSourceMoves
  <2>. QED  BY <2>2 DEF Current, Handled
<1>8. Classify(p) \/ Reject(p) => Goal
  <2>1. SUFFICES ASSUME Classify(p) \/ Reject(p) PROVE Goal
      OBVIOUS
  <2>2. poll'[p].pc = "next" /\ poll'[p].expired = r.expired
      BY <2>1, ClassifyMoves, RejectMoves DEF Decides
  <2>. QED  BY <2>2 DEF Current
<1>9. Extract(p) => Goal
  <2>1. SUFFICES ASSUME Extract(p) PROVE Goal
      OBVIOUS
  <2>2. /\ poll'[p].pc = "notify" /\ poll'[p].at = r.at /\ r.at \in Message
        /\ poll'[p].expired = r.expired
        /\ poll'[p].src = [r.src EXCEPT ![r.at] = Written(r, "PROCESSED")]
      BY <2>1, ExtractMoves
  <2>3. source' = source /\ r.pc = "decide"
      BY <2>1 DEF Extract
  <2>4. source[r.at] = r.loaded /\ r.loaded \notin Handled
      BY <2>3 DEF Current
  <2>5. Written(r, "PROCESSED") = "PROCESSED"
      BY <2>4 DEF Written, Handled
  <2>6. poll'[p].src[r.at] = "PROCESSED"
      BY <1>1, <2>2, <2>5 DEF Session
  <2>. QED  BY <2>2, <2>3, <2>4, <2>6 DEF Current
<1>10. Notify(p) => Goal
  <2>1. SUFFICES ASSUME Notify(p) PROVE Goal
      OBVIOUS
  <2>2. poll'[p].pc = "next" /\ poll'[p].expired = r.expired
      BY <2>1, NotifyMoves
  <2>. QED  BY <2>2 DEF Current
<1>11. NotifyGarbled(p) => Goal
  <2>1. SUFFICES ASSUME NotifyGarbled(p) PROVE Goal
      OBVIOUS
  <2>2. poll'[p].pc = "reject" /\ poll'[p].expired = r.expired
      BY <2>1, NotifyGarbledMoves
  <2>. QED  BY <2>2 DEF Current
<1>12. SkipGarbled(p) => Goal
  <2>1. SUFFICES ASSUME SkipGarbled(p) PROVE Goal
      OBVIOUS
  <2>2. poll'[p].pc = "next" /\ poll'[p].expired = r.expired
      BY <2>1, SkipGarbledMoves DEF Passes
  <2>. QED  BY <2>2 DEF Current
<1>13. ASSUME Ended(poll'[p]) PROVE Goal
    BY <1>13 DEF Ended, Blank, Current
<1>14. EndSync(p) \/ CallFails(p) \/ Crash(p) \/ MarkAccountError(p) \/ NotifyFails(p)
           => Ended(poll'[p])
    BY EndSyncMoves, WhatAborts, AbortsMoves, MarkAccountErrorMoves, NotifyFailsMoves
<1>. HIDE DEF Goal, r
<1>15. Goal
    BY <1>2, <1>3, <1>4, <1>5, <1>6, <1>7, <1>8, <1>9, <1>10, <1>11, <1>12, <1>13, <1>14
    DEF Continue
<1>. QED  BY <1>2, <1>3, <1>15 DEF Goal, r

\* A step other than the start of a poll is one of a poll under way.
Proceeds(p) ==
    Continue(p) \/ SkipGarbled(p) \/ NotifyFails(p) \/ NotifyGarbled(p)
        \/ CallFails(p) \/ Crash(p)

LEMMA ProceedFacts ==
    ASSUME TypeInv, NEW p \in Poller, Proceeds(p)
    PROVE  /\ SessionMoves(p) /\ RowsOK' /\ poll[p].pc # "idle"
           /\ overlapped' = overlapped /\ skipped \subseteq skipped'
<1>1. SessionMoves(p) /\ RowsOK'
    BY GetTokenMoves, ListMessagesMoves, NextMessageMoves, CreateSourceMoves,
       InsertSourceMoves, InsertDuplicateMoves, ClassifyMoves, ExtractMoves, NotifyMoves,
       RejectMoves, EndSyncMoves, WhatAborts, AbortsMoves, MarkAccountErrorMoves,
       SkipGarbledMoves, NotifyFailsMoves, NotifyGarbledMoves DEF Proceeds, Continue
<1>2. Proceeds(p) => poll[p].pc # "idle" /\ overlapped' = overlapped
    BY DEF Proceeds, Continue, GetToken, ListMessages, NextMessage, CreateSource,
       InsertSource, InsertDuplicate, Classify, Extract, Notify, Reject, EndSync,
       ExpiredFails, MarkAccountError, SkipGarbled, NotifyFails, NotifyGarbled,
       RecordFailure, CallFails, Crash, Raise
<1>3. Proceeds(p) => skipped \subseteq skipped'
    BY DEF Proceeds, Continue, GetToken, ListMessages, NextMessage, CreateSource,
       InsertSource, InsertDuplicate, Classify, Extract, Notify, Reject, EndSync,
       ExpiredFails, MarkAccountError, SkipGarbled, NotifyFails, NotifyGarbled,
       CallFails, Crash, Raise
<1>. QED  BY <1>1, <1>2, <1>3

\* A poll that starts alone finds the others idle.
LEMMA StartFacts ==
    ASSUME TypeInv, NEW p \in Poller, StartPoll(p)
    PROVE  /\ SessionMoves(p) /\ RowsOK' /\ Blank(poll'[p]) /\ poll[p].pc = "idle"
           /\ poll'[p].pc = "token" /\ poll'[p].since = account.polledAt
           /\ UNCHANGED <<now, arrived, account, source, candidate, told, lost, skipped>>
           /\ ~ overlapped' => ~ overlapped /\ \A q \in Poller : poll[q].pc = "idle"
           /\ \A q \in Poller : q # p => poll'[q] = poll[q]
<1>1. poll \in [Poller -> Session]
    BY DEF TypeInv, TypeOK
<1>2. SessionMoves(p)
    BY StartPollMoves
<1>3. \A q \in Poller : q # p => poll'[q] = poll[q]
    BY <1>1, <1>2 DEF SessionMoves
<1>. QED  BY <1>3, StartPollMoves DEF StartPoll

LEMMA AloneNext ==
    ASSUME TypeInv, ~ overlapped => Alone /\ CurrentAll, [Next]_vars
    PROVE  (~ overlapped => Alone /\ CurrentAll)'
<1>1. CASE UNCHANGED vars \/ Tick \/ Reconnect \/ \E m \in Message : Arrive(m)
  <2>1. /\ UNCHANGED <<poll, source, overlapped>> /\ account'.polledAt = account.polledAt
      BY <1>1 DEF vars, Tick, Reconnect, Arrive, TypeInv, TypeOK
  <2>. QED  BY <2>1 DEF Alone, CurrentAll
<1>2. ASSUME NEW p \in Poller, StartPoll(p)
      PROVE  (~ overlapped => Alone /\ CurrentAll)'
  <2>1. SUFFICES ASSUME ~ overlapped' PROVE Alone' /\ CurrentAll'
      OBVIOUS
  <2>2. /\ ~ overlapped /\ \A q \in Poller : poll[q].pc = "idle"
        /\ poll'[p].pc = "token" /\ poll'[p].since = account.polledAt
        /\ Blank(poll'[p]) /\ account' = account /\ source' = source
        /\ \A q \in Poller : q # p => poll'[q] = poll[q]
      BY <1>2, <2>1, StartFacts
  <2>3. Alone'
      BY <2>2 DEF Alone
  <2>4. Current(poll'[p], account'.polledAt, source')
      BY <2>2 DEF Current, Blank
  <2>5. CurrentAll'
      BY <2>2, <2>4 DEF CurrentAll
  <2>. QED  BY <2>3, <2>5
<1>3. ASSUME NEW p \in Poller, Proceeds(p)
      PROVE  (~ overlapped => Alone /\ CurrentAll)'
  <2>1. ~ overlapped => Current(poll'[p], account'.polledAt, source')
      BY <1>3, CurrentStep DEF CurrentAll, Proceeds
  <2>. QED  BY <1>3, <2>1, ProceedFacts, AloneStep
<1>. QED  BY <1>1, <1>2, <1>3 DEF Next, Proceeds

-----------------------------------------------------------------------------
\* How often a mail is shown.

\* CountInv of a poll that is alone.
Within(p) ==
    /\ \A m \in Message :
          told[m] <= lost[m] + IF source[m] \in Handled \/ m \in poll[p].shown THEN 1 ELSE 0
    /\ Counts(poll[p])

LEMMA CountOfOne ==
    ASSUME TypeInv, Alone, CountInv, skipped = {}, NEW p \in Poller, poll[p].pc # "idle"
    PROVE  Within(p)
<1>1. \A q \in Poller \ {p} : poll[q].pc = "idle" /\ poll[q].shown = {}
  <2>1. \A q \in Poller \ {p} : poll[q].pc = "idle"
      BY DEF Alone
  <2>. QED  BY <2>1, IdleFacts DEF Fresh
<1>2. \A m \in Message : Shown(m) <=> m \in poll[p].shown
    BY <1>1 DEF Shown
<1>. QED  BY <1>2 DEF CountInv, Limit, Within

LEMMA CountsOfBlank ==
    ASSUME NEW x, x.shown = {}, \A m \in Message : x.src[m] = None, x.pc # "reject"
    PROVE  Counts(x)
    BY ConstantTypes DEF Counts, SourceStatus

LEMMA CountOfAll ==
    ASSUME TypeInv, Alone, NEW p \in Poller, SessionMoves(p), poll[p].pc # "idle", Within(p)'
    PROVE  CountInv'
<1>1. poll \in [Poller -> Session]
    BY DEF TypeInv, TypeOK
<1>2. \A q \in Poller \ {p} :
          /\ poll'[q] = poll[q] /\ poll[q].pc = "idle" /\ poll[q].shown = {}
          /\ \A m \in Message : poll[q].src[m] = None
  <2>1. \A q \in Poller \ {p} : poll[q].pc = "idle" /\ poll'[q] = poll[q]
      BY <1>1 DEF Alone, SessionMoves
  <2>. QED  BY <2>1, IdleFacts DEF Fresh
<1>3. \A m \in Message : Shown(m)' <=> m \in poll'[p].shown
    BY <1>2 DEF Shown
<1>4. \A m \in Message : told'[m] <= Limit(m)'
    BY <1>3 DEF Within, Limit
<1>5. ASSUME NEW q \in Poller
      PROVE  Counts(poll[q])'
  <2>1. CASE q = p
      BY <2>1 DEF Within
  <2>2. CASE q # p
    <3>1. poll'[q].pc = "idle" /\ poll'[q].shown = {} /\ \A m \in Message : poll'[q].src[m] = None
        BY <1>2, <2>2
    <3>. QED  BY <3>1, ConstantTypes DEF Counts, SourceStatus
  <2>. QED  BY <2>1, <2>2
<1>. QED  BY <1>4, <1>5 DEF CountInv

LEMMA WithinQuietly ==
    ASSUME TypeInv, NEW p \in Poller, Within(p), UNCHANGED <<told, lost, source>>,
           poll'[p].shown = poll[p].shown, poll'[p].pc # "reject",
           \A m \in poll[p].shown : poll'[p].src[m] = "PROCESSED",
           \A m \in Message : poll'[p].src[m] = "FAILED" => told[m] <= lost[m]
    PROVE  Within(p)'
    BY DEF Within, Counts

\* A mail at hand is not yet handled, nor has it been shown.
LEMMA WithinAtHand ==
    ASSUME TypeInv, NEW p \in Poller, Within(p), poll[p].pc \in AtHand,
           source[poll[p].at] \notin Handled
    PROVE  told[poll[p].at] <= lost[poll[p].at]
<1>1. poll[p].at \in Message /\ poll[p].at \notin poll[p].shown
    BY SessionFacts, ConstantTypes DEF Fits
<1>2. told[poll[p].at] \in Nat /\ lost[poll[p].at] \in Nat
    BY <1>1 DEF TypeInv, TypeOK
<1>. QED  BY <1>1, <1>2 DEF Within

LEMMA WithinDecide ==
    ASSUME TypeInv, NEW p \in Poller, Within(p), poll[p].pc \in AtHand,
           UNCHANGED <<told, lost, source>>, poll'[p].shown = poll[p].shown,
           poll'[p].pc # "reject", NEW v, poll'[p].src = [poll[p].src EXCEPT ![poll[p].at] = v],
           v = "FAILED" => told[poll[p].at] <= lost[poll[p].at]
    PROVE  Within(p)'
<1>1. /\ poll[p].at \in Message /\ poll[p].at \notin poll[p].shown
      /\ poll[p].src \in [Message -> SourceStatus \cup {None}]
      /\ poll[p].shown \subseteq Message
    BY SessionFacts, ConstantTypes DEF Fits, Session
<1>2. \A m \in Message :
          /\ m = poll[p].at => poll'[p].src[m] = v
          /\ m # poll[p].at => poll'[p].src[m] = poll[p].src[m]
    BY <1>1
<1>3. \A m \in poll[p].shown : poll'[p].src[m] = "PROCESSED"
    BY <1>1, <1>2 DEF Within, Counts
<1>4. \A m \in Message : poll'[p].src[m] = "FAILED" => told[m] <= lost[m]
    BY <1>2 DEF Within, Counts
<1>. QED  BY <1>3, <1>4, WithinQuietly

\* Committing a decision leaves the count within its limit.
LEMMA WithinWritten ==
    ASSUME TypeInv, NEW p \in Poller, Within(p), NEW m \in Message,
           NEW status, status = IF poll[p].src[m] # None THEN poll[p].src[m] ELSE source[m]
    PROVE  told[m] <= lost[m] + IF status \in Handled THEN 1 ELSE 0
<1>1. /\ told[m] \in Nat /\ lost[m] \in Nat
      /\ poll[p].src[m] \in SourceStatus \cup {None} /\ poll[p].src[m] # "NEW"
    BY SessionFacts DEF TypeInv, TypeOK, Fits, Session
<1>2. /\ told[m] <= lost[m] + IF source[m] \in Handled \/ m \in poll[p].shown THEN 1 ELSE 0
      /\ m \in poll[p].shown => poll[p].src[m] = "PROCESSED"
      /\ poll[p].src[m] = "FAILED" => told[m] <= lost[m]
    BY DEF Within, Counts
<1>3. CASE poll[p].src[m] = "FAILED"
    BY <1>1, <1>2, <1>3
<1>4. CASE poll[p].src[m] \in Handled
  <2>1. status \in Handled
      BY <1>1, <1>4, ConstantTypes DEF Handled, SourceStatus
  <2>. QED  BY <1>1, <1>2, <2>1
<1>5. CASE poll[p].src[m] = None
  <2>1. status = source[m] /\ m \notin poll[p].shown
      BY <1>2, <1>5, ConstantTypes DEF SourceStatus
  <2>. QED  BY <1>2, <2>1
<1>. QED  BY <1>1, <1>3, <1>4, <1>5 DEF SourceStatus, Handled

LEMMA WithinFailure ==
    ASSUME TypeInv, NEW p \in Poller, Within(p), RecordFailure(p),
           source[poll[p].at] \notin Handled, poll[p].src[poll[p].at] = "PROCESSED",
           NEW came \in {0, 1}, told' = [told EXCEPT ![poll[p].at] = @ + came],
           \/ lost' = lost /\ poll'[p].pc # "reject"
           \/ lost' = [lost EXCEPT ![poll[p].at] = @ + came] /\ poll'[p].at = poll[p].at,
           poll'[p].shown = {}, \A m \in Message : poll'[p].src[m] = None
    PROVE  Within(p)'
<1>. DEFINE n == poll[p].at
<1>1. /\ n \in Message /\ poll[p].pc = "notify"
      /\ \A m \in Message :
            source'[m] = IF poll[p].src[m] # None THEN poll[p].src[m] ELSE source[m]
    BY FailureFacts
<1>2. told \in [Message -> Nat] /\ lost \in [Message -> Nat]
    BY DEF TypeInv, TypeOK
<1>3. told[n] <= lost[n]
    BY <1>1, WithinAtHand DEF AtHand
<1>4. source'[n] \in Handled
    BY <1>1, ConstantTypes DEF Handled, SourceStatus
<1>. HIDE DEF n
<1>5. /\ told'[n] = told[n] + came /\ lost'[n] \in {lost[n], lost[n] + came}
      /\ \A m \in Message : m # n => told'[m] = told[m] /\ lost'[m] = lost[m]
    BY <1>1, <1>2 DEF n
<1>6. ASSUME NEW m \in Message
      PROVE  told'[m] <= lost'[m] + IF source'[m] \in Handled \/ m \in poll'[p].shown
                                    THEN 1 ELSE 0
  <2>1. CASE m = n
      BY <1>1, <1>2, <1>3, <1>4, <1>5, <2>1
  <2>2. CASE m # n
      BY <1>1, <1>5, <2>2, WithinWritten
  <2>. QED  BY <2>1, <2>2
<1>7. poll'[p].pc = "reject" => told'[poll'[p].at] <= lost'[poll'[p].at]
  <2>1. SUFFICES ASSUME poll'[p].pc = "reject"
                 PROVE  told'[poll'[p].at] <= lost'[poll'[p].at]
      OBVIOUS
  <2>2. lost'[n] = lost[n] + came /\ poll'[p].at = n
      BY <1>1, <1>2, <2>1 DEF n
  <2>. QED  BY <1>1, <1>2, <1>3, <1>5, <2>2
<1>8. Counts(poll[p])'
    BY <1>7, ConstantTypes DEF Counts, SourceStatus
<1>. QED  BY <1>6, <1>8 DEF Within

LEMMA WithinCommit ==
    ASSUME TypeInv, NEW p \in Poller, Within(p), UNCHANGED <<told, lost>>,
           poll'[p].shown = {}, \A m \in Message : poll'[p].src[m] = None,
           poll'[p].pc # "reject",
           \A m \in Message :
               \/ told[m] <= lost[m]
               \/ source'[m] = IF poll[p].src[m] # None THEN poll[p].src[m] ELSE source[m]
    PROVE  Within(p)'
<1>1. \A m \in Message : told[m] \in Nat /\ lost[m] \in Nat
    BY DEF TypeInv, TypeOK
<1>2. ASSUME NEW m \in Message
      PROVE  told'[m] <= lost'[m] + IF source'[m] \in Handled \/ m \in poll'[p].shown
                                    THEN 1 ELSE 0
  <2>1. CASE told[m] <= lost[m]
      BY <1>1, <2>1
  <2>2. CASE source'[m] = IF poll[p].src[m] # None THEN poll[p].src[m] ELSE source[m]
      BY <2>2, WithinWritten
  <2>. QED  BY <2>1, <2>2
<1>3. Counts(poll[p])'
    BY ConstantTypes DEF Counts, SourceStatus
<1>. QED  BY <1>2, <1>3 DEF Within

LEMMA WithinNotify ==
    ASSUME TypeInv, NEW p \in Poller, Within(p), Notify(p),
           source[poll[p].at] \notin Handled, poll[p].src[poll[p].at] = "PROCESSED"
    PROVE  Within(p)'
<1>. DEFINE n == poll[p].at
<1>1. /\ n \in Message /\ n \notin poll[p].shown /\ poll'[p].pc = "next"
      /\ poll'[p].shown = poll[p].shown \cup {n} /\ told' = [told EXCEPT ![n] = @ + 1]
      /\ poll'[p].src = poll[p].src
    BY NotifyMoves
<1>2. UNCHANGED <<source, lost>> /\ poll[p].pc = "notify"
    BY DEF Notify
<1>3. told \in [Message -> Nat] /\ lost \in [Message -> Nat]
    BY DEF TypeInv, TypeOK
<1>4. told[n] <= lost[n]
    BY <1>2, WithinAtHand DEF AtHand
<1>5. poll[p].src[n] = "PROCESSED"
    OBVIOUS
<1>. HIDE DEF n
<1>6. /\ told'[n] = told[n] + 1
      /\ \A m \in Message : m # n => told'[m] = told[m]
    BY <1>1, <1>3
<1>7. ASSUME NEW m \in Message
      PROVE  told'[m] <= lost'[m] + IF source'[m] \in Handled \/ m \in poll'[p].shown
                                    THEN 1 ELSE 0
  <2>1. CASE m = n
      BY <1>1, <1>2, <1>3, <1>4, <1>6, <2>1
  <2>2. CASE m # n
    <3>1. m \in poll'[p].shown <=> m \in poll[p].shown
        BY <1>1, <2>2
    <3>. QED  BY <1>2, <1>6, <2>2, <3>1 DEF Within
  <2>. QED  BY <2>1, <2>2
<1>8. Counts(poll[p])'
    BY <1>1, <1>2, <1>5, <1>6 DEF Within, Counts
<1>. QED  BY <1>7, <1>8 DEF Within

LEMMA WithinAbort ==
    ASSUME TypeInv, NEW p \in Poller, Within(p), Rollback(p), UNCHANGED <<told, source>>,
           Ended(poll'[p])
    PROVE  Within(p)'
<1>1. \A m \in Message :
          lost'[m] = lost[m] + IF m \in poll[p].shown THEN 1 ELSE 0
    BY RollbackType
<1>2. \A m \in Message : told[m] \in Nat /\ lost[m] \in Nat
    BY DEF TypeInv, TypeOK
<1>3. \A m \in Message :
          told'[m] <= lost'[m] + IF source'[m] \in Handled \/ m \in poll'[p].shown
                                 THEN 1 ELSE 0
    BY <1>1, <1>2 DEF Within
<1>4. Counts(poll[p])'
    BY BlankHasNothing, ConstantTypes DEF Counts, SourceStatus, Ended
<1>. QED  BY <1>3, <1>4 DEF Within

LEMMA WithinStep ==
    ASSUME TypeInv, NEW p \in Poller, Proceeds(p), Within(p), skipped' = {},
           Current(poll[p], account.polledAt, source)
    PROVE  Within(p)'
<1>. DEFINE r == poll[p]
            x == poll'[p]
<1>1. r \in Session /\ Fits(r)
    BY SessionFacts
<1>2. /\ \A m \in r.shown : r.src[m] = "PROCESSED"
      /\ \A m \in Message : r.src[m] = "FAILED" => told[m] <= lost[m]
    BY DEF Within, Counts
<1>3. CASE GetToken(p)
  <2>1. x.shown = r.shown /\ x.src = r.src /\ x.pc = "list"
      BY <1>1, <1>3, GetTokenMoves DEF Session
  <2>. QED  BY <1>2, <1>3, <2>1, WithinQuietly DEF GetToken
<1>4. CASE ListMessages(p)
  <2>1. x.shown = r.shown /\ x.src = r.src /\ x.pc = "next"
      BY <1>1, <1>4, ListMessagesMoves DEF Session
  <2>. QED  BY <1>2, <1>4, <2>1, WithinQuietly DEF ListMessages
<1>5. CASE NextMessage(p)
  <2>1. x.shown = r.shown /\ x.src = r.src /\ x.pc # "reject"
      BY <1>5, NextMessageMoves DEF Same, Passes, TakesUp
  <2>. QED  BY <1>2, <1>5, <2>1, WithinQuietly DEF NextMessage
<1>6. CASE CreateSource(p)
  <2>1. x.shown = r.shown /\ x.src = r.src /\ x.pc # "reject"
      BY <1>6, CreateSourceMoves DEF Same
  <2>. QED  BY <1>2, <1>6, <2>1, WithinQuietly DEF CreateSource
<1>7. CASE InsertSource(p)
  <2>1. UNCHANGED <<told, lost>> /\ r.pc \in AtHand
      BY <1>7 DEF InsertSource, AtHand
  <2>2. /\ Emptied(x) /\ x.pc # "reject" /\ r.at \in Message /\ source[r.at] = None
        /\ \A m \in Message : m # r.at => source'[m] = IF r.src[m] # None THEN r.src[m]
                                                       ELSE source[m]
      BY <1>7, InsertSourceMoves
  <2>3. told[r.at] <= lost[r.at]
      BY <2>1, <2>2, WithinAtHand, ConstantTypes DEF Handled, SourceStatus
  <2>. QED  BY <2>1, <2>2, <2>3, BlankHasNothing, WithinCommit
<1>8. CASE Classify(p)
  <2>1. UNCHANGED <<told, lost, source>> /\ r.pc = "decide"
      BY <1>8 DEF Classify
  <2>2. told[r.at] <= lost[r.at]
      BY <2>1, WithinAtHand DEF Current, AtHand
  <2>3. PICK status \in {"PROCESSED", "IGNORED", "FAILED"} : Decides(x, r, Written(r, status))
      BY <1>8, ClassifyMoves
  <2>. QED  BY <2>1, <2>2, <2>3, WithinDecide DEF Decides, AtHand
<1>9. CASE Reject(p)
  <2>1. UNCHANGED <<told, lost, source>> /\ r.pc = "reject"
      BY <1>9 DEF Reject
  <2>2. told[r.at] <= lost[r.at]
      BY <2>1 DEF Within, Counts
  <2>3. Decides(x, r, "FAILED")
      BY <1>9, RejectMoves
  <2>. QED  BY <2>1, <2>2, <2>3, WithinDecide DEF Decides, AtHand
<1>10. CASE Extract(p)
  <2>1. UNCHANGED <<told, lost, source>> /\ r.pc = "decide"
      BY <1>10 DEF Extract
  <2>2. /\ x.shown = r.shown /\ x.pc # "reject"
        /\ x.src = [r.src EXCEPT ![r.at] = Written(r, "PROCESSED")]
      BY <1>10, ExtractMoves
  <2>3. told[r.at] <= lost[r.at]
      BY <2>1, WithinAtHand DEF Current, AtHand
  <2>. QED  BY <2>1, <2>2, <2>3, WithinDecide DEF AtHand
<1>11. CASE Notify(p)
    BY <1>11, WithinNotify DEF Notify, Current
<1>12. CASE EndSync(p)
  <2>1. UNCHANGED <<told, lost>>
      BY <1>12 DEF EndSync
  <2>2. /\ Ended(x)
        /\ \A m \in Message : source'[m] = IF r.src[m] # None THEN r.src[m] ELSE source[m]
      BY <1>12, EndSyncMoves
  <2>. QED  BY <2>1, <2>2, BlankHasNothing, WithinCommit DEF Ended
<1>13. CASE MarkAccountError(p)
  <2>1. UNCHANGED <<told, lost, source>> /\ r.pc \in Fresh
      BY <1>13 DEF MarkAccountError, Fresh
  <2>2. r.shown = {}
      BY <2>1, IdleFacts
  <2>3. Ended(x) /\ x.shown = {} /\ \A m \in Message : x.src[m] = None
      BY <1>13, MarkAccountErrorMoves, BlankHasNothing
  <2>. QED  BY <2>1, <2>2, <2>3, WithinQuietly, ConstantTypes DEF Ended, SourceStatus
<1>14. CASE CallFails(p) \/ ExpiredFails(p) \/ Crash(p)
  <2>1. Aborts(p) /\ Ended(x)
      BY <1>14, WhatAborts, AbortsMoves
  <2>. QED  BY <2>1, WithinAbort DEF Aborts
<1>15. CASE NotifyFails(p)
  <2>1. PICK came \in {0, 1} : told' = [told EXCEPT ![r.at] = @ + came]
      BY <1>15 DEF NotifyFails
  <2>2. RecordFailure(p) /\ lost' = lost
      BY <1>15 DEF NotifyFails
  <2>3. source[r.at] \notin Handled /\ r.src[r.at] = "PROCESSED"
      BY <2>2 DEF RecordFailure, Current
  <2>4. x.shown = {} /\ x.pc # "reject" /\ \A m \in Message : x.src[m] = None
      BY <1>15, NotifyFailsMoves, BlankHasNothing DEF Ended
  <2>. QED  BY <2>1, <2>2, <2>3, <2>4, WithinFailure
<1>16. CASE NotifyGarbled(p)
  <2>1. PICK came \in {0, 1} :
            /\ told' = [told EXCEPT ![r.at] = @ + came]
            /\ lost' = [lost EXCEPT ![r.at] = @ + came]
      BY <1>16 DEF NotifyGarbled
  <2>2. RecordFailure(p)
      BY <1>16 DEF NotifyGarbled
  <2>3. source[r.at] \notin Handled /\ r.src[r.at] = "PROCESSED"
      BY <2>2 DEF RecordFailure, Current
  <2>4. x.shown = {} /\ x.at = r.at /\ \A m \in Message : x.src[m] = None
      BY <1>16, NotifyGarbledMoves, BlankHasNothing
  <2>. QED  BY <2>1, <2>2, <2>3, <2>4, WithinFailure
<1>17. CASE SkipGarbled(p)
    BY <1>17 DEF SkipGarbled
<1>18. ~ InsertDuplicate(p)
    BY DEF InsertDuplicate, Current
<1>. HIDE DEF r, x
<1>. QED  BY <1>3, <1>4, <1>5, <1>6, <1>7, <1>8, <1>9, <1>10, <1>11, <1>12, <1>13, <1>14,
             <1>15, <1>16, <1>17, <1>18 DEF Proceeds, Continue

LEMMA CountNext ==
    ASSUME TypeInv, ~ overlapped => Alone /\ CurrentAll /\ CountInv, [Next]_vars
    PROVE  (~ overlapped => CountInv)'
<1>1. CASE UNCHANGED vars \/ Tick \/ Reconnect \/ \E m \in Message : Arrive(m)
  <2>1. UNCHANGED <<poll, source, told, lost, skipped, overlapped>>
      BY <1>1 DEF vars, Tick, Reconnect, Arrive
  <2>. QED  BY <2>1 DEF CountInv, Limit, Shown, Counts
<1>2. ASSUME NEW p \in Poller, StartPoll(p), ~ overlapped'
      PROVE  CountInv'
  <2>1. /\ ~ overlapped /\ poll[p].pc = "idle" /\ Blank(poll'[p])
        /\ poll'[p].pc = "token" /\ UNCHANGED <<source, told, lost, skipped>>
        /\ \A q \in Poller : q # p => poll'[q] = poll[q]
      BY <1>2, StartFacts
  <2>2. /\ poll[p].shown = {} /\ poll'[p].shown = {}
        /\ \A m \in Message : poll'[p].src[m] = None
      BY <2>1, IdleFacts, BlankHasNothing DEF Fresh
  <2>3. \A m \in Message : Shown(m)' <=> Shown(m)
      BY <2>1, <2>2 DEF Shown
  <2>4. Counts(poll[p])'
      BY <2>1, <2>2, ConstantTypes DEF Counts, SourceStatus
  <2>5. ASSUME NEW q \in Poller, q # p, Counts(poll[q])
        PROVE  Counts(poll[q])'
      BY <2>1, <2>5 DEF Counts
  <2>. QED  BY <2>1, <2>3, <2>4, <2>5 DEF CountInv, Limit
<1>3. ASSUME NEW p \in Poller, Proceeds(p), ~ overlapped'
      PROVE  CountInv'
  <2>1. /\ SessionMoves(p) /\ poll[p].pc # "idle" /\ ~ overlapped
        /\ skipped \subseteq skipped'
      BY <1>3, ProceedFacts
  <2>2. CASE skipped' # {}
      BY <2>2 DEF CountInv
  <2>3. CASE skipped' = {}
    <3>1. Within(p)
        BY <2>1, <2>3, CountOfOne
    <3>2. Within(p)'
        BY <1>3, <2>1, <2>3, <3>1, WithinStep DEF CurrentAll
    <3>. QED  BY <2>1, <3>2, CountOfAll
  <2>. QED  BY <2>2, <2>3
<1>. QED  BY <1>1, <1>2, <1>3 DEF Next, Proceeds

-----------------------------------------------------------------------------
\* No mail is left behind.

UnderWay(r) == r.pc \in AtHand \cup {"next"}

\* What one poll must show, as long as the end of the last one stands.
LEMMA LeftStep ==
    ASSUME TypeInv, LeftInv, NEW p \in Poller, SessionMoves(p), RowsOK',
           account'.polledAt = account.polledAt, skipped \subseteq skipped',
           \A m \in Message : Settled(source, m) => Settled(source', m),
           \A m \in Message \ skipped' :
               UnderWay(poll'[p]) /\ Before(m, poll'[p].current) =>
                   Covers(poll'[p], source', m)
    PROVE  LeftInv'
<1>1. poll \in [Poller -> Session]
    BY DEF TypeInv, TypeOK
<1>2. /\ now' = now /\ arrived' = arrived
      /\ \A q \in Poller : q # p => poll'[q] = poll[q]
    BY <1>1 DEF SessionMoves
<1>3. ASSUME NEW m \in Message \ skipped'
      PROVE  /\ Before(m, account.polledAt)' => Settled(source', m)
             /\ \A q \in Poller :
                   UnderWay(poll'[q]) /\ Before(m, poll[q].current)' =>
                       Covers(poll'[q], source', m)
  <2>1. Before(m, account.polledAt)' => Settled(source', m)
      BY <1>2 DEF LeftInv, Before
  <2>2. ASSUME NEW q \in Poller, UnderWay(poll'[q]), Before(m, poll[q].current)'
        PROVE  Covers(poll'[q], source', m)
    <3>1. Before(m, poll'[q].current)
        BY <1>2, <2>2 DEF Before
    <3>2. CASE q = p
        BY <2>2, <3>1, <3>2
    <3>3. CASE q # p
      <4>1. Covers(poll[q], source, m)
          BY <1>2, <2>2, <3>1, <3>3 DEF LeftInv, UnderWay
      <4>. QED  BY <1>2, <3>3, <4>1 DEF Covers
    <3>. QED  BY <3>2, <3>3
  <2>. QED  BY <2>1, <2>2
<1>4. (account.polledAt # None => account.polledAt <= now)'
    BY <1>2 DEF LeftInv
<1>. QED  BY <1>3, <1>4 DEF LeftInv, UnderWay

\* What a commit writes settles the mail.
LEMMA SettledByCommit ==
    ASSUME TypeInv, NEW p \in Poller, NEW m \in Message, NEW rows,
           rows[m] = IF poll[p].src[m] # None THEN poll[p].src[m] ELSE source[m]
    PROVE  Settled(source, m) \/ poll[p].src[m] # None => Settled(rows, m)
<1>1. poll[p].src[m] \in SourceStatus \cup {None} /\ poll[p].src[m] # "NEW"
    BY SessionFacts DEF Session, Fits
<1>. QED  BY <1>1 DEF Settled, SourceStatus

LEMMA LeftQuietly ==
    ASSUME TypeInv, LeftInv, NEW p \in Poller, SessionMoves(p), RowsOK',
           account'.polledAt = account.polledAt, skipped \subseteq skipped',
           source' = source, poll'[p].current = poll[p].current, UnderWay(poll[p]),
           \A m \in Message \ skipped' :
               Covers(poll[p], source, m) => Covers(poll'[p], source, m)
    PROVE  LeftInv'
<1>1. \A m \in Message \ skipped' :
          Before(m, poll'[p].current) => Covers(poll'[p], source', m)
    BY DEF LeftInv, UnderWay
<1>. QED  BY <1>1, LeftStep

LEMMA LeftEnded ==
    ASSUME TypeInv, LeftInv, NEW p \in Poller, SessionMoves(p), RowsOK',
           account'.polledAt = account.polledAt, skipped' = skipped,
           \/ source' = source
           \/ \A m \in Message :
                 source'[m] = IF poll[p].src[m] # None THEN poll[p].src[m] ELSE source[m],
           ~ UnderWay(poll'[p])
    PROVE  LeftInv'
<1>1. \A m \in Message : Settled(source, m) => Settled(source', m)
    BY SettledByCommit DEF Settled
<1>. QED  BY <1>1, LeftStep

LEMMA LeftProceeds ==
    ASSUME TypeInv, LeftInv, NEW p \in Poller, Proceeds(p),
           Current(poll[p], account.polledAt, source)
    PROVE  LeftInv'
<1>. DEFINE r == poll[p]
            x == poll'[p]
<1>1. /\ r \in Session /\ Fits(r) /\ SessionMoves(p) /\ RowsOK' /\ skipped \subseteq skipped'
    BY SessionFacts, ProceedFacts
<1>2. /\ r.src \in [Message -> SourceStatus \cup {None}]
      /\ \A m \in Message : m # None
    BY <1>1, ConstantTypes DEF Session
<1>3. CASE GetToken(p)
  <2>1. /\ account'.polledAt = account.polledAt /\ source' = source /\ skipped' = skipped
      BY <1>3 DEF GetToken, TypeInv, TypeOK
  <2>2. ~ UnderWay(x)
      BY <1>1, <1>3, GetTokenMoves DEF Session, UnderWay, AtHand
  <2>. QED  BY <1>1, <2>1, <2>2, LeftEnded
<1>4. CASE ListMessages(p)
  <2>1. /\ UNCHANGED <<account, source, skipped, arrived>> /\ r.pc = "list"
      BY <1>4 DEF ListMessages
  <2>2. x.todo = Listing(p) /\ ToSet(Listing(p)) = Listed(p)
      BY <1>1, <1>4, ListMessagesMoves, ListingGoesThrough DEF Session, GoesThrough
  <2>3. r.since = account.polledAt
      BY <2>1 DEF Current
  <2>4. ASSUME NEW m \in Message \ skipped', arrived[m] # None
        PROVE  Covers(x, source', m)
    <3>1. arrived[m] \in Time /\ r.since \in Time \cup {None}
        BY <1>1, <2>4 DEF TypeInv, TypeOK, Session
    <3>2. CASE r.since = None \/ arrived[m] >= r.since
        BY <2>2, <2>4, <3>2 DEF Listed, Lists, Covers
    <3>3. CASE r.since # None /\ arrived[m] < r.since
      <4>1. Before(m, account.polledAt)
          BY <2>3, <2>4, <3>3 DEF Before
      <4>. QED  BY <2>1, <4>1 DEF LeftInv, Covers
    <3>. QED  BY <3>1, <3>2, <3>3, ConstantTypes
  <2>. QED  BY <1>1, <2>1, <2>4, LeftStep DEF Before
<1>5. CASE NextMessage(p)
  <2>1. /\ UNCHANGED <<account, source, skipped>> /\ r.pc = "next" /\ r.todo # <<>>
      BY <1>5 DEF NextMessage
  <2>2. /\ Same(x, r) /\ x.todo = Tail(r.todo)
        /\ source[Head(r.todo)] \in Handled \/ x.at = Head(r.todo)
      BY <1>5, NextMessageMoves DEF Passes, TakesUp
  <2>3. ToSet(Tail(r.todo)) = ToSet(r.todo) \ {Head(r.todo)} /\ r.at = None
      BY <1>1, <2>1, HeadFacts DEF Fits, AtHand
  <2>4. \A m \in Message : Covers(r, source, m) => Covers(x, source, m)
      BY <1>2, <2>2, <2>3 DEF Covers, Same, Settled, Handled
  <2>. QED  BY <1>1, <2>1, <2>2, <2>4, LeftQuietly DEF Same, UnderWay
<1>6. CASE CreateSource(p)
  <2>1. UNCHANGED <<account, source, skipped>> /\ r.pc = "create"
      BY <1>6 DEF CreateSource
  <2>2. Same(x, r) /\ x.todo = r.todo /\ x.at = r.at
      BY <1>6, CreateSourceMoves, CurrentStep DEF Continue
  <2>3. \A m \in Message : Covers(r, source, m) => Covers(x, source, m)
      BY <2>2 DEF Covers, Same
  <2>. QED  BY <1>1, <2>1, <2>2, <2>3, LeftQuietly DEF Same, UnderWay, AtHand
<1>7. CASE InsertSource(p)
  <2>1. UNCHANGED <<account, skipped, now, arrived>> /\ r.pc = "insert"
      BY <1>7 DEF InsertSource
  <2>2. /\ x.at = r.at /\ x.todo = r.todo /\ x.current = r.current
        /\ source[r.at] = None
        /\ \A m \in Message : m # r.at => source'[m] = IF r.src[m] # None THEN r.src[m]
                                                       ELSE source[m]
      BY <1>7, InsertSourceMoves
  <2>3. ASSUME NEW m \in Message, m # r.at, Settled(source, m) \/ r.src[m] # None
        PROVE  Settled(source', m)
      BY <2>2, <2>3, SettledByCommit
  <2>4. \A m \in Message : Settled(source, m) => m # r.at /\ Settled(source', m)
      BY <2>2, <2>3, ConstantTypes DEF Settled, SourceStatus
  <2>5. \A m \in Message : Covers(r, source, m) => Covers(x, source', m)
      BY <2>2, <2>3, <2>4 DEF Covers
  <2>6. \A m \in Message \ skipped' :
            Before(m, x.current) => Covers(x, source', m)
      BY <2>1, <2>2, <2>5 DEF LeftInv, AtHand
  <2>. QED  BY <1>1, <2>1, <2>4, <2>6, LeftStep
<1>8. CASE Classify(p)
  <2>1. UNCHANGED <<account, source, skipped>> /\ r.pc = "decide"
      BY <1>8 DEF Classify
  <2>2. PICK status \in {"PROCESSED", "IGNORED", "FAILED"} : Decides(x, r, Written(r, status))
      BY <1>8, ClassifyMoves
  <2>3. Written(r, status) # None \/ Settled(source, r.at)
      BY <2>1, <2>2, ConstantTypes DEF Current, Written, Settled, SourceStatus
  <2>4. \A m \in Message : Covers(r, source, m) => Covers(x, source, m)
      BY <1>2, <2>2, <2>3 DEF Covers, Decides
  <2>. QED  BY <1>1, <2>1, <2>2, <2>4, LeftQuietly DEF Decides, UnderWay, AtHand
<1>9. CASE Reject(p)
  <2>1. UNCHANGED <<account, source, skipped>> /\ r.pc = "reject"
      BY <1>9 DEF Reject
  <2>2. Decides(x, r, "FAILED") /\ "FAILED" # None
      BY <1>9, RejectMoves, ConstantTypes DEF SourceStatus
  <2>3. \A m \in Message : Covers(r, source, m) => Covers(x, source, m)
      BY <1>2, <2>2 DEF Covers, Decides
  <2>. QED  BY <1>1, <2>1, <2>2, <2>3, LeftQuietly DEF Decides, UnderWay, AtHand
<1>10. CASE Extract(p)
  <2>1. UNCHANGED <<account, source, skipped>> /\ r.pc = "decide"
      BY <1>10 DEF Extract
  <2>2. /\ x.at = r.at /\ x.todo = r.todo /\ x.current = r.current
        /\ x.src = [r.src EXCEPT ![r.at] = Written(r, "PROCESSED")]
      BY <1>10, ExtractMoves
  <2>3. \A m \in Message : Covers(r, source, m) => Covers(x, source, m)
      BY <1>2, <2>2 DEF Covers
  <2>. QED  BY <1>1, <2>1, <2>2, <2>3, LeftQuietly DEF UnderWay, AtHand
<1>11. CASE Notify(p)
  <2>1. UNCHANGED <<account, source, skipped>> /\ r.pc = "notify"
      BY <1>11 DEF Notify
  <2>2. x.todo = r.todo /\ x.current = r.current /\ x.src = r.src
      BY <1>11, NotifyMoves
  <2>3. r.src[r.at] # None
      BY <2>1, ConstantTypes DEF Current, SourceStatus
  <2>4. \A m \in Message : Covers(r, source, m) => Covers(x, source, m)
      BY <2>2, <2>3 DEF Covers
  <2>. QED  BY <1>1, <2>1, <2>2, <2>4, LeftQuietly DEF UnderWay, AtHand
<1>12. CASE EndSync(p)
  <2>1. /\ UNCHANGED <<skipped, now, arrived>> /\ r.pc = "next" /\ r.todo = <<>>
      BY <1>12 DEF EndSync
  <2>2. /\ Ended(x) /\ account'.polledAt = r.current
        /\ \A m \in Message : source'[m] = IF r.src[m] # None THEN r.src[m] ELSE source[m]
      BY <1>12, EndSyncMoves
  <2>3. r.at = None /\ r.current <= now
      BY <1>1, <2>1, SessionFacts DEF Fits, AtHand
  <2>4. \A m \in Message : Settled(source, m) \/ r.src[m] # None => Settled(source', m)
      BY <2>2, SettledByCommit
  <2>5. \A m \in Message : Covers(r, source, m) => Settled(source', m)
      BY <1>2, <2>1, <2>3, <2>4, EmptyListFacts DEF Covers
  <2>6. \A m \in Message \ skipped' : Before(m, account.polledAt)' => Settled(source', m)
      BY <2>1, <2>2, <2>5 DEF LeftInv, Before
  <2>7. poll \in [Poller -> Session]
      BY DEF TypeInv, TypeOK
  <2>8. \A q \in Poller \ {p} : poll'[q] = poll[q]
      BY <1>1, <2>7 DEF SessionMoves
  <2>9. ASSUME NEW m \in Message \ skipped', NEW q \in Poller,
               UnderWay(poll'[q]), Before(m, poll[q].current)'
        PROVE  Covers(poll'[q], source', m)
    <3>1. q # p
        BY <2>2, <2>9 DEF Ended, UnderWay, AtHand
    <3>2. Covers(poll[q], source, m) /\ poll'[q] = poll[q]
        BY <2>1, <2>8, <2>9, <3>1 DEF LeftInv, Before, UnderWay
    <3>. QED  BY <2>4, <3>2 DEF Covers
  <2>10. account'.polledAt <= now'
      BY <2>1, <2>2, <2>3
  <2>. QED  BY <2>6, <2>9, <2>10 DEF LeftInv, UnderWay
<1>13. CASE MarkAccountError(p)
  <2>1. account'.polledAt = account.polledAt /\ source' = source /\ skipped' = skipped
      BY <1>13 DEF MarkAccountError, TypeInv, TypeOK
  <2>2. ~ UnderWay(x)
      BY <1>13, MarkAccountErrorMoves DEF Ended, UnderWay, AtHand
  <2>. QED  BY <1>1, <2>1, <2>2, LeftEnded
<1>14. CASE CallFails(p) \/ ExpiredFails(p) \/ Crash(p)
  <2>1. Aborts(p) /\ Ended(x)
      BY <1>14, WhatAborts, AbortsMoves
  <2>. QED  BY <1>1, <2>1, LeftEnded DEF Aborts, Ended, UnderWay, AtHand
<1>15. CASE NotifyFails(p)
  <2>1. RecordFailure(p) /\ UNCHANGED <<account, skipped>>
      BY <1>15 DEF NotifyFails
  <2>2. ~ UnderWay(x)
      BY <1>15, NotifyFailsMoves DEF Ended, UnderWay, AtHand
  <2>. QED  BY <1>1, <2>1, <2>2, FailureFacts, LeftEnded
<1>16. CASE NotifyGarbled(p)
  <2>1. RecordFailure(p) /\ UNCHANGED <<account, skipped, now, arrived>>
      BY <1>16 DEF NotifyGarbled
  <2>2. x.at = r.at /\ x.todo = r.todo /\ x.current = r.current
      BY <1>16, NotifyGarbledMoves
  <2>3. /\ r.pc = "notify"
        /\ \A m \in Message : source'[m] = IF r.src[m] # None THEN r.src[m] ELSE source[m]
      BY <2>1, FailureFacts
  <2>4. \A m \in Message : Settled(source, m) \/ r.src[m] # None => Settled(source', m)
      BY <2>3, SettledByCommit
  <2>5. \A m \in Message : Covers(r, source, m) => Covers(x, source', m)
      BY <2>2, <2>4 DEF Covers
  <2>6. \A m \in Message \ skipped' :
            Before(m, x.current) => Covers(x, source', m)
      BY <2>1, <2>2, <2>3, <2>5 DEF LeftInv, AtHand
  <2>. QED  BY <1>1, <2>1, <2>4, <2>6, LeftStep
<1>17. CASE SkipGarbled(p)
  <2>1. UNCHANGED <<account, source>> /\ r.pc = "next" /\ r.todo # <<>>
      BY <1>17 DEF SkipGarbled
  <2>2. /\ x.todo = Tail(r.todo) /\ x.current = r.current
        /\ skipped' = skipped \cup {Head(r.todo)}
        /\ \A m \in Message : x.src[m] # None <=> r.src[m] # None
      BY <1>17, SkipGarbledMoves DEF Passes
  <2>3. ToSet(Tail(r.todo)) = ToSet(r.todo) \ {Head(r.todo)} /\ r.at = None
      BY <1>1, <2>1, HeadFacts DEF Fits, AtHand
  <2>4. \A m \in Message \ skipped' : Covers(r, source, m) => Covers(x, source, m)
      BY <1>2, <2>2, <2>3 DEF Covers
  <2>. QED  BY <1>1, <2>1, <2>2, <2>4, LeftQuietly DEF UnderWay
<1>18. ~ InsertDuplicate(p)
    BY DEF InsertDuplicate, Current
<1>. HIDE DEF r, x
<1>. QED  BY <1>3, <1>4, <1>5, <1>6, <1>7, <1>8, <1>9, <1>10, <1>11, <1>12, <1>13, <1>14,
             <1>15, <1>16, <1>17, <1>18 DEF Proceeds, Continue

LEMMA LeftNext ==
    ASSUME TypeInv, ~ overlapped => CurrentAll /\ LeftInv, [Next]_vars
    PROVE  (~ overlapped => LeftInv)'
<1>1. CASE UNCHANGED vars \/ Reconnect
  <2>1. /\ UNCHANGED <<poll, source, arrived, now, skipped, overlapped>>
        /\ account'.polledAt = account.polledAt
      BY <1>1 DEF vars, Reconnect, TypeInv, TypeOK
  <2>. QED  BY <2>1 DEF LeftInv, Before
<1>2. CASE Tick
  <2>1. UNCHANGED <<poll, source, arrived, account, skipped, overlapped>> /\ now' = now + 1
      BY <1>2 DEF Tick
  <2>2. now \in Nat /\ account.polledAt \in Time \cup {None}
      BY NowType DEF TypeInv, TypeOK
  <2>3. account.polledAt # None /\ account.polledAt <= now => account.polledAt <= now'
      BY <2>1, <2>2, ConstantTypes
  <2>. QED  BY <2>1, <2>3 DEF LeftInv, Before
<1>3. ASSUME NEW n \in Message, Arrive(n), ~ overlapped'
      PROVE  LeftInv'
  <2>1. /\ UNCHANGED <<poll, source, account, skipped, overlapped, now>>
        /\ arrived' = [arrived EXCEPT ![n] = now]
      BY <1>3 DEF Arrive
  <2>2. arrived \in [Message -> Time \cup {None}] /\ LeftInv /\ now \in Nat
      BY <1>3, <2>1, NowType DEF TypeInv, TypeOK
  <2>3. ASSUME NEW m \in Message, NEW t \in Time \cup {None}, t # None => t <= now,
               arrived'[m] # None, t # None, arrived'[m] < t
        PROVE  Before(m, t)
    <3>1. m # n
        BY <2>1, <2>2, <2>3, ConstantTypes
    <3>. QED  BY <2>1, <2>2, <2>3, <3>1 DEF Before
  <2>4. \A q \in Poller : poll[q].current \in Time /\ poll[q].current <= now
      BY SessionFacts DEF Session
  <2>5. /\ account.polledAt \in Time \cup {None}
        /\ account.polledAt # None => account.polledAt <= now
      BY <2>2 DEF LeftInv, TypeInv, TypeOK
  <2>6. ASSUME NEW m \in Message \ skipped
        PROVE  /\ Before(m, account.polledAt)' => Before(m, account.polledAt)
               /\ \A q \in Poller :
                     Before(m, poll[q].current)' => Before(m, poll[q].current)
      BY <2>1, <2>3, <2>4, <2>5 DEF Before
  <2>. QED  BY <2>1, <2>2, <2>6 DEF LeftInv
<1>4. ASSUME NEW p \in Poller, StartPoll(p), ~ overlapped'
      PROVE  LeftInv'
  <2>1. /\ ~ overlapped /\ SessionMoves(p) /\ RowsOK' /\ poll'[p].pc = "token"
        /\ UNCHANGED <<account, source, skipped>>
      BY <1>4, StartFacts
  <2>. QED  BY <2>1, LeftEnded DEF UnderWay, AtHand
<1>5. ASSUME NEW p \in Poller, Proceeds(p), ~ overlapped'
      PROVE  LeftInv'
    BY <1>5, ProceedFacts, LeftProceeds DEF CurrentAll
<1>. QED  BY <1>1, <1>2, <1>3, <1>4, <1>5 DEF Next, Proceeds

-----------------------------------------------------------------------------
\* The theorems about polls that do not overlap.

LEMMA SoloInit ==
    ASSUME Init
    PROVE  RecordedInv /\ SoloInv
<1>1. \A p \in Poller : poll[p] = NoPoll
    BY DEF Init
<1>2. /\ NoPoll.pc = "idle" /\ NoPoll.shown = {} /\ NoPoll.expired = FALSE
      /\ \A m \in Message : NoPoll.src[m] = None
    BY NothingWritten DEF NoPoll
<1>. HIDE DEF NoPoll
<1>3. RecordedInv
    BY DEF Init, RecordedInv
<1>4. Alone /\ CurrentAll
    BY <1>1, <1>2 DEF Alone, CurrentAll, Current
<1>5. \A m \in Message : told[m] <= Limit(m)
    BY ConstantTypes DEF Init, Limit, Handled, SourceStatus
<1>6. CountInv
    BY <1>1, <1>2, <1>5, CountsOfBlank DEF CountInv
<1>7. LeftInv
    BY DEF Init, LeftInv, Before
<1>. QED  BY <1>3, <1>4, <1>6, <1>7 DEF SoloInv

LEMMA SoloNext ==
    ASSUME TypeInv, SoloInv, [Next]_vars
    PROVE  SoloInv'
    BY AloneNext, CountNext, LeftNext DEF SoloInv

\* While polls do not overlap, what was recorded as shown is on record, and the
\* owner sees a candidate a second time only if the first was never recorded.
THEOREM CandidatesShownOnce == Spec => []ShownOnce
<1>1. TypeInv /\ RecordedInv /\ SoloInv /\ [Next]_vars
          => (TypeInv /\ RecordedInv /\ SoloInv)'
    BY TypeNext, RecordedNext, SoloNext
<1>2. TypeInv /\ RecordedInv /\ SoloInv => ShownOnce
  <2>1. SUFFICES ASSUME TypeInv, RecordedInv, CountInv, NEW m \in Message
                 PROVE  /\ skipped = {} => told[m] <= 1 + lost[m]
                        /\ told[m] > lost[m] + InFlight(m) => candidate[m] # None
      BY DEF ShownOnce, SoloInv
  <2>2. told[m] \in Nat /\ lost[m] \in Nat
      BY <2>1 DEF TypeInv, TypeOK
  <2>3. skipped = {} => told[m] <= Limit(m)
      BY <2>1 DEF CountInv
  <2>4. skipped = {} => told[m] <= 1 + lost[m]
      BY <2>2, <2>3 DEF Limit
  <2>. QED  BY <2>1, <2>4, InFlightIs DEF RecordedInv
<1>. QED  BY <1>1, <1>2, TypeInit, SoloInit, PTL DEF Spec

\* While polls do not overlap, a mail that came before the time the next poll
\* lists from was decided about, unless a garbled answer made a poll pass it over.
THEOREM NoMailIsLeftBehind == Spec => []NothingLeftBehind
<1>1. TypeInv /\ SoloInv /\ [Next]_vars => (TypeInv /\ SoloInv)'
    BY TypeNext, SoloNext
<1>2. SoloInv => NothingLeftBehind
    BY DEF SoloInv, LeftInv, Before, Settled, NothingLeftBehind
<1>. QED  BY <1>1, <1>2, TypeInit, SoloInit, PTL DEF Spec
=============================================================================
