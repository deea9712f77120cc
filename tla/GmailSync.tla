----------------------------- MODULE GmailSync -----------------------------
(***************************************************************************)
(* Gmail (app/jobs/gmail.py, app/integrations/gmail/service.py): polls of  *)
(* one mailbox, from the worker's loop and on demand (POST                 *)
(* /integrations/gmail/poll, the bot's /gmail_check), which may overlap.   *)
(*                                                                         *)
(* A poll lists the messages since last_polled_at, stores each as a source *)
(* message, asks the rules and the LLM what it is, and shows a task        *)
(* candidate to the owner in Telegram.  One database session serves the    *)
(* whole poll: storing a message commits it, everything decided about a    *)
(* message waits for the next commit (the next message stored, or the end  *)
(* of the poll), and is lost when an exception ends the poll first.        *)
(*                                                                         *)
(* A message is a number, in the order of arrival: Gmail lists the newest  *)
(* first.  What the LLM answers is chosen anew in every attempt.           *)
(***************************************************************************)
EXTENDS Integers, FiniteSets, SequencesExt

CONSTANTS
    Message,      \* the mails that arrive: 1..n
    Filtered,     \* those a sender list or a rule ignores
    Cooldown,     \* user_settings.gmail_poll_minutes, in ticks
    Poller,       \* the loop and the manual triggers
    Loop,         \* the poller that is the loop
    MaxTime,      \* bound: ticks
    Budget,       \* bound: how often each kind of outside event happens
    None          \* no row, no value

SourceStatus == {"NEW", "PROCESSED", "IGNORED", "FAILED"}
Candidate == [status : {"PENDING", "NOTIFIED"}, error : BOOLEAN]
Time == 0..MaxTime
Events == {"manual", "reconnect", "fault"}

ASSUME ConstantsAssumption ==
    /\ IsFiniteSet(Message) /\ Message = 1..Cardinality(Message)
    /\ Filtered \subseteq Message
    /\ Loop \in Poller
    /\ {Cooldown, MaxTime} \subseteq Nat
    /\ Budget \in [Events -> Nat]
    /\ None \notin Int \cup SourceStatus \cup Candidate

VARIABLES
    now,       \* the current tick
    arrived,   \* when each mail came to the mailbox, None before
    account,   \* the integration account: status and last_polled_at
    source,    \* committed status of each mail's source message
    candidate, \* committed task candidate of each mail
    poll,      \* each poller's session
    told,      \* candidate messages the owner got, per mail
    lost,      \* of those, the ones no session recorded as shown
    skipped,   \* mails whose garbled answer made a poll pass them over
    overlapped, \* two polls have been under way at once
    budget     \* bound: outside events left
vars == <<now, arrived, account, source, candidate, poll, told, lost,
          skipped, overlapped, budget>>

\* A session: what it is doing, the time of the poll and the start of the
\* listing, the mails left, the one at hand with the status it was loaded
\* with, the mail whose row the variable `source` is bound to, rows it holds
\* locked, uncommitted statuses and candidates, mails shown since the last
\* commit, and whether a rollback has expired its objects.  (The poll runs, a
\* history for the dashboard, are left out.)
Unbound == 0
NoPoll == [pc |-> "idle", current |-> 0, since |-> None, todo |-> <<>>, at |-> None,
           loaded |-> None, bound |-> Unbound, locks |-> {}, src |-> [m \in Message |-> None],
           cand |-> [m \in Message |-> None], shown |-> {},
           expired |-> FALSE]

Init ==
    /\ now = 0
    /\ arrived = [m \in Message |-> None]
    /\ account = [status |-> "CONNECTED", polledAt |-> None]
    /\ source = [m \in Message |-> None]
    /\ candidate = [m \in Message |-> None]
    /\ poll = [p \in Poller |-> NoPoll]
    /\ told = [m \in Message |-> 0]
    /\ lost = [m \in Message |-> 0]
    /\ skipped = {}
    /\ overlapped = FALSE
    /\ budget = Budget

Spend(event) ==
    /\ budget[event] > 0
    /\ budget' = [budget EXCEPT ![event] = @ - 1]

-----------------------------------------------------------------------------
\* The mailbox and the owner.

Arrive(m) ==
    /\ arrived[m] = None
    /\ \A n \in Message : n < m => arrived[n] # None
    /\ arrived' = [arrived EXCEPT ![m] = now]
    /\ UNCHANGED <<now, account, source, candidate, poll, told, lost,
                   overlapped, budget, skipped>>

\* The owner authorizes the account again (gmail_callback).
Reconnect ==
    /\ account.status = "ERROR"
    /\ Spend("reconnect")
    /\ account' = [account EXCEPT !.status = "CONNECTED"]
    /\ UNCHANGED <<now, arrived, source, candidate, poll, told, lost,
                   overlapped, skipped>>

Tick ==
    /\ now < MaxTime
    /\ now' = now + 1
    /\ UNCHANGED <<arrived, account, source, candidate, poll, told, lost,
                   overlapped, budget, skipped>>

-----------------------------------------------------------------------------
\* poll_gmail_accounts up to the listing.

CooledDown == account.polledAt # None => account.polledAt <= now - Cooldown

StartPoll(p) ==
    /\ poll[p].pc = "idle"
    /\ account.status = "CONNECTED"
    /\ IF p = Loop THEN CooledDown /\ UNCHANGED budget ELSE Spend("manual")
    /\ poll' = [poll EXCEPT ![p] = [NoPoll EXCEPT !.pc = "token",
                  !.current = now, !.since = account.polledAt]]
    /\ overlapped' = (overlapped \/ \E q \in Poller : poll[q].pc # "idle")
    /\ UNCHANGED <<now, arrived, account, source, candidate, told, lost,
                   skipped>>

GoOn(s) == [s EXCEPT !.pc = "next", !.at = None, !.loaded = None]
Goto(p, pc) == poll' = [poll EXCEPT ![p].pc = pc]

\* _access_token: the stored one, or a new one, which saves the account.
GetToken(p) ==
    /\ poll[p].pc = "token"
    /\ account' \in {account, [account EXCEPT !.status = "CONNECTED"]}
    /\ Goto(p, "list")
    /\ UNCHANGED <<now, arrived, source, candidate, told, lost, overlapped,
                   budget, skipped>>

\* "after:" takes seconds, and the mails of that second are listed again.
Lists(m, since) ==
    arrived[m] # None /\ (since = None \/ arrived[m] >= since)

\* The ids come, and are gone through, in the order Gmail lists them: newest
\* first.  (Variant: the manual poll takes the oldest mail first.)
LoopTakesNewest(p, m, n) == IF p = Loop THEN m > n ELSE m < n
ComesFirst(p, m, n) == m > n

ListMessages(p) ==
    /\ poll[p].pc = "list"
    /\ LET listed == {m \in Message : Lists(m, poll[p].since)}
       IN poll' = [poll EXCEPT ![p] = [@ EXCEPT !.pc = "next", !.since = None,
              !.todo = CHOOSE s \in SetToSeqs(listed) :
                  \A i, j \in DOMAIN s : i < j => ComesFirst(p, s[i], s[j])]]
    /\ UNCHANGED <<now, arrived, account, source, candidate, told, lost,
                   overlapped, budget, skipped>>

-----------------------------------------------------------------------------
\* Transactions.  Rows written by another session's open one are locked.

LockedByOther(p, m) == \E q \in Poller \ {p} : m \in poll[q].locks

Over(new, old) == [m \in Message |-> IF new[m] = None THEN old[m] ELSE new[m]]
Clean(s) == [s EXCEPT !.locks = {}, !.shown = {}, !.src = NoPoll.src,
                      !.cand = NoPoll.cand]

\* What a session has written is committed with the source rows "stored".
CommitSession(p, stored) ==
    /\ source' = Over(stored, Over(poll[p].src, source))
    /\ candidate' = Over(poll[p].cand, candidate)

\* ... or rolled back, and what it showed the owner is not on record.
Rollback(p) ==
    lost' = [m \in Message |-> lost[m] + IF m \in poll[p].shown THEN 1 ELSE 0]

-----------------------------------------------------------------------------
\* GmailInboxService.sync_account, one message at a time.

\* Variant: only a filtered mail is done with.
HandledIgnored == {"IGNORED"}
Handled == {"PROCESSED", "IGNORED"}

\* find_source_message: a mail already handled is a duplicate.
NextMessage(p) ==
    /\ poll[p].pc = "next" /\ poll[p].todo # <<>> /\ ~ poll[p].expired
    /\ LET m == Head(poll[p].todo)
           rest == Tail(poll[p].todo) IN
       poll' = [poll EXCEPT ![p] =
                  IF source[m] \in Handled
                  THEN [@ EXCEPT !.todo = rest]
                  ELSE [@ EXCEPT !.todo = rest, !.at = m,
                          !.loaded = source[m],
                          !.bound = IF source[m] = None THEN None ELSE m,
                          !.pc = IF source[m] = None THEN "create" ELSE "decide"]]
    /\ UNCHANGED <<now, arrived, account, source, candidate, told, lost,
                   overlapped, budget, skipped>>

\* The answer about a mail is no JSON: the ValueError is taken for one of
\* parsing, and the row `source` is still bound to, that of an earlier mail,
\* is marked FAILED.  (An unbound `source` raises: CallFails.)
SkipGarbled(p) ==
    LET m == Head(poll[p].todo)
        b == poll[p].bound
        src == poll[p].src
    IN
    /\ poll[p].pc = "next" /\ poll[p].todo # <<>> /\ ~ poll[p].expired
    /\ source[m] \notin Handled
    /\ b # Unbound
    /\ Spend("fault")
    /\ skipped' = skipped \cup {m}
    /\ poll' = [poll EXCEPT ![p] =
                  [@ EXCEPT !.todo = Tail(poll[p].todo),
                     !.src = [n \in Message |->
                        IF n = b /\ src[n] # None THEN "FAILED" ELSE src[n]]]]
    /\ UNCHANGED <<now, arrived, account, source, candidate, told, lost,
                   overlapped>>

\* create_source_message: another poll stored the mail since it was looked for.
CreateSource(p) ==
    /\ poll[p].pc = "create"
    /\ IF source[poll[p].at] = None
       THEN Goto(p, "insert")
       ELSE poll' = [poll EXCEPT ![p] = GoOn(@)]
    /\ UNCHANGED <<now, arrived, account, source, candidate, told, lost,
                   overlapped, budget, skipped>>

InsertSource(p) ==
    LET m == poll[p].at IN
    /\ poll[p].pc = "insert"
    /\ source[m] = None
    /\ CommitSession(p, [NoPoll.src EXCEPT ![m] = "NEW"])
    /\ poll' = [poll EXCEPT ![p] =
                  [Clean(@) EXCEPT !.pc = "decide", !.loaded = "NEW", !.bound = m]]
    /\ UNCHANGED <<now, arrived, account, told, lost, overlapped, budget,
                   skipped>>

\* ... or while it was inserted: IntegrityError rolls the whole session back.
InsertDuplicate(p) ==
    /\ poll[p].pc = "insert"
    /\ source[poll[p].at] # None
    /\ Rollback(p)
    /\ poll' = [poll EXCEPT ![p] =
                  [GoOn(Clean(@)) EXCEPT !.expired = TRUE]]
    /\ UNCHANGED <<now, arrived, account, source, candidate, told, overlapped,
                   budget, skipped>>

\* A column is written when it differs from what the session loaded.
Written(s, status) == IF status = s.loaded THEN None ELSE status

\* Variant: a mail without a task stays as it was stored.
OutcomesNew(m) == {"IGNORED", "NEW", "FAILED"}
\* Variant: an unparsable mail gets the status integration accounts have.
OutcomesError(m) == IF m \in Filtered THEN {"IGNORED"} ELSE {"PROCESSED", "ERROR"}
\* Without a candidate: ignored by a rule, no task in it, or unparsable.
Outcomes(m) == IF m \in Filtered THEN {"IGNORED"} ELSE {"PROCESSED", "FAILED"}

Classify(p) ==
    LET m == poll[p].at IN
    /\ poll[p].pc = "decide" /\ ~ LockedByOther(p, m)
    /\ \E status \in Outcomes(m) :
          poll' = [poll EXCEPT ![p] = [GoOn(@) EXCEPT
                     !.locks = poll[p].locks \cup {m},
                     !.src[m] = Written(poll[p], status)]]
    /\ UNCHANGED <<now, arrived, account, source, candidate, told, lost,
                   overlapped, budget, skipped>>

\* A task, delegation or awaited result: upsert_task_candidate.
Extract(p) ==
    LET m == poll[p].at IN
    /\ poll[p].pc = "decide" /\ ~ LockedByOther(p, m)
    /\ m \notin Filtered
    /\ poll' = [poll EXCEPT ![p] = [@ EXCEPT !.pc = "notify",
                  !.locks = poll[p].locks \cup {m},
                  !.src[m] = Written(poll[p], "PROCESSED"),
                  !.cand[m] = IF candidate[m] # None THEN candidate[m]
                              ELSE [status |-> "PENDING", error |-> FALSE]]]
    /\ UNCHANGED <<now, arrived, account, source, candidate, told, lost,
                   overlapped, budget, skipped>>

Notify(p) ==
    LET m == poll[p].at IN
    /\ poll[p].pc = "notify"
    /\ told' = [told EXCEPT ![m] = @ + 1]
    /\ poll' = [poll EXCEPT ![p] = [GoOn(@) EXCEPT
                  !.shown = poll[p].shown \cup {m},
                  !.cand[m] = [status |-> "NOTIFIED", error |-> FALSE]]]
    /\ UNCHANGED <<now, arrived, account, source, candidate, lost, overlapped,
                   budget, skipped>>

\* Variant: a failed notification leaves no trace.
NotFlagged(s, m) == s.cand[m]
Flagged(s, m) == [s.cand[m] EXCEPT !.error = TRUE]

\* notify_candidate raises: the error is recorded and committed with all that
\* was open.
RecordFailure(p) ==
    LET m == poll[p].at IN
    /\ poll[p].pc = "notify"
    /\ Spend("fault")
    /\ source' = Over(poll[p].src, source)
    /\ candidate' = [Over(poll[p].cand, candidate) EXCEPT ![m] = Flagged(poll[p], m)]

\* The message did not arrive, or its answer was lost; the exception ends the
\* poll.
NotifyFails(p) ==
    LET m == poll[p].at IN
    /\ RecordFailure(p)
    /\ \E came \in {0, 1} : told' = [told EXCEPT ![m] = @ + came]
    /\ poll' = [poll EXCEPT ![p] = [NoPoll EXCEPT !.pc = "failing"]]
    /\ UNCHANGED <<now, arrived, account, lost, overlapped, skipped>>

\* Telegram's answer is no JSON: the ValueError is taken for one of parsing,
\* and the poll goes on.
NotifyGarbled(p) ==
    LET m == poll[p].at IN
    /\ RecordFailure(p)
    /\ \E came \in {0, 1} :
          /\ told' = [told EXCEPT ![m] = @ + came]
          /\ lost' = [lost EXCEPT ![m] = @ + came]
    /\ poll' = [poll EXCEPT ![p] = [Clean(@) EXCEPT !.pc = "reject"]]
    /\ UNCHANGED <<now, arrived, account, overlapped, skipped>>

Reject(p) ==
    LET m == poll[p].at IN
    /\ poll[p].pc = "reject" /\ ~ LockedByOther(p, m)
    /\ poll' = [poll EXCEPT ![p] = [GoOn(@) EXCEPT
                  !.locks = poll[p].locks \cup {m}, !.src[m] = "FAILED"]]
    /\ UNCHANGED <<now, arrived, account, source, candidate, told, lost,
                   overlapped, budget, skipped>>

\* Variant: the next poll starts where this one ended.
PolledUntilNow(p) == now
PolledUntil(p) == poll[p].current

EndSync(p) ==
    /\ poll[p].pc = "next" /\ poll[p].todo = <<>>
    /\ CommitSession(p, NoPoll.src)
    /\ account' = [account EXCEPT !.polledAt = PolledUntil(p)]
    /\ poll' = [poll EXCEPT ![p] = NoPoll]
    /\ UNCHANGED <<now, arrived, told, lost, overlapped, budget, skipped>>

-----------------------------------------------------------------------------
\* How a poll ends.

Raise(p) ==
    /\ Rollback(p)
    /\ poll' = [poll EXCEPT ![p] = [NoPoll EXCEPT !.pc = "failing"]]
    /\ UNCHANGED <<now, arrived, account, source, candidate, told, overlapped,
                   skipped>>

\* Google, Gmail, the LLM provider or the database fails.
CallFails(p) ==
    /\ poll[p].pc \in {"token", "list", "next", "create", "insert", "decide"}
    /\ Spend("fault")
    /\ Raise(p)

\* After the rollback of a duplicate the session cannot load its objects.
ExpiredFails(p) ==
    /\ poll[p].pc = "next" /\ poll[p].todo # <<>> /\ poll[p].expired
    /\ Raise(p)
    /\ UNCHANGED budget

\* The session is over; a new one marks the account.
MarkAccountError(p) ==
    /\ poll[p].pc = "failing"
    /\ account' = [account EXCEPT !.status = "ERROR"]
    /\ poll' = [poll EXCEPT ![p] = NoPoll]
    /\ UNCHANGED <<now, arrived, source, candidate, told, lost, overlapped,
                   budget, skipped>>

Crash(p) ==
    /\ poll[p].pc # "idle"
    /\ Spend("fault")
    /\ Rollback(p)
    /\ poll' = [poll EXCEPT ![p] = NoPoll]
    /\ UNCHANGED <<now, arrived, account, source, candidate, told, overlapped,
                   skipped>>

Continue(p) ==
    \/ GetToken(p) \/ ListMessages(p) \/ NextMessage(p) \/ CreateSource(p)
    \/ InsertSource(p) \/ InsertDuplicate(p) \/ Classify(p) \/ Extract(p)
    \/ Notify(p) \/ Reject(p) \/ EndSync(p) \/ ExpiredFails(p)
    \/ MarkAccountError(p)

Next ==
    \/ \E m \in Message : Arrive(m)
    \/ Reconnect \/ Tick
    \/ \E p \in Poller : StartPoll(p) \/ Continue(p) \/ SkipGarbled(p)
                         \/ NotifyFails(p) \/ NotifyGarbled(p)
                         \/ CallFails(p) \/ Crash(p)

\* The worker runs its loop and a poll under way goes on; nothing makes the
\* owner reconnect or a mail arrive.
Spec ==
    /\ Init /\ [][Next]_vars
    /\ WF_vars(Tick)
    /\ WF_vars(StartPoll(Loop))
    /\ \A p \in Poller : WF_vars(Continue(p))

-----------------------------------------------------------------------------
\* Every variable has its type, and what a session has not committed is
\* locked against the other polls, one poll per row.
Session == [pc : {"idle", "token", "list", "next", "create", "insert",
                  "decide", "notify", "reject", "failing"},
            current : Time, since : Time \cup {None},
            todo : Seq(Message), at : Message \cup {None},
            loaded : SourceStatus \cup {None},
            bound : Message \cup {Unbound, None}, locks : SUBSET Message,
            src : [Message -> SourceStatus \cup {None}],
            cand : [Message -> Candidate \cup {None}],
            shown : SUBSET Message, expired : BOOLEAN]
TypeOK ==
    /\ now \in Time
    /\ arrived \in [Message -> Time \cup {None}]
    /\ account \in [status : {"CONNECTED", "ERROR"}, polledAt : Time \cup {None}]
    /\ source \in [Message -> SourceStatus \cup {None}]
    /\ candidate \in [Message -> Candidate \cup {None}]
    /\ \A m \in Message : candidate[m] # None => source[m] # None
    /\ poll \in [Poller -> Session]
    /\ \A p \in Poller, m \in Message :
          /\ poll[p].src[m] # None \/ poll[p].cand[m] # None \/ m \in poll[p].shown
                => m \in poll[p].locks
          /\ m \in poll[p].locks => ~ LockedByOther(p, m)
    /\ told \in [Message -> Nat] /\ lost \in [Message -> Nat]
    /\ skipped \subseteq Message
    /\ overlapped \in BOOLEAN
    /\ budget \in [Events -> Nat]

\* A candidate on record is one the owner was shown, or its failed
\* notification is on record with it: none waits unseen and unexplained.
CandidateShownOrFlagged ==
    \A m \in Message :
        candidate[m] # None => told[m] > 0 \/ candidate[m].error

\* As long as polls do not overlap, what was recorded as shown is there to be
\* confirmed, and the owner sees a candidate a second time only if the first
\* time was never recorded (or a garbled answer about the next mail of the poll
\* made the mail FAILED after it was shown).
InFlight(m) == Cardinality({p \in Poller : m \in poll[p].shown})
ShownOnce ==
    ~ overlapped => \A m \in Message :
        /\ skipped = {} => told[m] <= 1 + lost[m]
        /\ told[m] > lost[m] + InFlight(m) => candidate[m] # None

\* As long as polls do not overlap, no mail is left behind: one that came
\* before the time the next poll lists from was stored and decided about,
\* unless a garbled answer made a poll pass it over.
NothingLeftBehind ==
    ~ overlapped => \A m \in Message :
        /\ arrived[m] # None /\ account.polledAt # None
        /\ arrived[m] < account.polledAt /\ m \notin skipped
        => source[m] \in {"PROCESSED", "IGNORED", "FAILED"}

\* A poll ends, whatever rows another one holds locked in the meantime.
EveryPollEnds == \A p \in Poller : poll[p].pc # "idle" ~> poll[p].pc = "idle"

\* A mail that comes in time for another poll is handled, unless a failure
\* has put the account into ERROR, a garbled answer made a poll pass it over
\* or polls have overlapped.
MailIsHandled ==
    \A m \in Message :
        arrived[m] # None /\ arrived[m] <= MaxTime - Cooldown
            ~> \/ source[m] \in {"PROCESSED", "IGNORED", "FAILED"}
               \/ account.status = "ERROR" \/ m \in skipped \/ overlapped
=============================================================================
