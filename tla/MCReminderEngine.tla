--------------------------- MODULE MCReminderEngine ---------------------------
(***************************************************************************)
(* ReminderEngine with a day of five ticks: 0 and 3, 4 are quiet hours in  *)
(* most runs, one hour is one tick, retries come one tick later.           *)
(***************************************************************************)
EXTENDS ReminderEngine

Delays == <<1, 1, 2>>

NoEvents == [event \in Events |-> 0]
Edited == [NoEvents EXCEPT !["edit"] = 1, !["failure"] = 3, !["fault"] = 1]
Snoozed == [NoEvents EXCEPT !["snooze"] = 1, !["manual"] = 1, !["failure"] = 1]
Troubled == [NoEvents EXCEPT !["failure"] = 1, !["fault"] = 1]

EditedOrSnoozed == {Edited, Snoozed}
SnoozedOnly == {Snoozed}
TroubledOnly == {Troubled}
Undisturbed == {NoEvents}

V(d, p, a) == [due |-> d, priority |-> p, awaiting |-> a]

\* A P1 deadline, AWAITING tasks, and what an edit makes of them.
AllVersions == {V(2, "P1", TRUE), V(4, "P2", TRUE), V(6, "P3", TRUE),
                V(6, "P4", TRUE), V(None, "P3", FALSE)}
AwaitingVersions == {V(1, "P2", TRUE), V(0, "P3", TRUE)}
DeadlineVersions == {V(2, "P1", FALSE)}
=============================================================================
