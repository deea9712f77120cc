--------------------------- MODULE MCCalendarSync ---------------------------
(***************************************************************************)
(* CalendarSync with three due dates; half an hour is one tick.            *)
(***************************************************************************)
EXTENDS CalendarSync, TLC

CONSTANTS s1, s2

B(r, b, f) == [request |-> r, bot |-> b, fault |-> f]
Faulty == {B(4, 0, 2), B(3, 1, 1)}
Faultless == {B(2, 1, 0)}

\* An hour that the client chooses, and none.
Asked == {NoWindow, [from |-> 2, to |-> 4]}
NothingAsked == {NoWindow}

Interchangeable == Permutations(Sessions)
=============================================================================
