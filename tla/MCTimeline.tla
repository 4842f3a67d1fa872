----------------------------- MODULE MCTimeline ------------------------------
(* Model values of Timeline for TLC.                                       *)
EXTENDS Timeline

Zone(west, hours, minutes) == [west |-> west, hours |-> hours, minutes |-> minutes]

\* -12:00, -05:30, -00:15, +05:45 and +07:00.
BothSides ==
    {Zone(TRUE, 12, 0), Zone(TRUE, 5, 2), Zone(TRUE, 0, 1), Zone(FALSE, 5, 3), Zone(FALSE, 7, 0)}

SevenEast == {Zone(FALSE, 7, 0)}
=============================================================================
