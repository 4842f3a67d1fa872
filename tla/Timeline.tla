------------------------------ MODULE Timeline ------------------------------
(***************************************************************************)
(* The dashboard's chart (storage.rs, timeline): raw rows are selected and *)
(* grouped by SQL, in UTC shifted by the whole hours of the configured     *)
(* offset, and put under labels computed by chrono with the whole offset,  *)
(* minutes included, all while the connection is locked.                   *)
(*                                                                         *)
(* Time is counted in quarter hours of UTC.  A bucket, a block of two      *)
(* hours or a day of local time, is known by its number since time began,  *)
(* which is what its formatted name stands for.                            *)
(***************************************************************************)
EXTENDS Integers

CONSTANTS
    Zones,      \* the configured timezones: "-05:30" is west, 5 hours, 2 quarters
    Start,      \* the moment the program is first run
    MaxTime     \* bound on time

Hour == 4
Day == 24 * Hour

Ranges == {"1d", "7d"}

\* Less than a day, the offsets that chrono accepts.
ASSUME TimelineAssumption ==
    /\ Zones \subseteq [west: BOOLEAN, hours: 0 .. 23, minutes: 0 .. Hour - 1]
    /\ Start \in Nat /\ Start >= 10 * Day
    /\ MaxTime \in Nat

VARIABLES
    timezone,   \* Config::timezone
    now,
    usage       \* created_at of the rows in the table

vars == <<timezone, now, usage>>

Init ==
    /\ timezone \in Zones
    /\ now = Start
    /\ usage = {}

Tick ==
    /\ now < MaxTime
    /\ now' = now + 1
    /\ UNCHANGED <<timezone, usage>>

Stamp == now

\* Bound: the rows of the first day, enough to meet every hour of it.
Record ==
    /\ now < Start + Day
    /\ usage' = usage \cup {Stamp}
    /\ UNCHANGED <<timezone, now>>

\* Bound: one row is followed, for each row is selected and placed by itself.
Next == Tick \/ (usage = {} /\ Record)

Spec == Init /\ [][Next]_vars

------------------------------------------------------------------------------
(* The two offsets (config.rs, timezone_offset).                           *)

Signed(n) == IF timezone.west THEN - n ELSE n

\* tz_offset_secs, what chrono is given.
Offset == Signed(timezone.hours * Hour + timezone.minutes)

\* tz_sql, "-5 hours": the modifier has no minutes.
SqlOffset == Signed(timezone.hours * Hour)

------------------------------------------------------------------------------
(* The SQL query.                                                          *)

Width(range) == IF range = "1d" THEN 2 * Hour ELSE Day

Since(range) == IF range = "1d" THEN Day ELSE 7 * Day

\* Bug: rows grouped by their UTC time.
SqlBucket_Utc(range, t) == t \div Width(range)

\* strftime of created_at with the modifier, hours rounded down to even ones.
SqlBucket(range, t) == (t + SqlOffset) \div Width(range)

\* created_at >= datetime('now', '+7 hours', '-1 days'): the modifier moves
\* the limit too, although created_at is UTC.
Selected(range) == {t \in usage: t >= now + SqlOffset - Since(range)}

------------------------------------------------------------------------------
(* The labels, and the rows under them.                                    *)

Count(range) == IF range = "1d" THEN 12 ELSE 7

\* Twelve blocks of two hours, or seven days, ending with the current one.
Labels(range) ==
    LET last == (now + Offset) \div Width(range) IN last - Count(range) + 1 .. last

\* Bug: the chart is the selected groups, with empty ones added.
Charted_Unpadded(range) ==
    [b \in Labels(range) \cup {SqlBucket(range, t): t \in Selected(range)} |->
        {t \in Selected(range): SqlBucket(range, t) = b}]

\* A label shows the group of its name; a group without a label is dropped.
Charted(range) ==
    [b \in Labels(range) |-> {t \in Selected(range): SqlBucket(range, t) = b}]

\* timeline_handler: another range than "7d" is "1d".
Shown(range, t) == {b \in DOMAIN Charted(range): t \in Charted(range)[b]}

------------------------------------------------------------------------------

LocalBucket(range, t) == (t + Offset) \div Width(range)

\* Its bucket is one of the last twelve, or seven.
OnChart(range, t) == LocalBucket(range, now) - LocalBucket(range, t) < Count(range)

\* How much of the window the shifted limit takes away, east of Greenwich.
Lost == IF SqlOffset > 0 THEN SqlOffset ELSE 0

\* Less than an hour, and nothing in a timezone of whole hours.
Slack == - timezone.minutes .. timezone.minutes

\* Its local time is not within the timezone's minutes of another bucket.
WellInside(range, t) == \A d \in Slack: LocalBucket(range, t + d) = LocalBucket(range, t)

\* "1d groups by 2-hour; 7d by day", "All times in configured timezone": the
\* two offsets part rows and labels by no more than the timezone's minutes.  A
\* request is shown under no label that its local time misses by more; and
\* one inside the window, less what the limit's shift takes from it, that falls
\* well inside a label's time is shown under that label, and only there.
ShownInItsBucket ==
    \A range \in Ranges, t \in usage:
        /\ \A b \in Shown(range, t): \E d \in Slack: b = LocalBucket(range, t + d)
        /\ (/\ now - t <= Since(range) - Lost
            /\ OnChart(range, t)
            /\ WellInside(range, t))
               => Shown(range, t) = {LocalBucket(range, t)}

\* "raw rows inside 1d/7d windows, never older than retention": no chart shows
\* a row that is as old as its range, but for the minutes of the timezone, by
\* which the groups of a chart west of Greenwich begin before their labels.
NothingStaleCharted ==
    \A range \in Ranges, t \in usage:
        Shown(range, t) # {} => now - t < Since(range) + timezone.minutes

\* "Pad empty buckets so the chart always shows the full range": a bucket on
\* the chart has all the requests of its time.
ChartShowsFullRange ==
    \A range \in Ranges, t \in usage:
        OnChart(range, t) => Shown(range, t) # {}
=============================================================================
