---------------------------- MODULE TimelineProofs ----------------------------
(***************************************************************************)
(* Proofs about Timeline, for any start, any timezone that chrono accepts  *)
(* and any moment of a request: no chart shows a stale row, and a request  *)
(* is shown under the label of its local time, but for the minutes of the  *)
(* timezone.                                                               *)
(***************************************************************************)
EXTENDS Timeline, TLAPS

------------------------------------------------------------------------------
(* Whole numbers divided.                                                  *)

LEMMA Quotient ==
    ASSUME NEW n \in Int
    PROVE  /\ n \div 8 \in Int /\ 8 * (n \div 8) <= n /\ n < 8 * (n \div 8) + 8
           /\ n \div 96 \in Int /\ 96 * (n \div 96) <= n /\ n < 96 * (n \div 96) + 96
  OBVIOUS

LEMMA QuotientsOrdered ==
    ASSUME NEW x \in Int, NEW y \in Int, x <= y
    PROVE  x \div 8 <= y \div 8 /\ x \div 96 <= y \div 96
  OBVIOUS

------------------------------------------------------------------------------
(* The invariant.                                                          *)

\* No row is of a time to come.
IInv ==
    /\ timezone \in Zones
    /\ now \in Nat
    /\ \A t \in usage: t \in Nat /\ t <= now

LEMMA TimelineInductive == Spec => []IInv
<1>1. Init => IInv
  BY TimelineAssumption DEF Init, IInv
<1>2. IInv /\ [Next]_vars => IInv'
  <2> SUFFICES ASSUME IInv, [Next]_vars
               PROVE  IInv'
    OBVIOUS
  <2> USE DEF IInv
  <2>1. CASE Tick
    BY <2>1, TimelineAssumption DEF Tick
  <2>2. CASE Record
    BY <2>2 DEF Record, Stamp
  <2>3. CASE UNCHANGED vars
    BY <2>3 DEF vars
  <2> QED
    BY <2>1, <2>2, <2>3 DEF Next
<1> QED
  BY <1>1, <1>2, PTL DEF Spec

------------------------------------------------------------------------------
(* What a chart shows.                                                     *)

\* The minutes are all that the two offsets differ by.
LEMMA Offsets ==
    ASSUME IInv
    PROVE  /\ Offset \in Int /\ SqlOffset \in Int
           /\ timezone.minutes \in 0 .. 3
           /\ SqlOffset - Offset \in Slack
<1>1. /\ timezone.west \in BOOLEAN
      /\ timezone.hours \in 0 .. 23
      /\ timezone.minutes \in 0 .. 3
  BY TimelineAssumption DEF IInv, Hour
<1>2. CASE timezone.west
  BY <1>1, <1>2 DEF Offset, SqlOffset, Signed, Slack, Hour
<1>3. CASE ~ timezone.west
  <2>1. Offset = timezone.hours * 4 + timezone.minutes /\ SqlOffset = timezone.hours * 4
    BY <1>3, Zenon DEF Offset, SqlOffset, Signed, Hour
  <2> QED
    BY <1>1, <2>1 DEF Slack
<1> QED
  BY <1>1, <1>2, <1>3

\* The group of a row is the bucket of a time within the timezone's minutes.
LEMMA GroupIsNearby ==
    ASSUME NEW range, NEW t \in usage, IInv
    PROVE  SqlBucket(range, t) = LocalBucket(range, t + (SqlOffset - Offset))
<1>1. t \in Int /\ Offset \in Int /\ SqlOffset \in Int
  BY Offsets DEF IInv
<1>2. t + SqlOffset = (t + (SqlOffset - Offset)) + Offset
  BY <1>1
<1> QED
  BY <1>2 DEF SqlBucket, LocalBucket

LEMMA ShownAre ==
    ASSUME NEW range, NEW t, IInv
    PROVE  Shown(range, t) =
               {b \in Labels(range): t \in Selected(range) /\ SqlBucket(range, t) = b}
  BY DEF Shown, Charted

\* A row under the first label lies at most the labels' width in the past.
LEMMA UnderALabel ==
    ASSUME NEW range \in Ranges, NEW t \in usage, IInv, Shown(range, t) # {}
    PROVE  now - t < Since(range) + SqlOffset - Offset
<1> USE DEF Ranges
<1>1. now \in Int /\ Offset \in Int /\ SqlOffset \in Int /\ t \in Int
  BY Offsets DEF IInv
<1>2. SqlBucket(range, t) \in Labels(range)
  BY ShownAre
<1>3. CASE range = "1d"
  <2>1. Width(range) = 8 /\ Count(range) = 12 /\ Since(range) = 96
    BY <1>3 DEF Width, Count, Since, Hour, Day
  <2>2. (t + SqlOffset) \div 8 >= (now + Offset) \div 8 - 11
    BY <1>1, <1>2, <2>1, Quotient DEF SqlBucket, Labels
  <2>3. t + SqlOffset \in Int /\ now + Offset \in Int
    BY <1>1
  <2>4. 8 * ((t + SqlOffset) \div 8) <= t + SqlOffset
    BY <2>3, Quotient
  <2>5. now + Offset < 8 * ((now + Offset) \div 8) + 8
    BY <2>3, Quotient
  <2>6. ASSUME NEW a \in Int, NEW b \in Int, a >= b - 11, NEW x \in Int, NEW y \in Int,
               8 * a <= x, y < 8 * b + 8
        PROVE  y - x < 96
    BY <2>6
  <2>7. (t + SqlOffset) \div 8 \in Int /\ (now + Offset) \div 8 \in Int
    BY <2>3, Quotient
  <2>8. (now + Offset) - (t + SqlOffset) < 96
    BY <2>2, <2>3, <2>4, <2>5, <2>6, <2>7
  <2> QED
    BY <1>1, <2>1, <2>8
<1>4. CASE range = "7d"
  <2>1. Width(range) = 96 /\ Count(range) = 7 /\ Since(range) = 672
    BY <1>4 DEF Width, Count, Since, Hour, Day
  <2>2. (t + SqlOffset) \div 96 >= (now + Offset) \div 96 - 6
    BY <1>1, <1>2, <2>1, Quotient DEF SqlBucket, Labels
  <2>3. t + SqlOffset \in Int /\ now + Offset \in Int
    BY <1>1
  <2>4. 96 * ((t + SqlOffset) \div 96) <= t + SqlOffset
    BY <2>3, Quotient
  <2>5. now + Offset < 96 * ((now + Offset) \div 96) + 96
    BY <2>3, Quotient
  <2>6. ASSUME NEW a \in Int, NEW b \in Int, a >= b - 6, NEW x \in Int, NEW y \in Int,
               96 * a <= x, y < 96 * b + 96
        PROVE  y - x < 672
    BY <2>6
  <2>7. (t + SqlOffset) \div 96 \in Int /\ (now + Offset) \div 96 \in Int
    BY <2>3, Quotient
  <2>8. (now + Offset) - (t + SqlOffset) < 672
    BY <2>2, <2>3, <2>4, <2>5, <2>6, <2>7
  <2> QED
    BY <1>1, <2>1, <2>8
<1> QED
  BY <1>3, <1>4

------------------------------------------------------------------------------
(* The theorems.                                                           *)

\* "7d ... never older than retention": whatever the timezone, a chart shows
\* no row as old as its range, but for the minutes of the timezone.
THEOREM NothingStale == Spec => []NothingStaleCharted
<1>1. IInv => NothingStaleCharted
  <2> SUFFICES ASSUME IInv, NEW range \in Ranges, NEW t \in usage, Shown(range, t) # {}
               PROVE  now - t < Since(range) + timezone.minutes
    BY DEF NothingStaleCharted
  <2>1. now - t < Since(range) + SqlOffset - Offset
    BY UnderALabel
  <2>2. now \in Int /\ t \in Int /\ Since(range) \in Int
    BY DEF IInv, Since, Day, Hour
  <2>3. /\ Offset \in Int /\ SqlOffset \in Int /\ timezone.minutes \in Int
        /\ SqlOffset - Offset <= timezone.minutes
    BY Offsets DEF Slack
  <2> QED
    BY <2>1, <2>2, <2>3
<1> QED
  BY <1>1, TimelineInductive, PTL

\* "All times in configured timezone": whatever the timezone, a request is
\* shown under no label that its local time misses by more than the minutes of
\* the timezone, and under its own, and no other, where they cannot matter.
THEOREM ShownWhereItBelongs == Spec => []ShownInItsBucket
<1>1. ASSUME IInv, NEW range \in Ranges, NEW t \in usage, NEW b \in Shown(range, t)
      PROVE  \E d \in Slack: b = LocalBucket(range, t + d)
  <2>1. b = LocalBucket(range, t + (SqlOffset - Offset))
    BY <1>1, ShownAre, GroupIsNearby
  <2> QED
    BY <1>1, <2>1, Offsets
<1>2. ASSUME IInv, NEW range \in Ranges, NEW t \in usage,
             now - t <= Since(range) - Lost, OnChart(range, t), WellInside(range, t)
      PROVE  Shown(range, t) = {LocalBucket(range, t)}
  <2>1. now \in Int /\ t \in Int /\ t <= now /\ Offset \in Int /\ SqlOffset \in Int
    BY <1>2, Offsets DEF IInv
  <2>2. Since(range) \in Int /\ Count(range) \in Int /\ Width(range) \in {8, 96}
    BY DEF Since, Count, Width, Day, Hour
  <2>3. SqlBucket(range, t) = LocalBucket(range, t)
    BY <1>2, GroupIsNearby, Offsets DEF WellInside
  <2>4. t \in Selected(range)
    BY <1>2, <2>1, <2>2 DEF Selected, Lost
  <2>5. LocalBucket(range, t) \in Labels(range)
    <3>1. t + Offset \in Int /\ now + Offset \in Int /\ t + Offset <= now + Offset
      BY <2>1
    <3>2. /\ LocalBucket(range, t) \in Int /\ LocalBucket(range, now) \in Int
          /\ LocalBucket(range, t) <= LocalBucket(range, now)
      BY <2>2, <3>1, Quotient, QuotientsOrdered DEF LocalBucket
    <3>3. Labels(range) =
              LocalBucket(range, now) - Count(range) + 1 .. LocalBucket(range, now)
      BY DEF Labels, LocalBucket
    <3> QED
      BY <1>2, <2>2, <3>2, <3>3 DEF OnChart
  <2> QED
    BY <1>2, <2>3, <2>4, <2>5, ShownAre
<1>3. IInv => ShownInItsBucket
  BY <1>1, <1>2 DEF ShownInItsBucket
<1> QED
  BY <1>3, TimelineInductive, PTL
=============================================================================
