-------------------------- MODULE UsageStorageProofs -------------------------
(***************************************************************************)
(* Proofs about UsageStorage for any keys, models and requests and any     *)
(* windows allowed by its assumptions: the type invariant, the five safety *)
(* invariants the runs check, that the three tables implement the ledger,  *)
(* and that a dashboard page read between any of their steps misses none   *)
(* of the requests that were counted when it was asked for.                *)
(***************************************************************************)
EXTENDS DashboardStats, TLAPS

\* The invariant of the proofs; it is inductive.
IInv ==
    /\ TypeOK
    /\ EachRequestCountedOnce
    /\ ChartComplete
    /\ PassKnowsOlderKeys
    /\ ActiveKeyNeverFolded

------------------------------------------------------------------------------
(* The tables seen as sets of rows.                                        *)

\* The clamp: the retention is a number of days no shorter than the chart.
LEMMA RetentionCoversChart == Retention \in Nat /\ ChartDays <= Retention
  BY WindowAssumption DEF Retention

\* Membership in the union of a table indexed by (key, model).
LEMMA CellMember ==
    ASSUME NEW T, NEW r
    PROVE  r \in UNION {T[c]: c \in Keys \X Models} <=>
              \E k \in Keys, m \in Models: r \in T[<<k, m>>]
<1>1. r \in UNION {T[c]: c \in Keys \X Models} <=> \E c \in Keys \X Models: r \in T[c]
  BY Zenon
<1>2. \A c \in Keys \X Models: \E k \in Keys, m \in Models: c = <<k, m>>
  OBVIOUS
<1>3. \A k \in Keys, m \in Models: <<k, m>> \in Keys \X Models
  OBVIOUS
<1> QED BY <1>1, <1>2, <1>3, Zenon

\* A row of the counter table is a row of some (key, model) counter.
LEMMA AgedMember ==
    ASSUME NEW r
    PROVE  r \in Aged <=> \E k \in Keys, m \in Models: r \in totals[<<k, m>>]
  BY CellMember, Zenon DEF Aged

\* A row of the rollup is a row of some model's rollup.
LEMMA DeletedMember ==
    ASSUME NEW r
    PROVE  r \in Deleted <=> \E m \in Models: r \in rollup[m]
  BY DEF Deleted

\* Given the types, what RowsOf collects for a key is that key's rows of the
\* two tables.
LEMMA RowsOfKey ==
    ASSUME TypeOK, NEW k \in Keys
    PROVE  RowsOf(k) = {r \in usage \cup Aged: r.key = k}
<1>1. ASSUME NEW r
      PROVE  r \in RowsOf(k) <=>
                (r \in usage /\ r.key = k) \/ \E m \in Models: r \in totals[<<k, m>>]
  BY DEF RowsOf
<1>2. \A j \in Keys, m \in Models: \A r \in totals[<<j, m>>]: r.key = j
  BY DEF TypeOK
<1>3. ASSUME NEW r, r \in RowsOf(k) PROVE r \in usage \cup Aged /\ r.key = k
  <2>1. CASE r \in usage /\ r.key = k
    BY <2>1
  <2>2. CASE \E m \in Models: r \in totals[<<k, m>>]
    <3>1. r \in Aged
      BY <2>2, AgedMember
    <3> QED BY <2>2, <3>1, <1>2
  <2> QED BY <1>1, <1>3, <2>1, <2>2
<1>4. ASSUME NEW r, r \in Aged, r.key = k PROVE r \in RowsOf(k)
  <2>1. PICK j \in Keys, m \in Models: r \in totals[<<j, m>>]
    BY <1>4, AgedMember
  <2>2. j = k
    BY <2>1, <1>2, <1>4
  <2> QED BY <2>1, <2>2, <1>1
<1>5. ASSUME NEW r, r \in usage, r.key = k PROVE r \in RowsOf(k)
  BY <1>1, <1>5
<1> QED BY <1>3, <1>4, <1>5

\* Every counted row has the type of a row.
LEMMA LedgerType ==
    ASSUME TypeOK
    PROVE  Ledger \subseteq Row
  BY AgedMember, DeletedMember DEF TypeOK, Ledger

\* What the fold of aged rows does to the tables: it moves a set of raw rows,
\* all older than the retention, to the counters, and touches nothing else.
LEMMA AgedEffect ==
    ASSUME TypeOK, ConsolidateAged
    PROVE  \E old \in SUBSET usage:
              /\ \A r \in old: r.key \in maint.seen /\ r.day + Retention < now
              /\ usage' = usage \ old
              /\ Aged' = Aged \cup old
              /\ totals' \in [Keys \X Models -> SUBSET Row]
              /\ \A k \in Keys, m \in Models:
                    \A r \in totals'[<<k, m>>]: r.key = k /\ r.model = m
<1>1. PICK at \in CutoffInstants:
         /\ usage' = usage \ OldRows(maint.seen, at)
         /\ totals' = [c \in Keys \X Models |-> totals[c] \cup
               {r \in OldRows(maint.seen, at): r.key = c[1] /\ r.model = c[2]}]
  BY DEF ConsolidateAged
<1> DEFINE old == OldRows(maint.seen, at)
<1>2. old \in SUBSET usage
  BY DEF OldRows
<1>3. at \in Nat /\ at <= now /\ now \in Nat
  BY ClockAssumption DEF TypeOK, CutoffInstants
<1>4. \A r \in old: r.key \in maint.seen /\ r.day + Retention < now
  <2> TAKE r \in old
  <2>1. r.key \in maint.seen /\ r.day + Retention < at /\ r.day \in Nat
    BY DEF OldRows, TypeOK, Row
  <2> QED BY <2>1, <1>3, RetentionCoversChart
<1>5. \A k \in Keys, m \in Models: totals'[<<k, m>>] =
         totals[<<k, m>>] \cup {r \in old: r.key = k /\ r.model = m}
  BY <1>1
<1>6. old \subseteq Row
  BY <1>2 DEF TypeOK
<1>7. totals' \in [Keys \X Models -> SUBSET Row]
  BY <1>1, <1>6 DEF TypeOK
<1>8. \A k \in Keys, m \in Models:
         \A r \in totals'[<<k, m>>]: r.key = k /\ r.model = m
  BY <1>5 DEF TypeOK
<1>9. Aged' = Aged \cup old
  <2>1. ASSUME NEW r PROVE r \in Aged' <=> \E k \in Keys, m \in Models: r \in totals'[<<k, m>>]
    BY CellMember, Zenon DEF Aged
  <2>2. \A r \in old: r.key \in Keys /\ r.model \in Models
    BY <1>6 DEF Row
  <2> HIDE DEF old
  <2>3. ASSUME NEW r, r \in Aged' PROVE r \in Aged \/ r \in old
    <3>1. PICK k \in Keys, m \in Models: r \in totals'[<<k, m>>]
      BY <2>1, <2>3
    <3>2. r \in totals[<<k, m>>] \/ r \in old
      BY <3>1, <1>5
    <3> QED BY <3>2, AgedMember, Zenon
  <2>4. ASSUME NEW r, r \in Aged PROVE r \in Aged'
    <3>1. PICK k \in Keys, m \in Models: r \in totals[<<k, m>>]
      BY <2>4, AgedMember, Zenon
    <3>2. r \in totals'[<<k, m>>]
      BY <3>1, <1>5
    <3> QED BY <3>2, <2>1, Zenon
  <2>5. ASSUME NEW r, r \in old PROVE r \in Aged'
    <3>1. r.key \in Keys /\ r.model \in Models
      BY <2>2, <2>5
    <3>2. r \in totals'[<<r.key, r.model>>]
      BY <3>1, <2>5, <1>5
    <3> QED BY <3>1, <3>2, <2>1, Zenon
  <2> QED BY <2>3, <2>4, <2>5
<1> QED BY <1>1, <1>2, <1>4, <1>7, <1>8, <1>9

\* What the fold of stale keys does: it moves all the rows of some keys, none
\* in the active set and none used for StaleDays, from the two tables with a
\* key to the rollup, and touches nothing else.
LEMMA DeletedEffect ==
    ASSUME TypeOK, ConsolidateDeleted
    PROVE  \E stale \in SUBSET (Keys \ maint.seen):
              /\ \A r \in usage \cup Aged: r.key \in stale => r.day + StaleDays < now
              /\ usage' = {r \in usage: r.key \notin stale}
              /\ Aged' = {r \in Aged: r.key \notin stale}
              /\ Deleted' = Deleted \cup {r \in usage \cup Aged: r.key \in stale}
              /\ totals' \in [Keys \X Models -> SUBSET Row]
              /\ \A k \in Keys, m \in Models:
                    \A r \in totals'[<<k, m>>]: r.key = k /\ r.model = m
              /\ rollup' \in [Models -> SUBSET Row]
              /\ \A m \in Models: \A r \in rollup'[m]: r.model = m
<1>1. PICK at \in CutoffInstants:
         /\ rollup' = [m \in Models |-> rollup[m]
               \cup {r \in usage: r.key \in StaleKeys(maint.seen, at) /\ r.model = m}
               \cup UNION {totals[<<k, m>>]: k \in StaleKeys(maint.seen, at)}]
         /\ usage' = {r \in usage: r.key \notin StaleKeys(maint.seen, at)}
         /\ totals' = [c \in Keys \X Models |->
               IF c[1] \in StaleKeys(maint.seen, at) THEN {} ELSE totals[c]]
  BY DEF ConsolidateDeleted
<1> DEFINE stale == StaleKeys(maint.seen, at)
<1>2. stale \in SUBSET (Keys \ maint.seen)
  BY DEF StaleKeys
<1>3. at \in Nat /\ at <= now /\ now \in Nat
  BY ClockAssumption DEF TypeOK, CutoffInstants
<1>4. \A r \in usage \cup Aged: r.key \in stale => r.day + StaleDays < now
  <2> SUFFICES ASSUME NEW r \in usage \cup Aged, r.key \in stale
               PROVE  r.day + StaleDays < now
    OBVIOUS
  <2>1. r \in RowsOf(r.key)
    BY <1>2, RowsOfKey
  <2>2. r.day + StaleDays < at
    BY <2>1 DEF StaleKeys
  <2>3. r.day \in Nat
    BY LedgerType DEF Ledger, Row
  <2> QED BY <2>2, <2>3, <1>3, WindowAssumption
<1> HIDE DEF stale
<1>5. \A k \in Keys, m \in Models:
         totals'[<<k, m>>] = IF k \in stale THEN {} ELSE totals[<<k, m>>]
  BY <1>1 DEF stale
<1>6. totals' \in [Keys \X Models -> SUBSET Row]
  BY <1>1 DEF TypeOK, stale
<1>7. \A k \in Keys, m \in Models:
         \A r \in totals'[<<k, m>>]: r.key = k /\ r.model = m
  BY <1>5 DEF TypeOK
<1>8. \A m \in Models: rollup'[m] = rollup[m]
         \cup {r \in usage: r.key \in stale /\ r.model = m}
         \cup UNION {totals[<<k, m>>]: k \in stale}
  BY <1>1 DEF stale
<1>9. ASSUME NEW m \in Models, NEW r
      PROVE  r \in rollup'[m] <=>
                \/ r \in rollup[m]
                \/ r \in usage /\ r.key \in stale /\ r.model = m
                \/ \E k \in stale: r \in totals[<<k, m>>]
  BY <1>8
<1>10. \A m \in Models: rollup'[m] \in SUBSET Row /\ \A r \in rollup'[m]: r.model = m
  <2> TAKE m \in Models
  <2>1. rollup[m] \subseteq Row /\ \A r \in rollup[m]: r.model = m
    BY DEF TypeOK
  <2>2. ASSUME NEW k \in stale
        PROVE  totals[<<k, m>>] \subseteq Row /\ \A r \in totals[<<k, m>>]: r.model = m
    <3>1. k \in Keys /\ <<k, m>> \in Keys \X Models
      BY <1>2
    <3>2. totals[<<k, m>>] \in SUBSET Row
      BY <3>1 DEF TypeOK
    <3>3. \A r \in totals[<<k, m>>]: r.model = m
      BY <3>1 DEF TypeOK
    <3> QED BY <3>2, <3>3
  <2>3. usage \subseteq Row
    BY DEF TypeOK
  <2>4. ASSUME NEW r, r \in rollup'[m] PROVE r \in Row /\ r.model = m
    BY <2>1, <2>2, <2>3, <2>4, <1>9
  <2> QED BY <2>4
<1>11. rollup' \in [Models -> SUBSET Row]
  <2>1. DOMAIN rollup' = Models /\ rollup' = [m \in Models |-> rollup'[m]]
    BY <1>1
  <2> QED BY <2>1, <1>10
<1>12. Aged' = {r \in Aged: r.key \notin stale}
  <2>1. ASSUME NEW r PROVE r \in Aged' <=> \E k \in Keys, m \in Models: r \in totals'[<<k, m>>]
    BY CellMember, Zenon DEF Aged
  <2>2. \A k \in Keys, m \in Models: \A r \in totals[<<k, m>>]: r.key = k
    BY DEF TypeOK
  <2>3. ASSUME NEW r, r \in Aged' PROVE r \in Aged /\ r.key \notin stale
    <3>1. PICK k \in Keys, m \in Models: r \in totals'[<<k, m>>]
      BY <2>1, <2>3
    <3>2. k \notin stale /\ r \in totals[<<k, m>>]
      BY <3>1, <1>5
    <3> QED BY <3>2, <2>2, AgedMember
  <2>4. ASSUME NEW r, r \in Aged, r.key \notin stale PROVE r \in Aged'
    <3>1. PICK k \in Keys, m \in Models: r \in totals[<<k, m>>]
      BY <2>4, AgedMember
    <3>2. r \in totals'[<<k, m>>]
      BY <3>1, <2>2, <2>4, <1>5
    <3> QED BY <3>2, <2>1
  <2> QED BY <2>3, <2>4
<1>13. Deleted' = Deleted \cup {r \in usage \cup Aged: r.key \in stale}
  <2>1. ASSUME NEW r PROVE r \in Deleted' <=> \E m \in Models: r \in rollup'[m]
    BY DEF Deleted
  <2>2. \A k \in Keys, m \in Models: \A r \in totals[<<k, m>>]: r.key = k /\ r.model = m
    BY DEF TypeOK
  <2>3. \A r \in usage: r.model \in Models
    BY DEF TypeOK, Row
  <2>4. ASSUME NEW r, r \in Deleted'
        PROVE  r \in Deleted \/ (r \in usage \cup Aged /\ r.key \in stale)
    <3>1. PICK m \in Models: r \in rollup'[m]
      BY <2>4, <2>1
    <3>2. CASE r \in rollup[m]
      BY <3>2, DeletedMember
    <3>3. CASE r \in usage /\ r.key \in stale
      BY <3>3
    <3>4. CASE \E k \in stale: r \in totals[<<k, m>>]
      <4>1. PICK k \in stale: r \in totals[<<k, m>>]
        BY <3>4
      <4>2. k \in Keys /\ r.key = k
        BY <4>1, <1>2, <2>2
      <4> QED BY <4>1, <4>2, AgedMember
    <3> QED BY <3>1, <3>2, <3>3, <3>4, <1>9
  <2>5. ASSUME NEW r, r \in Deleted PROVE r \in Deleted'
    BY <2>5, <2>1, <1>9, DeletedMember
  <2>6. ASSUME NEW r, r \in usage, r.key \in stale PROVE r \in Deleted'
    BY <2>6, <2>1, <2>3, <1>9
  <2>7. ASSUME NEW r, r \in Aged, r.key \in stale PROVE r \in Deleted'
    <3>1. PICK k \in Keys, m \in Models: r \in totals[<<k, m>>]
      BY <2>7, AgedMember
    <3>2. k \in stale
      BY <3>1, <2>2, <2>7
    <3>3. r \in rollup'[m]
      BY <3>1, <3>2, <1>9
    <3> QED BY <3>3, <2>1
  <2> QED BY <2>4, <2>5, <2>6, <2>7
<1> QED BY <1>1, <1>2, <1>4, <1>6, <1>7, <1>10, <1>11, <1>12, <1>13 DEF stale

\* A step that leaves the tables alone leaves the sets of rows alone.
LEMMA TablesUnchanged ==
    ASSUME UNCHANGED tables
    PROVE  Aged' = Aged /\ Deleted' = Deleted /\ Ledger' = Ledger
  BY DEF tables, Aged, Deleted, Ledger

\* What a recorded request does to the tables.
LEMMA RecordEffect ==
    ASSUME TypeOK, NEW o \in inflight, Record(o)
    PROVE  /\ RowFor(o, now) \in Row
           /\ RowFor(o, now).req = o.req
           /\ RowFor(o, now).key = o.key
           /\ RowFor(o, now).day = now
           /\ Aged' = Aged /\ Deleted' = Deleted
           /\ usage' = usage \cup {RowFor(o, now)}
           /\ Ledger' = Ledger \cup {RowFor(o, now)}
<1>1. o \in Open /\ now \in 0 .. MaxDay
  BY DEF TypeOK
<1>2. /\ RowFor(o, now) \in Row
      /\ RowFor(o, now).req = o.req
      /\ RowFor(o, now).key = o.key
      /\ RowFor(o, now).day = now
  BY <1>1 DEF RowFor, Open, Row
<1>3. Aged' = Aged /\ Deleted' = Deleted
  BY DEF Record, Aged, Deleted
<1>4. usage' = usage \cup {RowFor(o, now)}
  BY DEF Record
<1> QED BY <1>2, <1>3, <1>4 DEF Ledger

\* Maintenance moves rows; it neither adds nor drops one.
LEMMA FoldsKeepLedger ==
    ASSUME TypeOK, ConsolidateAged \/ ConsolidateDeleted
    PROVE  Ledger' = Ledger
<1>1. CASE ConsolidateAged
  <2>1. Deleted' = Deleted
    BY <1>1 DEF ConsolidateAged, Deleted
  <2>2. PICK old \in SUBSET usage: usage' = usage \ old /\ Aged' = Aged \cup old
    BY <1>1, AgedEffect
  <2> QED BY <2>1, <2>2 DEF Ledger
<1>2. CASE ConsolidateDeleted
  <2>1. PICK stale \in SUBSET (Keys \ maint.seen):
           /\ usage' = {r \in usage: r.key \notin stale}
           /\ Aged' = {r \in Aged: r.key \notin stale}
           /\ Deleted' = Deleted \cup {r \in usage \cup Aged: r.key \in stale}
    BY <1>2, DeletedEffect
  <2> QED BY <2>1 DEF Ledger
<1> QED BY <1>1, <1>2

------------------------------------------------------------------------------
(* Type correctness.                                                       *)

LEMMA InitType == Init => TypeOK
<1> SUFFICES ASSUME Init PROVE TypeOK
  OBVIOUS
<1>1. Aged = {} /\ Deleted = {} /\ Ledger = {}
  <2>1. Aged = {}
    BY AgedMember DEF Init
  <2>2. Deleted = {}
    BY DeletedMember DEF Init
  <2> QED BY <2>1, <2>2 DEF Init, Ledger
<1>2. maint \in [step: {"waiting", "aged", "deleted"},
                 seen: SUBSET (keys \cup revoked), start: 0 .. now]
  BY DEF Init, Waiting
<1>3. totals \in [Keys \X Models -> SUBSET Row]
  BY DEF Init
<1>4. rollup \in [Models -> SUBSET Row]
  BY DEF Init
<1>5. \A k \in Keys, m \in Models: totals[<<k, m>>] = {}
  BY DEF Init
<1>6. \A m \in Models: rollup[m] = {}
  BY DEF Init
<1>7. now \in 0 .. MaxDay
  BY ClockAssumption DEF Init
<1>8. keys = {} /\ revoked = {} /\ fresh = Requests /\ inflight = {} /\ usage = {}
  BY DEF Init
<1> QED BY <1>1, <1>2, <1>3, <1>4, <1>5, <1>6, <1>7, <1>8 DEF TypeOK

\* The type of the maintenance task after a step that ends or resets a pass.
LEMMA WaitingType ==
    ASSUME TypeOK
    PROVE  Waiting \in [step: {"waiting", "aged", "deleted"},
                        seen: SUBSET (keys \cup revoked), start: 0 .. now]
  BY ClockAssumption DEF TypeOK, Waiting

LEMMA TypeStep ==
    ASSUME TypeOK, [Next]_vars
    PROVE  TypeOK'
<1> DEFINE Task(ks, t) == [step: {"waiting", "aged", "deleted"},
                           seen: SUBSET ks, start: 0 .. t]
<1>0. now \in Nat /\ now <= MaxDay /\ MaxDay \in Nat
  BY ClockAssumption DEF TypeOK
<1>1. ASSUME NEW k \in Keys, GenerateKey(k) PROVE TypeOK'
  <2>1. keys' = keys \cup {k} /\ revoked' = revoked /\ k \notin revoked /\ maint' = maint
    BY <1>1 DEF GenerateKey
  <2>2. maint' \in Task(keys' \cup revoked', now)
    BY <2>1 DEF TypeOK
  <2> QED BY <1>1, <2>1, <2>2, TablesUnchanged DEF TypeOK, GenerateKey, tables
<1>2. ASSUME NEW k \in Keys, RevokeKey(k) PROVE TypeOK'
  <2>1. keys' = keys \ {k} /\ revoked' = revoked \cup {k} /\ k \in keys /\ maint' = maint
    BY <1>2 DEF RevokeKey
  <2>2. keys' \cup revoked' = keys \cup revoked
    BY <2>1
  <2>3. maint' \in Task(keys' \cup revoked', now)
    BY <2>1, <2>2 DEF TypeOK
  <2> QED BY <1>2, <2>1, <2>2, <2>3, TablesUnchanged DEF TypeOK, RevokeKey, tables
<1>3. ASSUME NEW q \in Requests, NEW k \in Keys, NEW m \in Models, Authenticate(q, k, m)
      PROVE  TypeOK'
  <2>1. [req |-> q, key |-> k, model |-> m] \in Open
    BY DEF Open
  <2> QED BY <1>3, <2>1, TablesUnchanged DEF TypeOK, Authenticate, tables
<1>4. ASSUME NEW o \in inflight, Record(o) PROVE TypeOK'
  <2>1. /\ keys' = keys /\ revoked' = revoked /\ fresh' = fresh /\ totals' = totals
        /\ rollup' = rollup /\ maint' = maint /\ now' = now /\ inflight' = inflight \ {o}
    BY <1>4 DEF Record
  <2>2. usage' \subseteq Row
    BY <1>4, RecordEffect DEF TypeOK
  <2>3. \A r \in Ledger': r.day <= now' /\ r.key \in keys' \cup revoked'
    BY <1>0, <1>4, <2>1, RecordEffect DEF TypeOK
  <2> QED BY <2>1, <2>2, <2>3 DEF TypeOK
<1>5. ASSUME NEW o \in inflight, Abandon(o) PROVE TypeOK'
  BY <1>5, TablesUnchanged DEF TypeOK, Abandon, tables
<1>6. CASE MaintStart
  <2>1. maint' \in Task(keys \cup revoked, now)
    BY <1>0, <1>6 DEF MaintStart
  <2> QED BY <1>6, <2>1, TablesUnchanged DEF TypeOK, MaintStart, tables
<1>7. CASE ConsolidateAged
  <2>1. /\ keys' = keys /\ revoked' = revoked /\ fresh' = fresh /\ inflight' = inflight
        /\ rollup' = rollup /\ now' = now /\ maint' = [maint EXCEPT !.step = "deleted"]
    BY <1>7 DEF ConsolidateAged
  <2>2. maint' \in Task(keys \cup revoked, now)
    BY <2>1 DEF TypeOK
  <2>3. /\ usage' \subseteq Row
        /\ totals' \in [Keys \X Models -> SUBSET Row]
        /\ \A k \in Keys, m \in Models:
              \A r \in totals'[<<k, m>>]: r.key = k /\ r.model = m
    BY <1>7, AgedEffect DEF TypeOK
  <2>4. Ledger' = Ledger
    BY <1>7, FoldsKeepLedger
  <2> QED BY <2>1, <2>2, <2>3, <2>4 DEF TypeOK
<1>8. CASE ConsolidateDeleted
  <2>1. /\ keys' = keys /\ revoked' = revoked /\ fresh' = fresh /\ inflight' = inflight
        /\ now' = now /\ maint' = Waiting
    BY <1>8 DEF ConsolidateDeleted
  <2>2. /\ usage' \subseteq Row
        /\ totals' \in [Keys \X Models -> SUBSET Row]
        /\ \A k \in Keys, m \in Models:
              \A r \in totals'[<<k, m>>]: r.key = k /\ r.model = m
        /\ rollup' \in [Models -> SUBSET Row]
        /\ \A m \in Models: \A r \in rollup'[m]: r.model = m
    BY <1>8, DeletedEffect DEF TypeOK
  <2>3. Ledger' = Ledger
    BY <1>8, FoldsKeepLedger
  <2> QED BY <2>1, <2>2, <2>3, WaitingType DEF TypeOK
<1>9. CASE MaintFails
  BY <1>9, WaitingType, TablesUnchanged DEF TypeOK, MaintFails, tables
<1>10. CASE Restart
  BY <1>10, WaitingType, TablesUnchanged DEF TypeOK, Restart, tables
<1>11. CASE Tick
  <2>1. /\ keys' = keys /\ revoked' = revoked /\ fresh' = fresh /\ inflight' = inflight
        /\ maint' = maint /\ now' = now + 1 /\ UNCHANGED tables
    BY <1>11 DEF Tick
  <2>2. now' \in 0 .. MaxDay
    BY <1>0, <1>11 DEF Tick
  <2>3. maint' \in Task(keys \cup revoked, now')
    BY <1>0, <2>1 DEF TypeOK
  <2>4. \A r \in Ledger: r.day <= now'
    BY <1>0, <2>1, LedgerType DEF TypeOK, Row
  <2> QED BY <2>1, <2>2, <2>3, <2>4, TablesUnchanged DEF TypeOK, tables
<1>12. CASE UNCHANGED vars
  BY <1>12, TablesUnchanged DEF TypeOK, vars, tables
<1> QED
  BY <1>1, <1>2, <1>3, <1>4, <1>5, <1>6, <1>7, <1>8, <1>9, <1>10, <1>11, <1>12 DEF Next, Running

------------------------------------------------------------------------------
(* The safety invariants.                                                  *)

LEMMA InitInv == Init => IInv
<1> SUFFICES ASSUME Init PROVE IInv
  OBVIOUS
<1>1. TypeOK
  BY InitType
<1>2. Aged = {} /\ Deleted = {} /\ Ledger = {}
  BY AgedMember, DeletedMember DEF Init, Ledger
<1> QED
  BY <1>1, <1>2
  DEF IInv, EachRequestCountedOnce, ChartComplete, PassKnowsOlderKeys,
      ActiveKeyNeverFolded, Init, Waiting

\* Steps that neither record a request nor fold: tables and clock apart, they
\* only change who holds which key or which requests are open.
QuietStep ==
    \/ \E k \in Keys: GenerateKey(k) \/ RevokeKey(k)
    \/ \E q \in Requests, k \in Keys, m \in Models: Authenticate(q, k, m)
    \/ \E o \in inflight: Abandon(o)
    \/ MaintStart \/ MaintFails \/ Restart \/ Tick
    \/ UNCHANGED vars

\* Quiet steps leave every table alone.
LEMMA QuietKeepsTables ==
    ASSUME QuietStep
    PROVE  /\ usage' = usage /\ Aged' = Aged /\ Deleted' = Deleted /\ Ledger' = Ledger
<1>1. UNCHANGED tables
  BY DEF QuietStep, GenerateKey, RevokeKey, Authenticate, Abandon, MaintStart,
         MaintFails, Restart, Tick, vars, tables
<1> QED BY <1>1, TablesUnchanged DEF tables

LEMMA StepKinds ==
    ASSUME [Next]_vars
    PROVE  \/ QuietStep
           \/ \E o \in inflight: Record(o)
           \/ ConsolidateAged
           \/ ConsolidateDeleted
  BY DEF Next, Running, QuietStep

LEMMA CountedOnceStep ==
    ASSUME IInv, [Next]_vars
    PROVE  EachRequestCountedOnce'
<1> USE DEF EachRequestCountedOnce
<1>1. CASE QuietStep
  <2> DEFINE OpenOnce ==
        /\ \A r \in Ledger: r.req \notin fresh' /\ \A o \in inflight': o.req # r.req
        /\ \A o, p \in inflight': o.req = p.req => o = p
        /\ \A o \in inflight': o.req \notin fresh'
  <2>1. OpenOnce
    <3>1. ASSUME NEW q \in Requests, NEW k \in Keys, NEW m \in Models,
                 Authenticate(q, k, m)
          PROVE  OpenOnce
      <4> DEFINE new == [req |-> q, key |-> k, model |-> m]
      <4>1. q \in fresh /\ fresh' = fresh \ {q} /\ inflight' = inflight \cup {new}
        BY <3>1 DEF Authenticate
      <4>2. new.req = q
        OBVIOUS
      <4> HIDE DEF new
      <4> QED BY <4>1, <4>2 DEF IInv
    <3>2. CASE inflight' \subseteq inflight /\ fresh' = fresh
      BY <3>2 DEF IInv
    <3> HIDE DEF OpenOnce
    <3> QED BY <1>1, <3>1, <3>2
      DEF QuietStep, GenerateKey, RevokeKey, Abandon, MaintStart, MaintFails,
          Restart, Tick, vars
  <2> QED BY <1>1, <2>1, QuietKeepsTables DEF IInv
<1>2. ASSUME NEW o \in inflight, Record(o) PROVE EachRequestCountedOnce'
  <2>1. inflight' = inflight \ {o} /\ fresh' = fresh
    BY <1>2 DEF Record
  <2>2. PICK row: /\ row.req = o.req
                  /\ Aged' = Aged /\ Deleted' = Deleted
                  /\ usage' = usage \cup {row} /\ Ledger' = Ledger \cup {row}
    BY <1>2, RecordEffect DEF IInv
  <2>3. \A r \in Ledger: r.req # row.req
    BY <2>2 DEF IInv
  <2>4. row \notin Aged /\ row \notin Deleted
    BY <2>3 DEF Ledger
  <2> QED BY <2>1, <2>2, <2>3, <2>4 DEF IInv
<1>3. CASE ConsolidateAged
  <2>1. PICK old \in SUBSET usage: usage' = usage \ old /\ Aged' = Aged \cup old
    BY <1>3, AgedEffect DEF IInv
  <2>2. Deleted' = Deleted /\ fresh' = fresh /\ inflight' = inflight
    BY <1>3 DEF ConsolidateAged, Deleted
  <2>3. Ledger' = Ledger
    BY <1>3, FoldsKeepLedger DEF IInv
  <2> QED BY <2>1, <2>2, <2>3 DEF IInv
<1>4. CASE ConsolidateDeleted
  <2>1. PICK stale \in SUBSET (Keys \ maint.seen):
           /\ usage' = {r \in usage: r.key \notin stale}
           /\ Aged' = {r \in Aged: r.key \notin stale}
           /\ Deleted' = Deleted \cup {r \in usage \cup Aged: r.key \in stale}
    BY <1>4, DeletedEffect DEF IInv
  <2>2. fresh' = fresh /\ inflight' = inflight
    BY <1>4 DEF ConsolidateDeleted
  <2>3. Ledger' = Ledger
    BY <1>4, FoldsKeepLedger DEF IInv
  <2> QED BY <2>1, <2>2, <2>3 DEF IInv
<1> QED BY <1>1, <1>2, <1>3, <1>4, StepKinds

LEMMA ChartStep ==
    ASSUME IInv, [Next]_vars
    PROVE  ChartComplete'
<1>0. now \in Nat /\ now' \in Nat /\ now <= now'
  <2>1. now \in Nat /\ now' \in Nat
    BY TypeStep, ClockAssumption DEF IInv, TypeOK
  <2>2. now' = now \/ now' = now + 1
    BY DEF Next, Running, GenerateKey, RevokeKey, Authenticate, Record, Abandon, MaintStart,
           ConsolidateAged, ConsolidateDeleted, MaintFails, Restart, Tick, vars
  <2> QED BY <2>1, <2>2
<1>1. \A r \in Ledger: r.day \in Nat
  BY LedgerType, ClockAssumption DEF IInv, Row
<1>2. CASE Aged' = Aged /\ Deleted' = Deleted
  BY <1>0, <1>1, <1>2, WindowAssumption DEF IInv, ChartComplete, Ledger
<1>3. CASE ConsolidateAged
  <2>1. PICK old \in SUBSET usage:
           /\ \A r \in old: r.key \in maint.seen /\ r.day + Retention < now
           /\ Aged' = Aged \cup old
    BY <1>3, AgedEffect DEF IInv
  <2>2. Deleted' = Deleted /\ now' = now
    BY <1>3 DEF ConsolidateAged, Deleted
  <2>3. \A r \in old: r.day + ChartDays < now
    BY <1>0, <1>1, <2>1, RetentionCoversChart, WindowAssumption DEF Ledger
  <2> QED BY <2>1, <2>2, <2>3 DEF IInv, ChartComplete
<1>4. CASE ConsolidateDeleted
  <2>1. PICK stale \in SUBSET (Keys \ maint.seen):
           /\ \A r \in usage \cup Aged: r.key \in stale => r.day + StaleDays < now
           /\ Aged' = {r \in Aged: r.key \notin stale}
           /\ Deleted' = Deleted \cup {r \in usage \cup Aged: r.key \in stale}
    BY <1>4, DeletedEffect DEF IInv
  <2>2. now' = now
    BY <1>4 DEF ConsolidateDeleted
  <2>3. \A r \in usage \cup Aged: r.key \in stale => r.day + ChartDays < now
    BY <1>0, <1>1, <2>1, WindowAssumption DEF Ledger
  <2> QED BY <2>1, <2>2, <2>3 DEF IInv, ChartComplete
<1> QED BY <1>2, <1>3, <1>4, StepKinds, QuietKeepsTables, RecordEffect DEF IInv

LEMMA PassStep ==
    ASSUME IInv, [Next]_vars
    PROVE  PassKnowsOlderKeys'
<1>0. /\ now \in Nat /\ MaxPass \in Nat
      /\ maint.start \in Nat /\ maint.start <= now /\ maint.seen \subseteq keys \cup revoked
  BY PassAssumption, ClockAssumption DEF IInv, TypeOK
<1>1. \A r \in Ledger: r.key \in keys \cup revoked
  BY DEF IInv, TypeOK
<1> USE DEF PassKnowsOlderKeys
<1>2. ASSUME NEW k \in Keys, GenerateKey(k) PROVE PassKnowsOlderKeys'
  <2>1. keys' = keys \cup {k} /\ k \notin keys \cup revoked /\ maint' = maint /\ now' = now
    BY <1>2 DEF GenerateKey
  <2>2. Ledger' = Ledger
    BY <1>2, TablesUnchanged DEF GenerateKey
  <2> QED BY <1>1, <2>1, <2>2 DEF IInv
<1>3. ASSUME NEW k \in Keys, RevokeKey(k) PROVE PassKnowsOlderKeys'
  <2>1. keys' = keys \ {k} /\ maint' = maint /\ now' = now
    BY <1>3 DEF RevokeKey
  <2>2. Ledger' = Ledger
    BY <1>3, TablesUnchanged DEF RevokeKey
  <2> QED BY <2>1, <2>2 DEF IInv
<1>4. CASE /\ QuietStep
           /\ keys' = keys /\ maint' = maint /\ now' = now
  BY <1>4, QuietKeepsTables DEF IInv
<1>5. ASSUME NEW o \in inflight, Record(o) PROVE PassKnowsOlderKeys'
  <2>1. keys' = keys /\ maint' = maint /\ now' = now
    BY <1>5 DEF Record
  <2>2. PICK row: row.day = now /\ Ledger' = Ledger \cup {row}
    BY <1>5, RecordEffect DEF IInv
  <2> QED BY <1>0, <2>1, <2>2 DEF IInv
<1>6. CASE MaintStart
  BY <1>0, <1>6 DEF MaintStart
<1>7. CASE ConsolidateAged
  <2>1. /\ keys' = keys /\ now' = now /\ maint.step = "aged"
        /\ maint'.seen = maint.seen /\ maint'.start = maint.start
    BY <1>7 DEF ConsolidateAged, IInv, TypeOK
  <2>2. Ledger' = Ledger
    BY <1>7, FoldsKeepLedger DEF IInv
  <2> QED BY <2>1, <2>2 DEF IInv
<1>8. CASE maint' = Waiting
  BY <1>8 DEF Waiting
<1>9. CASE Tick
  <2>1. keys' = keys /\ maint' = maint /\ now' = now + 1
    BY <1>9 DEF Tick
  <2>2. maint.step # "waiting" => now' <= maint.start + MaxPass
    BY <1>0, <1>9, <2>1 DEF Tick
  <2>3. Ledger' = Ledger
    BY <1>9, TablesUnchanged DEF Tick
  <2> QED BY <2>1, <2>2, <2>3 DEF IInv
<1> QED
  BY <1>2, <1>3, <1>4, <1>5, <1>6, <1>7, <1>8, <1>9, StepKinds
  DEF QuietStep, Authenticate, Abandon, MaintFails, Restart, ConsolidateDeleted, vars

LEMMA ActiveStep ==
    ASSUME IInv, [Next]_vars
    PROVE  ActiveKeyNeverFolded'
<1> USE DEF ActiveKeyNeverFolded
<1>1. CASE QuietStep
  <2>1. Deleted' = Deleted
    BY <1>1, QuietKeepsTables
  <2>2. \A r \in Deleted: r.key \in keys \cup revoked
    BY DEF IInv, TypeOK, Ledger
  <2>3. \A k \in keys': k \in keys \/ k \notin keys \cup revoked
    BY <1>1 DEF QuietStep, GenerateKey, RevokeKey, Authenticate, Abandon, MaintStart,
                MaintFails, Restart, Tick, vars
  <2> QED BY <2>1, <2>2, <2>3 DEF IInv
<1>2. ASSUME NEW o \in inflight, Record(o) PROVE ActiveKeyNeverFolded'
  <2>1. Deleted' = Deleted /\ keys' = keys
    BY <1>2, RecordEffect DEF IInv, Record
  <2> QED BY <2>1 DEF IInv
<1>3. CASE ConsolidateAged
  <2>1. Deleted' = Deleted /\ keys' = keys
    BY <1>3 DEF ConsolidateAged, Deleted
  <2> QED BY <2>1 DEF IInv
<1>4. CASE ConsolidateDeleted
  <2>1. PICK stale \in SUBSET (Keys \ maint.seen):
           /\ \A r \in usage \cup Aged: r.key \in stale => r.day + StaleDays < now
           /\ Deleted' = Deleted \cup {r \in usage \cup Aged: r.key \in stale}
    BY <1>4, DeletedEffect DEF IInv
  <2>2. keys' = keys /\ maint.step # "waiting"
    BY <1>4 DEF ConsolidateDeleted
  <2>3. ASSUME NEW r \in usage \cup Aged, r.key \in stale
        PROVE  r.key \notin keys
    <3>1. /\ r.day \in Nat /\ now \in Nat /\ maint.start \in Nat
          /\ StaleDays \in Nat /\ MaxPass \in Nat /\ MaxPass <= StaleDays
      BY LedgerType, ClockAssumption, WindowAssumption, PassAssumption
      DEF IInv, TypeOK, Ledger, Row
    <3>2. r.day + StaleDays < now /\ now <= maint.start + MaxPass
      BY <2>1, <2>2, <2>3 DEF IInv, PassKnowsOlderKeys
    <3>3. ~ (maint.start <= r.day)
      BY <3>1, <3>2
    <3>4. r.key \notin maint.seen
      BY <2>3
    <3> QED BY <2>2, <3>3, <3>4 DEF IInv, PassKnowsOlderKeys, Ledger
  <2> QED BY <2>1, <2>2, <2>3 DEF IInv
<1> QED BY <1>1, <1>2, <1>3, <1>4, StepKinds

\* The invariant holds in every reachable state.
THEOREM Invariance == Safety => []IInv
<1>1. ASSUME IInv, [Next]_vars PROVE IInv'
  BY <1>1, TypeStep, CountedOnceStep, ChartStep, PassStep, ActiveStep DEF IInv
<1> QED BY InitInv, <1>1, PTL DEF Safety

\* Every variable keeps its type: in particular a counter row only ever
\* absorbs rows of its own key and model.
THEOREM TypeCorrect == Safety => []TypeOK
<1>1. IInv => TypeOK
  BY DEF IInv
<1> QED BY <1>1, Invariance, PTL

\* No interleaving of recording, maintenance, revocation and restart makes a
\* request count twice.
THEOREM CountedOnce == Safety => []EachRequestCountedOnce
<1>1. IInv => EachRequestCountedOnce
  BY DEF IInv
<1> QED BY <1>1, Invariance, PTL

\* For every configured retention the chart's raw rows are complete.
THEOREM ChartIsComplete == Safety => []ChartComplete
<1>1. IInv => ChartComplete
  BY DEF IInv
<1> QED BY <1>1, Invariance, PTL

\* If a pass lasts no longer than StaleDays, no key that exists is ever
\* folded, although the pass decides with an old active set.
THEOREM ActiveKeysKept == Safety => []ActiveKeyNeverFolded
<1>1. IInv => ActiveKeyNeverFolded
  BY DEF IInv
<1> QED BY <1>1, Invariance, PTL

------------------------------------------------------------------------------
(* The tables implement the ledger.                                        *)

\* Each step counts one new request, or changes nothing that is counted.
LEMMA LedgerStep ==
    ASSUME IInv, [Next]_vars
    PROVE  [L!Next]_Ledger
<1>1. ASSUME NEW o \in inflight, Record(o) PROVE L!Next
  <2>1. PICK row \in Row: row.req = o.req /\ Ledger' = Ledger \cup {row}
    BY <1>1, RecordEffect DEF IInv
  <2>2. \A r \in Ledger: r.req # row.req
    BY <2>1 DEF IInv, EachRequestCountedOnce
  <2>3. row \in L!Row
    BY DEF L!Row, Row
  <2>4. L!Count(row)
    BY <2>1, <2>2 DEF L!Count
  <2> QED BY <2>3, <2>4 DEF L!Next
<1> QED BY <1>1, StepKinds, QuietKeepsTables, FoldsKeepLedger DEF IInv

\* The usage database keeps every recorded request counted, unchanged,
\* whatever maintenance and restarts do to its tables.
THEOREM LedgerImplemented == Safety => ImplementsLedger
<1>1. Init => L!Init
  <2> SUFFICES ASSUME Init PROVE Ledger = {}
    BY DEF L!Init
  <2> QED BY AgedMember, DeletedMember DEF Init, Ledger
<1> QED BY <1>1, LedgerStep, Invariance, PTL DEF Safety, ImplementsLedger, L!Spec

------------------------------------------------------------------------------
(* The dashboard's pages.                                                  *)

PageType ==
    page \in [step: {"none", "active", "listed", "merged", "complete"},
              advertised: SUBSET Models, active: SUBSET Keys,
              listed: SUBSET Row, folded: SUBSET Row, total: SUBSET Row, counted: SUBSET Row]

\* What a page was asked to count is in the tables it has yet to read, or in
\* what it has read from them: rows only move to the table it reads last, and
\* stay counted until the total is read.
PInv ==
    /\ PageType
    /\ page.step # "none" => page.counted \subseteq Ledger
    /\ page.step = "listed" => page.counted \subseteq page.listed \cup Deleted
    /\ page.listed \cup page.folded \subseteq Ledger
    /\ PageNeverUndercounts

\* No step uncounts a row, or takes one out of the rollup.
LEMMA RowsStay ==
    ASSUME IInv, [Next]_vars
    PROVE  Ledger \subseteq Ledger' /\ Deleted \subseteq Deleted'
<1>1. Ledger \subseteq Ledger'
  BY LedgerStep DEF L!Next, L!Count
<1>2. Deleted \subseteq Deleted'
  <2>1. CASE ConsolidateAged
    BY <2>1 DEF ConsolidateAged, Deleted
  <2>2. CASE ConsolidateDeleted
    BY <2>2, DeletedEffect DEF IInv
  <2> QED BY <2>1, <2>2, StepKinds, QuietKeepsTables, RecordEffect DEF IInv
<1> QED BY <1>1, <1>2

\* A step of the tables leaves a page that is under way what it needs.
LEMMA PageWaits ==
    ASSUME IInv, PInv, [Next]_vars, UNCHANGED page
    PROVE  PInv'
  BY RowsStay DEF PInv, PageType, PageNeverUndercounts, Shown

\* A step of the page itself.
LEMMA PageReads ==
    ASSUME IInv, PInv, UNCHANGED vars,
           ReadActive \/ ReadSnapshot \/ ReadRollup \/ ReadTotal \/ page' = NoPage
    PROVE  PInv'
<1>1. Ledger' = Ledger /\ Deleted' = Deleted
  BY TablesUnchanged DEF vars, tables
<1>2. Ledger \subseteq Row /\ keys \subseteq Keys
  BY LedgerType DEF IInv, TypeOK
<1>3. CASE page' = NoPage
  BY <1>3 DEF PInv, PageType, NoPage, PageNeverUndercounts
<1>4. CASE ReadActive
  <2>1. PICK shown \in SUBSET Models:
           page' = [step |-> "active", advertised |-> shown, active |-> keys, listed |-> {},
                    folded |-> {}, total |-> {}, counted |-> Ledger]
    BY <1>4 DEF ReadActive, NoPage
  <2> QED BY <1>1, <1>2, <2>1 DEF PInv, PageType, PageNeverUndercounts
<1>5. CASE ReadSnapshot
  <2>1. page' = [page EXCEPT !.step = "listed", !.listed = usage \cup Aged]
    BY <1>5 DEF ReadSnapshot
  <2>2. /\ usage \cup Aged \subseteq Row /\ usage \cup Aged \subseteq Ledger
        /\ page.counted \subseteq usage \cup Aged \cup Deleted /\ page.counted \subseteq Ledger
    BY <1>2, <1>5 DEF ReadSnapshot, PInv, Ledger
  <2>3. /\ PageType'
        /\ page'.step = "listed" /\ page'.listed = usage \cup Aged
        /\ page'.folded = page.folded /\ page'.counted = page.counted
    BY <2>1, <2>2 DEF PInv, PageType
  <2> QED BY <1>1, <2>2, <2>3 DEF PInv, PageNeverUndercounts
<1>6. CASE ReadRollup
  <2>1. page' = [page EXCEPT !.step = "merged", !.listed = Shown(page.listed),
                             !.folded = Shown(Deleted)]
    BY <1>6 DEF ReadRollup
  <2>2. /\ Deleted \subseteq Row /\ Deleted \subseteq Ledger /\ page.counted \subseteq Ledger
        /\ page.counted \subseteq page.listed \cup Deleted
        /\ page.listed \subseteq Row /\ page.listed \subseteq Ledger
    BY <1>2, <1>6 DEF ReadRollup, PInv, PageType, Ledger
  <2>3. /\ PageType'
        /\ page'.step = "merged" /\ page'.listed = Shown(page.listed)
        /\ page'.folded = Shown(Deleted) /\ page'.counted = page.counted
        /\ page'.advertised = page.advertised
    BY <2>1, <2>2 DEF PInv, PageType, Shown
  <2>4. Shown(page.counted)' \subseteq page'.listed \cup page'.folded
    BY <2>2, <2>3 DEF Shown
  <2>5. page'.listed \cup page'.folded \subseteq Ledger
    BY <2>2, <2>3 DEF Shown
  <2> QED BY <1>1, <2>2, <2>3, <2>4, <2>5 DEF PInv, PageNeverUndercounts
<1>7. CASE ReadTotal
  <2>1. page' = [page EXCEPT !.step = "complete", !.total = Ledger]
    BY <1>7 DEF ReadTotal
  <2>2. /\ PageType'
        /\ page'.step = "complete" /\ page'.listed = page.listed /\ page'.folded = page.folded
        /\ page'.counted = page.counted /\ page'.advertised = page.advertised
        /\ page'.total = Ledger
    BY <1>2, <2>1 DEF PInv, PageType
  <2>3. /\ page.counted \subseteq Ledger /\ page.listed \cup page.folded \subseteq Ledger
        /\ Shown(page.counted) \subseteq page.listed \cup page.folded
    BY <1>7 DEF ReadTotal, PInv, PageNeverUndercounts
  <2>4. Shown(page.counted)' \subseteq page'.listed \cup page'.folded
    BY <2>2, <2>3 DEF Shown
  <2> QED BY <1>1, <2>2, <2>3, <2>4 DEF PInv, PageNeverUndercounts
<1> QED BY <1>3, <1>4, <1>5, <1>6, <1>7

\* Wherever recording, maintenance, revocation and restarts fall between its
\* reads, and whatever is advertised, a models page that is complete counts all
\* that was counted for its models when it was asked for, and a total of all.
THEOREM PagesComplete == PageSpec => []PageNeverUndercounts
<1>1. PageInit => IInv /\ PInv
  <2>1. PageInit => PInv
    BY DEF PageInit, PInv, PageType, NoPage, PageNeverUndercounts
  <2> QED BY <2>1, InitInv DEF PageInit
<1>2. IInv /\ PInv /\ [PageNext]_pageVars => (IInv /\ PInv)'
  <2> SUFFICES ASSUME IInv, PInv, [PageNext]_pageVars PROVE IInv' /\ PInv'
    OBVIOUS
  <2>1. [Next]_vars
    BY DEF PageNext, pageVars, ReadActive, ReadSnapshot, ReadRollup, ReadTotal, EndPage, Next
  <2>2. IInv'
    BY <2>1, TypeStep, CountedOnceStep, ChartStep, PassStep, ActiveStep DEF IInv
  <2>3. CASE UNCHANGED page
    BY <2>1, <2>2, <2>3, PageWaits
  <2>4. CASE UNCHANGED vars /\ (ReadActive \/ ReadSnapshot \/ ReadRollup \/ ReadTotal \/ page' = NoPage)
    BY <2>2, <2>4, PageReads
  <2>5. CASE Restart /\ page' = NoPage
    BY <2>2, <2>5 DEF PInv, PageType, NoPage, PageNeverUndercounts
  <2> QED
    BY <2>2, <2>3, <2>4, <2>5
    DEF PageNext, pageVars, ReadActive, ReadSnapshot, ReadRollup, ReadTotal, EndPage
<1>3. PInv => PageNeverUndercounts
  BY DEF PInv
<1> QED BY <1>1, <1>2, <1>3, PTL DEF PageSpec
=============================================================================
