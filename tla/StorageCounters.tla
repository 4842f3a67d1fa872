---------------------------- MODULE StorageCounters --------------------------
(***************************************************************************)
(* The numbers behind UsageStorage (storage.rs): where that module keeps   *)
(* what each counter has absorbed, here a counter is a count of requests   *)
(* and a sum of tokens in a signed integer of SQLite, with what happens at *)
(* its limit.  One token column stands for the two, and one key's tables   *)
(* are followed, as the folds treat keys one by one.                       *)
(*                                                                         *)
(* A sum of integers that overflows is an error of the query, and it and   *)
(* the groups after it are skipped.  A counter that overflows in `a + b`   *)
(* becomes a float, which is no longer read as an integer.                 *)
(***************************************************************************)
EXTENDS Integers, Sequences

CONSTANTS
    LastModel,      \* the models are 1 .. LastModel, in the order of their names
    Tokens,         \* the counts an upstream may report
    IntMax,         \* the largest integer of SQLite, 2^63 - 1
    MaxRecorded     \* bound: the number of requests

ASSUME CountersAssumption ==
    /\ LastModel \in Nat /\ Tokens \subseteq Nat
    /\ IntMax \in Nat /\ MaxRecorded \in Nat

Models == 1 .. LastModel

VARIABLES
    usage,      \* the raw rows in the order of their insertion
    totals,     \* usage_totals: model -> counter
    deleted,    \* deleted_usage: model -> counter
    counted,    \* history: model -> what was inserted, without a limit
    recorded    \* history: the same of all models together

vars == <<usage, totals, deleted, counted, recorded>>

NoCount == [requests |-> 0, tokens |-> 0]

Float == -1

NoCounters == [m \in Models |-> NoCount]

Init ==
    /\ usage = <<>>
    /\ totals = NoCounters /\ deleted = NoCounters
    /\ counted = NoCounters /\ recorded = NoCount

------------------------------------------------------------------------------
(* Numbers.                                                                *)

Fits(n) == n \in 0 .. IntMax

\* A float absorbs what is added to it.
Plus(a, b) == IF a # Float /\ b # Float /\ Fits(a + b) THEN a + b ELSE Float

OneMore(count, tokens) == [requests |-> count.requests + 1, tokens |-> count.tokens + tokens]

\* COUNT(*) and the sum of the tokens of these models' rows.
Tally(rows, ms) ==
    LET upTo[n \in 0 .. Len(rows)] ==
            IF n = 0 THEN NoCount
            ELSE IF rows[n].model \in ms THEN OneMore(upTo[n - 1], rows[n].tokens)
            ELSE upTo[n - 1]
    IN  upTo[Len(rows)]

\* What GROUP BY yields up to the first sum that overflows, in name order.
Groups(rows) ==
    [m \in {p \in Models: /\ Tally(rows, {p}).requests > 0
                          /\ \A q \in 1 .. p: Fits(Tally(rows, {q}).tokens)} |->
        Tally(rows, {m})]

\* The counters with something in them; a float fails to be read as an i64.
Readable(counters) ==
    [m \in {p \in Models: counters[p].requests > 0 /\ counters[p].tokens # Float} |-> counters[m]]

\* ON CONFLICT DO UPDATE SET requests = requests + excluded.requests, ...
Upsert(counter, group) ==
    [requests |-> counter.requests + group.requests, tokens |-> Plus(counter.tokens, group.tokens)]

UpsertAll(counters, groups) ==
    [m \in Models |-> IF m \in DOMAIN groups THEN Upsert(counters[m], groups[m]) ELSE counters[m]]

------------------------------------------------------------------------------
(* The operations.                                                         *)

\* record: a count above i64 is no SQL value, and the error is dropped.
Record(m, tokens) ==
    /\ recorded.requests < MaxRecorded
    /\ IF Fits(tokens)
       THEN /\ usage' = Append(usage, [model |-> m, tokens |-> tokens])
            /\ counted' = [counted EXCEPT ![m] = OneMore(@, tokens)]
            /\ recorded' = OneMore(recorded, tokens)
       ELSE UNCHANGED <<usage, counted, recorded>>
    /\ UNCHANGED <<totals, deleted>>

\* consolidate_aged of the n oldest rows: nothing is deleted when no group
\* could be read, and all n are when one could.
ConsolidateAged(n) ==
    /\ n \in 1 .. Len(usage)
    /\ LET groups == Groups(SubSeq(usage, 1, n))
       IN  IF DOMAIN groups = {}
           THEN UNCHANGED <<usage, totals>>
           ELSE /\ totals' = UpsertAll(totals, groups)
                /\ usage' = SubSeq(usage, n + 1, Len(usage))
    /\ UNCHANGED <<deleted, counted, recorded>>

\* Bug: the aged counters merged into the rollup and kept.
ConsolidateDeleted_KeepsTotals ==
    /\ usage # <<>> \/ totals # NoCounters
    /\ deleted' = UpsertAll(UpsertAll(deleted, Groups(usage)), Readable(totals))
    /\ usage' = <<>>
    /\ UNCHANGED <<totals, counted, recorded>>

\* consolidate_deleted, once the key is revoked and idle: the groups of the
\* raw rows, then the aged counters, and both are deleted.  The key may be in
\* use again: a request that was open is recorded after it.
ConsolidateDeleted ==
    /\ usage # <<>> \/ totals # NoCounters
    /\ deleted' = UpsertAll(UpsertAll(deleted, Groups(usage)), Readable(totals))
    /\ usage' = <<>>
    /\ totals' = NoCounters
    /\ UNCHANGED <<counted, recorded>>

Next ==
    \/ \E m \in Models, tokens \in Tokens: Record(m, tokens)
    \/ \E n \in 1 .. Len(usage): ConsolidateAged(n)
    \/ ConsolidateDeleted

Spec == Init /\ [][Next]_vars

------------------------------------------------------------------------------
(* What is read back.                                                      *)

\* SUM over a table of counters.
Sum(counters) ==
    LET upTo[m \in 0 .. LastModel] ==
            IF m = 0 THEN 0 ELSE Plus(upTo[m - 1], counters[m].tokens)
    IN  upTo[LastModel]

\* Bug: the rollup of deleted keys left out.
AllTime_NoRollup ==
    LET all == Plus(Tally(usage, Models).tokens, Sum(totals))
    IN  IF all = Float THEN 0 ELSE all

\* total_token_usage: the sum over all tables, 0 when it cannot be read.
AllTime ==
    LET all == Plus(Plus(Tally(usage, Models).tokens, Sum(totals)), Sum(deleted))
    IN  IF all = Float THEN 0 ELSE all

------------------------------------------------------------------------------

\* While what was recorded fits into an integer, the sets of rows UsageStorage
\* keeps and the numbers here say the same: each model's counters, over the
\* three tables, are exactly what was recorded of it.
CountersExact ==
    Fits(recorded.tokens) =>
        \A m \in Models: LET raw == Tally(usage, {m})
                         IN  /\ raw.requests + totals[m].requests + deleted[m].requests = counted[m].requests
                             /\ raw.tokens + totals[m].tokens + deleted[m].tokens = counted[m].tokens

\* "All-time token totals across every table ... rotated-out models keep
\* counting": the figure the dashboard shows is what was recorded, while that
\* fits into an integer.
TotalIsAllTime == Fits(recorded.tokens) => AllTime = recorded.tokens
=============================================================================
