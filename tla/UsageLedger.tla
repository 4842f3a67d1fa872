----------------------------- MODULE UsageLedger -----------------------------
(***************************************************************************)
(* What the usage database promises, with no mechanism in it: every        *)
(* completed request that was counted once stays counted, with the key,    *)
(* the model and the day it was counted under, through every maintenance   *)
(* pass, revocation and restart.  UsageStorage implements it with three    *)
(* tables between which rows are moved and merged.                         *)
(***************************************************************************)
CONSTANTS
    Keys,       \* API keys, each identified by its hash
    Models,     \* advertised model ids
    Requests,   \* the requests clients will ever make
    Days        \* the days of the calendar

VARIABLE ledger     \* the rows that are counted

\* One counted request (`day` is the date of its created_at stamp).
Row == [req: Requests, key: Keys, model: Models, day: Days]

Init == ledger = {}

\* A request is counted: at most once, whatever was counted before.
Count(row) ==
    /\ \A r \in ledger: r.req # row.req
    /\ ledger' = ledger \cup {row}

Next == \E row \in Row: Count(row)

Spec == Init /\ [][Next]_ledger
=============================================================================
