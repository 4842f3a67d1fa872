----------------------------- MODULE UsageStorage ----------------------------
(***************************************************************************)
(* The usage database of proxai (storage.rs) and what drives it: the       *)
(* middleware that authenticates a request (auth.rs), the handler that     *)
(* records it when it completes (handlers.rs), the keys table that is read *)
(* for the set of active keys (key_manager.rs), and the maintenance task   *)
(* that moves rows between the tables (server.rs).                         *)
(*                                                                         *)
(* A counter row of the database is modelled by the SET of raw rows it has *)
(* absorbed: its `requests` is the cardinality of the set, its token sums  *)
(* the sums over it and its `last_used` the maximum of the days in it.     *)
(* `requests + excluded.requests` of an upsert is then the union of two    *)
(* sets, and it is that sum because the two are disjoint, which            *)
(* EachRequestCountedOnce states.                                          *)
(*                                                                         *)
(* Time is counted in days; `now` is the date every SQL datetime('now')    *)
(* and chrono::Utc::now() returns.                                         *)
(***************************************************************************)
EXTENDS Naturals

CONSTANTS
    Keys, Models, Requests,
    StaleDays,       \* STALE_DELETED_KEY_DAYS, 7 in the code
    ChartDays,       \* the longest range of the timeline chart, 7 in the code
    ConfiguredDays,  \* usage_retention_days of the configuration
    MaxPass,         \* bound: days one maintenance pass may last
    MaxDay           \* bound: the last day of the clock

\* Bug: the clamp to the chart's window forgotten.
Retention_NoClamp == ConfiguredDays

\* usage_retention_days.max(7)
Retention == IF ConfiguredDays > ChartDays THEN ConfiguredDays ELSE ChartDays

\* Idle revoked keys leave the raw table after StaleDays, so the chart is
\* complete only if that is no shorter than the chart (both are 7).
ASSUME WindowAssumption ==
    /\ StaleDays \in Nat /\ ChartDays \in Nat /\ ConfiguredDays \in Nat
    /\ ChartDays <= StaleDays

\* A pass uses the active set it read at its start: it must be over before
\* a key generated after that read can look idle.
ASSUME PassAssumption == MaxPass \in Nat /\ MaxPass <= StaleDays

ASSUME ClockAssumption == MaxDay \in Nat

VARIABLES
    keys,       \* the keys table: the hashes of the keys that exist
    revoked,    \* history: the keys that existed and were revoked
    fresh,      \* requests that have not arrived yet
    inflight,   \* authenticated requests that are not recorded yet
    usage,      \* table usage: one raw row per recorded request
    totals,     \* table usage_totals: per (key, model), the rows absorbed
    rollup,     \* table deleted_usage: per model, the rows absorbed
    maint,      \* the maintenance task: its step, the active set it read, when
    now         \* today

tables == <<usage, totals, rollup>>
vars == <<keys, revoked, fresh, inflight, usage, totals, rollup, maint, now>>

Row == [req: Requests, key: Keys, model: Models, day: 0 .. MaxDay]
Open == [req: Requests, key: Keys, model: Models]

\* The maintenance task between two passes.
Waiting == [step |-> "waiting", seen |-> {}, start |-> 0]

Aged == UNION {totals[c]: c \in Keys \X Models}
Deleted == UNION {rollup[m]: m \in Models}
Ledger == usage \cup Aged \cup Deleted

\* What the two tables that have a key_hash column hold of key k.
RowsOf(k) ==
    {r \in usage: r.key = k} \cup UNION {totals[<<k, m>>]: m \in Models}

Init ==
    /\ keys = {} /\ revoked = {}
    /\ fresh = Requests /\ inflight = {}
    /\ usage = {}
    /\ totals = [c \in Keys \X Models |-> {}]
    /\ rollup = [m \in Models |-> {}]
    /\ maint = Waiting
    /\ now = 0

------------------------------------------------------------------------------
(* The keys table.                                                         *)

\* A new random key, never the hash of an earlier one.
GenerateKey(k) ==
    /\ k \notin keys \cup revoked
    /\ keys' = keys \cup {k}
    /\ UNCHANGED <<revoked, fresh, inflight, tables, maint, now>>

\* The key's row is deleted; its usage rows and open requests are not.
RevokeKey(k) ==
    /\ k \in keys
    /\ keys' = keys \ {k}
    /\ revoked' = revoked \cup {k}
    /\ UNCHANGED <<fresh, inflight, tables, maint, now>>

------------------------------------------------------------------------------
(* Requests.                                                               *)

\* require_api_key: the key exists now; it may be revoked before the
\* upstream answers.
Authenticate(q, k, m) ==
    /\ q \in fresh
    /\ k \in keys
    /\ fresh' = fresh \ {q}
    /\ inflight' = inflight \cup {[req |-> q, key |-> k, model |-> m]}
    /\ UNCHANGED <<keys, revoked, tables, maint, now>>

\* Bug: created_at stamped in a timezone ahead of the UTC the cutoffs use.
RowFor_LocalStamp(o, d) == [req |-> o.req, key |-> o.key, model |-> o.model, day |-> d + 1]

\* The row a request leaves when it completes on day d.
RowFor(o, d) == [req |-> o.req, key |-> o.key, model |-> o.model, day |-> d]

\* Storage::record inserts a raw row, whatever became of the key meanwhile.
Record(o) ==
    /\ o \in inflight
    /\ inflight' = inflight \ {o}
    /\ usage' = usage \cup {RowFor(o, now)}
    /\ UNCHANGED <<keys, revoked, fresh, totals, rollup, maint, now>>

\* Unknown model, upstream error, a client that left a buffered request, or
\* an INSERT whose error `let _ =` discards: nothing is recorded.
Abandon(o) ==
    /\ o \in inflight
    /\ inflight' = inflight \ {o}
    /\ UNCHANGED <<keys, revoked, fresh, tables, maint, now>>

------------------------------------------------------------------------------
(* The maintenance task: active_hashes, consolidate_aged, consolidate_deleted. *)

\* Bug: the active set read once, at startup, before any key existed.
MaintStart_StaleSet ==
    /\ maint.step = "waiting"
    /\ maint' = [step |-> "aged", seen |-> {}, start |-> now]
    /\ UNCHANGED <<keys, revoked, fresh, inflight, tables, now>>

\* ticker.tick() returns and the active set is read, before the work is
\* handed to a blocking thread.
MaintStart ==
    /\ maint.step = "waiting"
    /\ maint' = [step |-> "aged", seen |-> keys, start |-> now]
    /\ UNCHANGED <<keys, revoked, fresh, inflight, tables, now>>

\* A cutoff is computed before the connection lock is taken: the instant it
\* counts from lies anywhere between the start of the pass and now.
CutoffInstants == maint.start .. now

\* Bug: the test for an active key inverted.
OldRows_Inactive(active, at) ==
    {r \in usage: r.key \notin active /\ r.day + Retention < at}

OldRows(active, at) == {r \in usage: r.key \in active /\ r.day + Retention < at}

\* Bug: the DELETE after the upserts forgotten.
ConsolidateAged_NoDelete ==
    /\ maint.step = "aged"
    /\ \E at \in CutoffInstants:
        totals' = [c \in Keys \X Models |-> totals[c] \cup
            {r \in OldRows(maint.seen, at): r.key = c[1] /\ r.model = c[2]}]
    /\ maint' = [maint EXCEPT !.step = "deleted"]
    /\ UNCHANGED <<keys, revoked, fresh, inflight, usage, rollup, now>>

\* One transaction: rows older than the retention, of keys in the active
\* set, are merged into their (key, model) counters and deleted.
ConsolidateAged ==
    /\ maint.step = "aged"
    /\ \E at \in CutoffInstants:
        LET old == OldRows(maint.seen, at) IN
        /\ usage' = usage \ old
        /\ totals' = [c \in Keys \X Models |->
                totals[c] \cup {r \in old: r.key = c[1] /\ r.model = c[2]}]
    /\ maint' = [maint EXCEPT !.step = "deleted"]
    /\ UNCHANGED <<keys, revoked, fresh, inflight, rollup, now>>

\* Bug: the UNION ALL with usage_totals forgotten in the staleness query.
StaleKeys_RawOnly(active, at) ==
    {k \in Keys \ active:
        /\ \E r \in usage: r.key = k
        /\ \A r \in usage: r.key = k => r.day + StaleDays < at}

\* Not in the active set, and MAX(ts) over both tables is before the cutoff.
StaleKeys(active, at) ==
    {k \in Keys \ active:
        /\ RowsOf(k) # {}
        /\ \A r \in RowsOf(k): r.day + StaleDays < at}

\* Bug: the aged counters deleted without being merged into the rollup.
ConsolidateDeleted_RawOnly ==
    /\ maint.step = "deleted"
    /\ \E at \in CutoffInstants:
        LET stale == StaleKeys(maint.seen, at) IN
        /\ rollup' = [m \in Models |->
                rollup[m] \cup {r \in usage: r.key \in stale /\ r.model = m}]
        /\ usage' = {r \in usage: r.key \notin stale}
        /\ totals' = [c \in Keys \X Models |->
                IF c[1] \in stale THEN {} ELSE totals[c]]
    /\ maint' = Waiting
    /\ UNCHANGED <<keys, revoked, fresh, inflight, now>>

\* One transaction: everything the two tables hold of a stale key is merged
\* into the per-model rollup and deleted from both.
ConsolidateDeleted ==
    /\ maint.step = "deleted"
    /\ \E at \in CutoffInstants:
        LET stale == StaleKeys(maint.seen, at) IN
        /\ rollup' = [m \in Models |->
                rollup[m] \cup {r \in usage: r.key \in stale /\ r.model = m}
                          \cup UNION {totals[<<k, m>>]: k \in stale}]
        /\ usage' = {r \in usage: r.key \notin stale}
        /\ totals' = [c \in Keys \X Models |->
                IF c[1] \in stale THEN {} ELSE totals[c]]
    /\ maint' = Waiting
    /\ UNCHANGED <<keys, revoked, fresh, inflight, now>>

\* Any error rolls the open transaction back; `?` skips what is left of the
\* pass, so an error in consolidate_aged also skips consolidate_deleted.
MaintFails ==
    /\ maint.step # "waiting"
    /\ maint' = Waiting
    /\ UNCHANGED <<keys, revoked, fresh, inflight, tables, now>>

------------------------------------------------------------------------------
(* The environment.                                                        *)

\* The process dies and the service manager restarts it: the tables survive,
\* open requests and the maintenance pass do not.
Restart ==
    /\ inflight' = {}
    /\ maint' = Waiting
    /\ UNCHANGED <<keys, revoked, fresh, tables, now>>

Tick ==
    /\ now < MaxDay
    /\ maint.step # "waiting" => now < maint.start + MaxPass
    /\ now' = now + 1
    /\ UNCHANGED <<keys, revoked, fresh, inflight, tables, maint>>

\* Every step of a running process, and of the clock.
Running ==
    \/ \E k \in Keys: GenerateKey(k) \/ RevokeKey(k)
    \/ \E q \in Requests, k \in Keys, m \in Models: Authenticate(q, k, m)
    \/ \E o \in inflight: Record(o) \/ Abandon(o)
    \/ MaintStart \/ ConsolidateAged \/ ConsolidateDeleted \/ MaintFails
    \/ Tick

Next == Running \/ Restart

\* The ticker fires again and again; a transaction may fail, and the process
\* may die, any number of times, but a step tried again and again succeeds.
Fairness ==
    /\ WF_vars(MaintStart)
    /\ SF_vars(ConsolidateAged)
    /\ SF_vars(ConsolidateDeleted)

Safety == Init /\ [][Next]_vars
Spec == Safety /\ Fairness

------------------------------------------------------------------------------
(* Properties.                                                             *)

\* Types.  A counter row holds what its key columns say, no row is stamped
\* in the future, and a pass began in the past with keys that had existed.
TypeOK ==
    /\ keys \subseteq Keys /\ revoked \subseteq Keys
    /\ keys \cap revoked = {}
    /\ fresh \subseteq Requests /\ inflight \subseteq Open
    /\ usage \subseteq Row
    /\ totals \in [Keys \X Models -> SUBSET Row]
    /\ \A k \in Keys, m \in Models:
          \A r \in totals[<<k, m>>]: r.key = k /\ r.model = m
    /\ rollup \in [Models -> SUBSET Row]
    /\ \A m \in Models: \A r \in rollup[m]: r.model = m
    /\ \A r \in Ledger: r.day <= now /\ r.key \in keys \cup revoked
    /\ \A o \in inflight: o.key \in keys \cup revoked
    /\ maint \in [step: {"waiting", "aged", "deleted"},
                  seen: SUBSET (keys \cup revoked), start: 0 .. now]
    /\ now \in 0 .. MaxDay

\* No request is counted twice: the three tables are disjoint, and a request
\* has at most one row in them, none while it is open or has not arrived.
\* This is what makes the sums of the upserts, of `snapshot` and of
\* `total_token_usage` (UNION ALL over the tables) right.
EachRequestCountedOnce ==
    /\ usage \cap Aged = {} /\ usage \cap Deleted = {} /\ Aged \cap Deleted = {}
    /\ \A r, s \in Ledger: r.req = s.req => r = s
    /\ \A r \in Ledger: r.req \notin fresh /\ \A o \in inflight: o.req # r.req
    /\ \A o, p \in inflight: o.req = p.req => o = p
    /\ \A o \in inflight: o.req \notin fresh

\* The timeline chart reads raw rows only: no row young enough for its
\* longest range has been merged into a counter, whatever the configured
\* retention and whenever a key was revoked (server.rs, the 7 day clamp).
ChartComplete == \A r \in Aged \cup Deleted: r.day + ChartDays < now

\* "Active keys are always kept regardless of age": no row of a key that
\* exists is in the rollup of deleted keys, although a pass decides with an
\* active set that keys generated since are missing from.
ActiveKeyNeverFolded == \A r \in Deleted: r.key \notin keys

\* Why: whatever a pass takes for revoked wrongly, because it was generated
\* after the active set was read, has only rows recorded since then, and the
\* pass is too short for them to look idle.
PassKnowsOlderKeys ==
    maint.step # "waiting" =>
        /\ now <= maint.start + MaxPass
        /\ \A r \in Ledger: r.key \in keys \ maint.seen => maint.start <= r.day

\* Rows are moved and merged between the tables, never lost, never changed:
\* the database implements the ledger.
L == INSTANCE UsageLedger WITH ledger <- Ledger, Days <- 0 .. MaxDay
ImplementsLedger == L!Spec

Idle(k) == \A r \in RowsOf(k): r.day + StaleDays < now
Settled(k) == k \in revoked /\ \A o \in inflight: o.key # k

\* A revoked key that is idle, with no request open, is folded in the end,
\* in whichever of the two tables its usage is and however often a
\* transaction fails or the process restarts.
IdleRevokedKeysFolded ==
    \A k \in Keys: Settled(k) /\ Idle(k) ~> RowsOf(k) = {}

\* A raw row older than the retention leaves the raw table in the end,
\* unless its key is revoked first ("this bounds the raw table").
AgedRowsFolded ==
    \A q \in Requests, k \in Keys:
        (k \in keys /\ \E r \in usage: r.req = q /\ r.key = k /\ r.day + Retention < now)
            ~> (k \notin keys \/ \A r \in usage: r.req # q)
=============================================================================
