---------------------------- MODULE DashboardStats ---------------------------
(***************************************************************************)
(* The dashboard's pages over the usage database: the handlers read the    *)
(* set of active keys (key_manager.rs), then the snapshot of the tables    *)
(* with a key, then the rollup of deleted keys and the all-time total      *)
(* (metrics.rs), each under its own lock, while requests are recorded and  *)
(* maintenance moves rows.                                                 *)
(***************************************************************************)
EXTENDS UsageStorage

VARIABLE
    page    \* the page being computed: its step, what it has read so far,
            \* and (history) the rows that were counted when it was asked for

pageVars == <<vars, page>>

\* `advertised` are the models that the process advertises: usage of others is
\* from before their provider dropped them, or the allowlist changed.
NoPage == [step |-> "none", advertised |-> {}, active |-> {}, listed |-> {}, folded |-> {},
           total |-> {}, counted |-> {}]

PageInit == Init /\ page = NoPage

\* stats_handler, models_handler: the first read is the active set.
ReadActive ==
    /\ page.step = "none"
    /\ \E shown \in SUBSET Models:
        page' = [NoPage EXCEPT !.step = "active", !.advertised = shown,
                               !.active = keys, !.counted = Ledger]
    /\ UNCHANGED vars

\* Bug: revoked keys idle for StaleDays filtered out of the listing in memory,
\* before maintenance has folded them.
ReadSnapshot_StaleFilter ==
    /\ page.step = "active"
    /\ page' = [page EXCEPT !.step = "listed",
                            !.listed = UNION {RowsOf(k): k \in Keys \ StaleKeys(page.active, now)}]
    /\ UNCHANGED vars

\* Storage::snapshot: both tables with a key, under one lock.  The stats page
\* is answered from it; a key not in the active set is listed as deleted.
ReadSnapshot ==
    /\ page.step = "active"
    /\ page' = [page EXCEPT !.step = "listed", !.listed = usage \cup Aged]
    /\ UNCHANGED vars

Shown(rows) == {r \in rows: r.model \in page.advertised}

\* deleted_usage_rows, merged into the per-model sums, of which those of the
\* models that are advertised are kept.
ReadRollup ==
    /\ page.step = "listed"
    /\ page' = [page EXCEPT !.step = "merged", !.listed = Shown(@), !.folded = Shown(Deleted)]
    /\ UNCHANGED vars

\* total_token_usage: the three tables, whatever is advertised.  The models
\* page is answered from all this.
ReadTotal ==
    /\ page.step = "merged"
    /\ page' = [page EXCEPT !.step = "complete", !.total = Ledger]
    /\ UNCHANGED vars

\* The answer is sent, or the client goes away.
EndPage ==
    /\ page.step # "none"
    /\ page' = NoPage
    /\ UNCHANGED vars

\* A handler reads in milliseconds: no day boundary falls into a page.
WhilePage == page.step # "none" => UNCHANGED now

PageNext ==
    \/ ReadActive \/ ReadSnapshot \/ ReadRollup \/ ReadTotal \/ EndPage
    \/ Running /\ WhilePage /\ UNCHANGED page
    \/ Restart /\ page' = NoPage

PageSpec == PageInit /\ [][PageNext]_pageVars

\* With the maintenance task's fairness; nobody has to look at a page.
FairPageSpec == PageSpec /\ Fairness

------------------------------------------------------------------------------

\* "Per-model usage across all keys, restricted to currently advertised
\* models": the models page counts every request for one of those that was
\* counted when it was asked for, wherever maintenance moved it since (the
\* snapshot is read before the rollup, and rows only move towards the rollup);
\* and its total counts all of them, and no less than the rows beside it.
PageNeverUndercounts ==
    /\ page.step \in {"merged", "complete"} => Shown(page.counted) \subseteq page.listed \cup page.folded
    /\ page.step = "complete" => page.counted \cup page.listed \cup page.folded \subseteq page.total

\* "Folded-deleted keys are NOT in the snapshot, but their per-model totals
\* from the rollup are merged in here": a request is in one of the two sums.
PageCountsOnce == page.step = "merged" => page.listed \cap page.folded = {}
=============================================================================
