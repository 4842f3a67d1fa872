------------------------------ MODULE OfflineTool ----------------------------
(***************************************************************************)
(* `proxai key generate` and `proxai key list` (main.rs): a second process *)
(* that opens keys.db itself, with all that opening does, while the server *)
(* may be starting, running or dead.  SQLite serializes their             *)
(* transactions; what each of them found before its next one may be stale. *)
(***************************************************************************)
EXTENDS KeyStore

CONSTANT MaxUses    \* bound: how often the tool is used

VARIABLES
    tool,       \* its process: "idle", "rebuilding", "opening", "importing", "open"
    entry,      \* the entry of keys.json it imports next
    printed,    \* history: the keys it has printed
    missed,     \* history: the keys whose row it renamed during their revocation
    uses

toolVars == <<vars, tool, entry, printed, missed, uses>>

ToolInit == Init /\ tool = "idle" /\ entry = 1 /\ printed = {} /\ missed = {} /\ uses = 0

\* The type of the id column is read, and a table with integer ids will be
\* rebuilt.
ToolStart ==
    /\ tool = "idle" /\ uses < MaxUses
    /\ tool' = IF IdsOf(store) \subseteq Ids THEN "opening" ELSE "rebuilding"
    /\ uses' = uses + 1
    /\ UNCHANGED <<vars, entry, printed, missed>>

\* Fresh ids for the rows the table has by now, be they integers or not; the
\* server may be between the two statements of a revocation.
ToolRebuild ==
    /\ tool = "rebuilding"
    /\ store' \in Renamed(store)
    /\ tool' = "opening"
    /\ missed' = missed \cup {row.key: row \in selected}
    /\ UNCHANGED <<phase, next, selected, revoked, entry, printed, uses>>

\* is_empty
ToolOpen ==
    /\ tool = "opening"
    /\ tool' \in IF store = <<>> THEN {"importing", "open"} ELSE {"open"}
    /\ entry' = 1
    /\ UNCHANGED <<vars, printed, missed, uses>>

\* Bug: an entry found missing is inserted, without OR IGNORE.
ToolImportRow_Inserts(e, i) == store' = Append(store, [id |-> i, name |-> e.name, key |-> e.key])

ToolImportRow(e, i) == ImportRow(e, i)

\* One entry, or the end of the file, or an error that ends the import.
ToolImport ==
    /\ tool = "importing"
    /\ \/ /\ entry <= Len(Json)
          /\ \/ /\ Json[entry].key # NoKey
                /\ \E i \in Fresh: ToolImportRow(Json[entry], i)
             \/ Json[entry].key = NoKey /\ UNCHANGED store
          /\ entry' = entry + 1
          /\ UNCHANGED tool
       \/ tool' = "open" /\ UNCHANGED <<store, entry>>
    /\ UNCHANGED <<phase, next, selected, revoked, printed, missed, uses>>

\* generate, and the key is printed.
ToolGenerate(k, n, i) ==
    /\ tool = "open"
    /\ k \in Ungenerated
    /\ store' = Append(store, [id |-> i, name |-> n, key |-> k])
    /\ printed' = printed \cup {k}
    /\ tool' = "idle"
    /\ UNCHANGED <<phase, next, selected, revoked, entry, missed, uses>>

\* list, an error, or the death of the process: nothing is written any more.
ToolEnds ==
    /\ tool # "idle"
    /\ tool' = "idle"
    /\ UNCHANGED <<vars, entry, printed, missed, uses>>

ToolNext ==
    \/ Next /\ UNCHANGED <<tool, entry, printed, missed, uses>>
    \/ ToolStart \/ ToolRebuild \/ ToolOpen \/ ToolImport \/ ToolEnds
    \/ \E k \in Keys, n \in Names, i \in Fresh: ToolGenerate(k, n, i)

ToolSpec == ToolInit /\ [][ToolNext]_toolVars

------------------------------------------------------------------------------

\* "Returns (id, name) of revoked key": a generated key that was reported as
\* revoked is out of the table for good, whatever the tool imports; only a
\* rebuild by the tool between the SELECT and the DELETE makes the report wrong.
RevokedUnlessRebuilt == \A k \in revoked \ (JsonKeys \cup missed): k \notin KeysOf(store)

\* "Runs once on open of a legacy database; new databases already use TEXT ids
\* and are untouched": whichever process rebuilds the table, even twice, a key
\* leaves it only by its revocation.
KeysLeaveByRevocation ==
    [][\A k \in KeysOf(store) \ KeysOf(store'): revoked' = revoked \cup {k}]_toolVars

\* "writes directly to keys.db": a key the tool printed is valid at once for a
\* server that runs, and until it is revoked.
PrintedKeyIsValid == printed \subseteq KeysOf(store) \cup revoked
=============================================================================
