------------------------------- MODULE KeyStore ------------------------------
(***************************************************************************)
(* keys.db (key_manager.rs): the table of API keys across the restarts of  *)
(* the process.  Opening it rebuilds a table that still has integer ids,   *)
(* and imports keys.json, one committed row at a time, when it is empty.   *)
(*                                                                         *)
(* A statement outside a transaction commits alone, and the mutex around   *)
(* the connection is one of this process: another process may come between *)
(* the statements of an operation (OfflineTool).                           *)
(*                                                                         *)
(* A key stands for its hash.  The order of `store` is the order of rowid, *)
(* which a table scan follows.                                             *)
(***************************************************************************)
EXTENDS Integers, Sequences

CONSTANTS
    Keys,        \* hashes
    NoKey,       \* the empty hash of a malformed entry of keys.json
    Names,       \* display names; a name may be shared, or equal an id
    Ids,         \* random text ids
    LegacyRows,  \* what a database with integer ids holds at first, or <<>>
    Json         \* keys.json: a sequence of [key, name], <<>> if there is none

\* A row, also of a legacy table; neither ids nor hashes occur twice there.
Row == [id: Int \cup Ids, name: Names, key: Keys]

ASSUME LegacyAssumption ==
    /\ LegacyRows \in Seq(Row)
    /\ \A n, p \in DOMAIN LegacyRows:
          LegacyRows[n].id = LegacyRows[p].id \/ LegacyRows[n].key = LegacyRows[p].key => n = p

ASSUME JsonAssumption ==
    /\ NoKey \notin Keys
    /\ Json \in Seq([key: Keys \cup {NoKey}, name: Names])

VARIABLES
    store,      \* table keys, in rowid order
    phase,      \* the process: "down", then in open, then "up"
    next,       \* the entry of keys.json to import next
    selected,   \* the rows found by revocations that have not deleted yet
    revoked     \* history: the keys whose revocation was reported

vars == <<store, phase, next, selected, revoked>>

\* Where open_with_tz is: the schema was found old, or is found or made new,
\* or keys.json is being imported.
Phases == {"down", "rebuilding", "opening", "importing", "up"}

Entry == [id: Ids, name: Names, key: Keys]

KeysOf(rows) == {rows[n].key: n \in DOMAIN rows}
IdsOf(rows) == {rows[n].id: n \in DOMAIN rows}
JsonKeys == KeysOf(Json) \ {NoKey}

\* What the program may still draw: random bytes do not repeat what the table
\* or a revocation under way holds, and 32 of them never repeat at all.
Fresh == Ids \ (IdsOf(store) \cup {row.id: row \in selected})
Ungenerated == Keys \ (KeysOf(store) \cup revoked \cup JsonKeys)

Init ==
    /\ store = LegacyRows
    /\ phase = "down"
    /\ next = 1
    /\ selected = {}
    /\ revoked = {}

------------------------------------------------------------------------------
(* Opening the database.                                                   *)

\* Bug: only the rows whose id is an integer are copied.
Renamed_IntegerRows(rows) ==
    LET old == SelectSeq(rows, LAMBDA e: e.id \notin Ids)
    IN  {new \in [DOMAIN old -> Entry]:
            /\ \A n \in DOMAIN old: new[n].key = old[n].key /\ new[n].name = old[n].name
            /\ \A n, p \in DOMAIN old: new[n].id = new[p].id => n = p}

\* Random ids for all rows the table has by now, be theirs integers or not,
\* in one transaction.
Renamed(rows) ==
    {new \in [DOMAIN rows -> Entry]:
        /\ \A n \in DOMAIN rows: new[n].key = rows[n].key /\ new[n].name = rows[n].name
        /\ \A n \in DOMAIN rows: \A row \in selected: new[n].id # row.id
        /\ \A n, p \in DOMAIN rows: new[n].id = new[p].id => n = p}

\* The type of the id column is read (an empty table of integer ids would be
\* rebuilt into an empty one, like a new one).
CheckSchema ==
    /\ phase = "down"
    /\ phase' = IF IdsOf(store) \subseteq Ids THEN "opening" ELSE "rebuilding"
    /\ next' = 1
    /\ UNCHANGED <<store, selected, revoked>>

Rebuild ==
    /\ phase = "rebuilding"
    /\ store' \in Renamed(store)
    /\ phase' = "opening"
    /\ UNCHANGED <<next, selected, revoked>>

\* is_empty: only an empty table gets the import; a count that fails does not.
IsEmpty ==
    /\ phase = "opening"
    /\ phase' \in IF store = <<>> THEN {"importing", "up"} ELSE {"up"}
    /\ UNCHANGED <<store, next, selected, revoked>>

\* INSERT OR IGNORE of one entry under a fresh id, a transaction of its own.
ImportRow(e, i) ==
    store' = IF e.key \in KeysOf(store)
             THEN store
             ELSE Append(store, [id |-> i, name |-> e.name, key |-> e.key])

\* One turn of the loop over keys.json; an entry without a hash is skipped.
Import(i) ==
    /\ phase = "importing"
    /\ next <= Len(Json)
    /\ IF Json[next].key = NoKey THEN UNCHANGED store ELSE ImportRow(Json[next], i)
    /\ next' = next + 1
    /\ UNCHANGED <<phase, selected, revoked>>

\* The loop is over, or there is no file (or none that parses).
EndImport ==
    /\ phase = "importing"
    /\ next > Len(Json)
    /\ phase' = "up"
    /\ UNCHANGED <<store, next, selected, revoked>>

\* An insert fails: a warning, the rest is left out, and the process goes on.
ImportFails ==
    /\ phase = "importing"
    /\ next <= Len(Json)
    /\ Json[next].key # NoKey
    /\ phase' = "up"
    /\ UNCHANGED <<store, next, selected, revoked>>

\* KeyManager::open_with_tz, step by step.
Opening ==
    \/ CheckSchema \/ Rebuild \/ IsEmpty
    \/ \E i \in Fresh: Import(i)
    \/ EndImport \/ ImportFails

------------------------------------------------------------------------------
(* Operations of the running process (dashboard and admin socket).         *)

\* Bug: the lock is taken for each statement.
Unlocked_PerStatement == TRUE

\* The mutex around the connection, which a revocation holds throughout.
Unlocked == selected = {}

Generate(k, n, i) ==
    /\ phase = "up" /\ Unlocked
    /\ k \in Ungenerated
    /\ store' = Append(store, [id |-> i, name |-> n, key |-> k])
    /\ UNCHANGED <<phase, next, selected, revoked>>

\* WHERE name = ?1 OR id = ?1
Matches(target) ==
    {n \in DOMAIN store: store[n].name = target \/ store[n].id = target}

\* The first statement of revoke: id and name of the first row that matches.
Find(target, row) ==
    /\ phase = "up" /\ Unlocked
    /\ \E n \in Matches(target): row = store[n] /\ \A p \in Matches(target): n <= p
    /\ selected' = selected \cup {row}
    /\ UNCHANGED <<store, phase, next, revoked>>

\* Bug: the delete repeats the search, and takes every row it matches.
Without_AllMatches(rows, n) == SelectSeq(rows, LAMBDA e: e.name # rows[n].name)

Without(rows, n) == SubSeq(rows, 1, n - 1) \o SubSeq(rows, n + 1, Len(rows))

\* The second one, DELETE WHERE id = the id found, a primary key: the row is
\* reported as revoked, whether a row still had that id or not.
Delete(row) ==
    /\ phase = "up"
    /\ \/ \E n \in DOMAIN store: store[n].id = row.id /\ store' = Without(store, n)
       \/ row.id \notin IdsOf(store) /\ UNCHANGED store
    /\ selected' = selected \ {row}
    /\ revoked' = revoked \cup {row.key}
    /\ UNCHANGED <<phase, next>>

\* Bug: the result of the delete is ignored, and the row reported all the same.
DeleteFails_Ignored(row) ==
    /\ phase = "up"
    /\ selected' = selected \ {row}
    /\ revoked' = revoked \cup {row.key}
    /\ UNCHANGED <<store, phase, next>>

\* It fails, and revoke returns the error.
DeleteFails(row) ==
    /\ phase = "up"
    /\ selected' = selected \ {row}
    /\ UNCHANGED <<store, phase, next, revoked>>

\* The process dies, in the middle of anything; what was committed survives.
Crash ==
    /\ phase # "down"
    /\ phase' = "down"
    /\ selected' = {}
    /\ UNCHANGED <<store, next, revoked>>

Next ==
    \/ Opening
    \/ \E k \in Keys, n \in Names, i \in Fresh: Generate(k, n, i)
    \/ \E target \in Names \cup Ids, n \in DOMAIN store: Find(target, store[n])
    \/ \E row \in selected: Delete(row) \/ DeleteFails(row)
    \/ Crash

Spec == Init /\ [][Next]_vars

------------------------------------------------------------------------------

\* Types, and the table's two constraints: once opened, the rows have text
\* ids, no id occurs twice (revoke deletes one row) and no hash does (a
\* revoked key has no second row that still validates).
TypeOK ==
    /\ phase \in Phases
    /\ next \in 1 .. Len(Json) + 1
    /\ revoked \subseteq Keys /\ selected \subseteq Entry
    /\ phase \in {"opening", "importing", "up"} => store \in Seq(Entry)
    /\ \A n, p \in DOMAIN store:
          store[n].id = store[p].id \/ store[n].key = store[p].key => n = p

\* A key generated by proxai is not valid any more once its revocation was
\* reported, through crashes and imports of keys.json, if no other process
\* uses the table.
GeneratedStaysRevoked == \A k \in revoked \ JsonKeys: k \notin KeysOf(store)

\* "This cannot be undone." (the confirmation of a revocation)
RevokedStaysRevoked == \A k \in revoked: k \notin KeysOf(store)

\* Without a keys.json the table provides the keys the other modules assume:
\* one key issued or revoked at a time, none twice, whatever names are shared
\* and whenever the process crashes or renames its ids.
R == INSTANCE KeyRegistry WITH valid <- KeysOf(store), dead <- revoked
ImplementsRegistry == R!Spec
=============================================================================
