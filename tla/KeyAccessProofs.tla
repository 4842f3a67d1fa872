--------------------------- MODULE KeyAccessProofs ---------------------------
(***************************************************************************)
(* Proofs about KeyStore, and about the two programs that use its table    *)
(* beside requests: the clients of AdminSocket, for any number of them and *)
(* any requests, and OfflineTool, a second process on keys.db with any     *)
(* number of uses; for any keys, names, ids, legacy table and keys.json.   *)
(***************************************************************************)
EXTENDS AdminSocket, OfflineTool, SequenceTheorems, TLAPS

------------------------------------------------------------------------------
(* Tables, and what one row more, one less, or fresh ids make of them.     *)

Distinct(rows) ==
    \A n, p \in DOMAIN rows: rows[n].id = rows[p].id \/ rows[n].key = rows[p].key => n = p

Table(rows) == rows \in Seq(Row) /\ Distinct(rows)

LEMMA SeqFacts ==
    ASSUME NEW S, NEW rows \in Seq(S)
    PROVE  /\ Len(rows) \in Nat /\ DOMAIN rows = 1 .. Len(rows)
           /\ \A n \in DOMAIN rows: rows[n] \in S
<1>1. Len(rows) \in Nat /\ DOMAIN rows = 1 .. Len(rows)
  BY LenProperties
<1>2. \A n \in 1 .. Len(rows): rows[n] \in S
  BY ElementOfSeq
<1> QED BY <1>1, <1>2

LEMMA EntriesAreRows ==
    ASSUME NEW rows \in Seq(Entry)
    PROVE  rows \in Seq(Row)
<1>1. Len(rows) \in Nat /\ rows = [n \in 1 .. Len(rows) |-> rows[n]]
  BY LenProperties
<1>2. \A n \in 1 .. Len(rows): rows[n] \in Row
  <2>1. \A n \in 1 .. Len(rows): rows[n] \in Entry
    BY ElementOfSeq
  <2>2. \A e \in Entry: e \in Row
    BY DEF Entry, Row
  <2> QED BY <2>1, <2>2
<1>3. [n \in 1 .. Len(rows) |-> rows[n]] \in Seq(Row)
  BY <1>1, <1>2, IsASeq
<1> QED BY <1>1, <1>3

\* A table with text ids only is one this version may have written.
LEMMA TextIdsAreEntries ==
    ASSUME NEW rows \in Seq(Row), IdsOf(rows) \subseteq Ids
    PROVE  rows \in Seq(Entry)
<1>1. Len(rows) \in Nat /\ rows = [n \in 1 .. Len(rows) |-> rows[n]]
  BY LenProperties
<1>2. \A n \in 1 .. Len(rows): rows[n] \in Entry
  <2>1. DOMAIN rows = 1 .. Len(rows) /\ \A n \in DOMAIN rows: rows[n] \in Row
    BY SeqFacts
  <2>2. \A n \in DOMAIN rows: rows[n].id \in Ids
    BY DEF IdsOf
  <2>3. \A e \in Row: e.id \in Ids => e \in Entry
    BY DEF Row, Entry
  <2> QED BY <2>1, <2>2, <2>3
<1>3. [n \in 1 .. Len(rows) |-> rows[n]] \in Seq(Entry)
  BY <1>1, <1>2, IsASeq
<1> QED BY <1>1, <1>3

LEMMA OneMore ==
    ASSUME NEW rows, Table(rows), rows \in Seq(Entry), NEW i, NEW n, NEW k,
           i \in Ids \ IdsOf(rows), n \in Names, k \in Keys \ KeysOf(rows)
    PROVE  LET more == Append(rows, [id |-> i, name |-> n, key |-> k])
           IN  /\ Table(more) /\ more \in Seq(Entry)
               /\ KeysOf(more) = KeysOf(rows) \cup {k}
               /\ IdsOf(more) = IdsOf(rows) \cup {i}
               /\ \A m \in DOMAIN more: more[m].id = i \/ \E p \in DOMAIN rows: more[m] = rows[p]
<1> DEFINE e == [id |-> i, name |-> n, key |-> k]
           more == Append(rows, e)
           len == Len(rows)
<1>1. e \in Entry /\ e.id = i /\ e.key = k
  BY DEF Entry
<1> HIDE DEF e
<1>2. /\ more \in Seq(Entry) /\ Len(more) = len + 1
      /\ \A m \in 1 .. len: more[m] = rows[m]
      /\ more[len + 1] = e
  BY <1>1, AppendProperties
<1>3. len \in Nat /\ DOMAIN rows = 1 .. len /\ DOMAIN more = 1 .. len + 1
  BY <1>2, SeqFacts
<1> HIDE DEF more
<1>4. \A m \in 1 .. len: rows[m].id # i /\ rows[m].key # k
  BY <1>3 DEF IdsOf, KeysOf
<1>5. Distinct(more)
  <2> SUFFICES ASSUME NEW a \in 1 .. len + 1, NEW b \in 1 .. len + 1,
                      more[a].id = more[b].id \/ more[a].key = more[b].key
               PROVE  a = b
    BY <1>3 DEF Distinct
  <2>1. CASE a \in 1 .. len /\ b \in 1 .. len
    BY <1>2, <1>3, <2>1 DEF Table, Distinct
  <2>2. CASE a \in 1 .. len /\ b = len + 1
    BY <1>1, <1>2, <1>4, <2>2
  <2>3. CASE a = len + 1 /\ b \in 1 .. len
    BY <1>1, <1>2, <1>4, <2>3
  <2>4. CASE a = len + 1 /\ b = len + 1
    BY <2>4
  <2> QED BY <1>3, <2>1, <2>2, <2>3, <2>4
<1>6. KeysOf(more) = KeysOf(rows) \cup {k}
  <2>1. \A m \in 1 .. len: more[m].key = rows[m].key
    BY <1>2
  <2>2. more[len + 1].key = k
    BY <1>1, <1>2
  <2>3. 1 .. len + 1 = (1 .. len) \cup {len + 1}
    BY <1>3
  <2> QED BY <1>3, <2>1, <2>2, <2>3 DEF KeysOf
<1>7. IdsOf(more) = IdsOf(rows) \cup {i}
  <2>1. \A m \in 1 .. len: more[m].id = rows[m].id
    BY <1>2
  <2>2. more[len + 1].id = i
    BY <1>1, <1>2
  <2>3. 1 .. len + 1 = (1 .. len) \cup {len + 1}
    BY <1>3
  <2> QED BY <1>3, <2>1, <2>2, <2>3 DEF IdsOf
<1>8. \A m \in DOMAIN more: more[m].id = i \/ \E p \in DOMAIN rows: more[m] = rows[p]
  <2> SUFFICES ASSUME NEW m \in 1 .. len + 1
               PROVE  more[m].id = i \/ \E p \in 1 .. len: more[m] = rows[p]
    BY <1>3
  <2>1. CASE m = len + 1
    BY <1>1, <1>2, <2>1
  <2>2. CASE m \in 1 .. len
    BY <1>2, <2>2
  <2> QED BY <1>3, <2>1, <2>2
<1>9. Table(more) /\ more \in Seq(Entry) /\ KeysOf(more) = KeysOf(rows) \cup {k}
  BY <1>2, <1>5, <1>6, EntriesAreRows DEF Table
<1> QED BY <1>7, <1>8, <1>9 DEF more, e

LEMMA OneLess ==
    ASSUME NEW rows, Table(rows), rows \in Seq(Entry), NEW n \in DOMAIN rows
    PROVE  /\ Table(Without(rows, n)) /\ Without(rows, n) \in Seq(Entry)
           /\ KeysOf(Without(rows, n)) = KeysOf(rows) \ {rows[n].key}
           /\ IdsOf(Without(rows, n)) = IdsOf(rows) \ {rows[n].id}
<1> DEFINE len == Len(rows)
           head == SubSeq(rows, 1, n - 1)
           tail == SubSeq(rows, n + 1, len)
           less == Without(rows, n)
<1>1. len \in Nat /\ n \in 1 .. len /\ DOMAIN rows = 1 .. len
      /\ \A m \in 1 .. len: rows[m] \in Entry
  BY SeqFacts
<1>2. /\ head \in Seq(Entry) /\ Len(head) = n - 1
      /\ \A m \in 1 .. n - 1: head[m] = rows[m]
  <2>1. \A m \in 1 .. n - 1: rows[m] \in Entry
    BY <1>1
  <2>2. /\ head \in Seq(Entry)
        /\ Len(head) = IF 1 <= n - 1 THEN (n - 1) - 1 + 1 ELSE 0
        /\ \A m \in 1 .. (n - 1) - 1 + 1: head[m] = rows[1 + m - 1]
    BY <1>1, <2>1, SubSeqProperties
  <2>3. \A m \in 1 .. n - 1: m \in 1 .. (n - 1) - 1 + 1 /\ 1 + m - 1 = m
    BY <1>1
  <2>4. (IF 1 <= n - 1 THEN (n - 1) - 1 + 1 ELSE 0) = n - 1
    BY <1>1
  <2> QED BY <2>2, <2>3, <2>4
<1>3. /\ tail \in Seq(Entry) /\ Len(tail) = len - n
      /\ \A m \in 1 .. len - n: tail[m] = rows[n + m]
  <2>1. \A m \in n + 1 .. len: rows[m] \in Entry
    BY <1>1
  <2>2. /\ tail \in Seq(Entry)
        /\ Len(tail) = IF n + 1 <= len THEN len - (n + 1) + 1 ELSE 0
        /\ \A m \in 1 .. len - (n + 1) + 1: tail[m] = rows[(n + 1) + m - 1]
    BY <1>1, <2>1, SubSeqProperties
  <2>3. \A m \in 1 .. len - n: m \in 1 .. len - (n + 1) + 1 /\ (n + 1) + m - 1 = n + m
    BY <1>1
  <2>4. (IF n + 1 <= len THEN len - (n + 1) + 1 ELSE 0) = len - n
    BY <1>1
  <2> QED BY <2>2, <2>3, <2>4
<1>4. less = head \o tail
  BY DEF Without
<1> HIDE DEF head, tail, less
<1>5. /\ less \in Seq(Entry) /\ Len(less) = (n - 1) + (len - n)
      /\ \A m \in 1 .. (n - 1) + (len - n):
            less[m] = IF m <= n - 1 THEN head[m] ELSE tail[m - (n - 1)]
  BY <1>2, <1>3, <1>4, ConcatProperties
<1>6. Len(less) = len - 1 /\ DOMAIN less = 1 .. len - 1
  <2>1. (n - 1) + (len - n) = len - 1
    BY <1>1
  <2>2. DOMAIN less = 1 .. Len(less)
    BY <1>5, SeqFacts
  <2> QED BY <1>5, <2>1, <2>2
\* Where the rows of the shorter table come from.
<1> DEFINE from(m) == IF m < n THEN m ELSE m + 1
<1>7. ASSUME NEW m \in 1 .. len - 1
      PROVE  from(m) \in (1 .. len) \ {n} /\ less[m] = rows[from(m)]
  <2>1. m \in 1 .. (n - 1) + (len - n)
    BY <1>1
  <2>2. CASE m < n
    <3>1. m \in 1 .. n - 1 /\ m <= n - 1 /\ m \in (1 .. len) \ {n}
      BY <1>1, <2>2
    <3>2. less[m] = head[m] /\ head[m] = rows[m]
      BY <1>2, <1>5, <2>1, <3>1
    <3> QED BY <2>2, <3>1, <3>2
  <2>3. CASE ~ (m < n)
    <3>1. /\ m - (n - 1) \in 1 .. len - n /\ ~ (m <= n - 1) /\ n + (m - (n - 1)) = m + 1
          /\ m + 1 \in (1 .. len) \ {n}
      BY <1>1, <2>3
    <3>2. less[m] = tail[m - (n - 1)]
      BY <1>5, <2>1, <3>1
    <3>3. tail[m - (n - 1)] = rows[m + 1]
      BY <1>3, <3>1
    <3> QED BY <2>3, <3>1, <3>2, <3>3
  <2> QED BY <2>2, <2>3
<1>8. \A p \in (1 .. len) \ {n}: \E m \in 1 .. len - 1: from(m) = p
  <2> SUFFICES ASSUME NEW p \in (1 .. len) \ {n} PROVE \E m \in 1 .. len - 1: from(m) = p
    OBVIOUS
  <2>1. CASE p < n
    <3>1. p \in 1 .. len - 1
      BY <1>1, <2>1
    <3> QED BY <2>1, <3>1
  <2>2. CASE ~ (p < n)
    <3>1. p - 1 \in 1 .. len - 1 /\ ~ (p - 1 < n) /\ p - 1 + 1 = p
      BY <1>1, <2>2
    <3> QED BY <3>1
  <2> QED BY <2>1, <2>2
<1>9. \A m, p \in 1 .. len - 1: from(m) = from(p) => m = p
  BY <1>1
<1> HIDE DEF from
<1>10. Distinct(less)
  <2> SUFFICES ASSUME NEW a \in 1 .. len - 1, NEW b \in 1 .. len - 1,
                      less[a].id = less[b].id \/ less[a].key = less[b].key
               PROVE  a = b
    BY <1>6 DEF Distinct
  <2>1. from(a) = from(b)
    BY <1>1, <1>7 DEF Table, Distinct
  <2> QED BY <1>9, <2>1
<1>11. \A p \in (1 .. len) \ {n}: rows[p].key # rows[n].key /\ rows[p].id # rows[n].id
  BY <1>1 DEF Table, Distinct
<1>12. KeysOf(less) = KeysOf(rows) \ {rows[n].key}
  <2>1. \A m \in 1 .. len - 1: less[m].key \in KeysOf(rows) \ {rows[n].key}
    BY <1>1, <1>7, <1>11 DEF KeysOf
  <2>2. ASSUME NEW k \in KeysOf(rows) \ {rows[n].key} PROVE \E m \in 1 .. len - 1: less[m].key = k
    <3>1. PICK p \in (1 .. len) \ {n}: rows[p].key = k
      BY <1>1 DEF KeysOf
    <3>2. PICK m \in 1 .. len - 1: from(m) = p
      BY <1>8
    <3> QED BY <1>7, <3>1, <3>2
  <2>3. KeysOf(less) = {less[m].key: m \in 1 .. len - 1}
    BY <1>6 DEF KeysOf
  <2> QED BY <2>1, <2>2, <2>3
<1>13. IdsOf(less) = IdsOf(rows) \ {rows[n].id}
  <2>1. \A m \in 1 .. len - 1: less[m].id \in IdsOf(rows) \ {rows[n].id}
    BY <1>1, <1>7, <1>11 DEF IdsOf
  <2>2. ASSUME NEW i \in IdsOf(rows) \ {rows[n].id} PROVE \E m \in 1 .. len - 1: less[m].id = i
    <3>1. PICK p \in (1 .. len) \ {n}: rows[p].id = i
      BY <1>1 DEF IdsOf
    <3>2. PICK m \in 1 .. len - 1: from(m) = p
      BY <1>8
    <3> QED BY <1>7, <3>1, <3>2
  <2>3. IdsOf(less) = {less[m].id: m \in 1 .. len - 1}
    BY <1>6 DEF IdsOf
  <2> QED BY <2>1, <2>2, <2>3
<1>14. /\ Table(less) /\ less \in Seq(Entry)
       /\ KeysOf(less) = KeysOf(rows) \ {rows[n].key}
       /\ IdsOf(less) = IdsOf(rows) \ {rows[n].id}
  BY <1>5, <1>6, <1>10, <1>12, <1>13, EntriesAreRows DEF Table
<1> QED BY <1>14 DEF less

LEMMA FreshIds ==
    ASSUME NEW rows, Table(rows), NEW new \in Renamed(rows)
    PROVE  /\ Table(new) /\ new \in Seq(Entry) /\ KeysOf(new) = KeysOf(rows)
           /\ \A n \in DOMAIN new: \A row \in selected: new[n].id # row.id
<1>1. Len(rows) \in Nat /\ DOMAIN rows = 1 .. Len(rows)
  BY SeqFacts DEF Table
<1>2. /\ new \in [DOMAIN rows -> Entry]
      /\ \A n \in DOMAIN rows: new[n].key = rows[n].key
      /\ \A n, p \in DOMAIN rows: new[n].id = new[p].id => n = p
      /\ \A n \in DOMAIN rows: \A row \in selected: new[n].id # row.id
  BY DEF Renamed
<1>3. new \in Seq(Entry)
  <2>1. new = [n \in 1 .. Len(rows) |-> new[n]] /\ \A n \in 1 .. Len(rows): new[n] \in Entry
    BY <1>1, <1>2
  <2>2. [n \in 1 .. Len(rows) |-> new[n]] \in Seq(Entry)
    BY <1>1, <2>1, IsASeq
  <2> QED BY <2>1, <2>2
<1>4. DOMAIN new = DOMAIN rows
  BY <1>2
<1>5. Distinct(new)
  BY <1>2, <1>4 DEF Table, Distinct
<1>6. KeysOf(new) = KeysOf(rows)
  BY <1>2, <1>4 DEF KeysOf
<1> QED BY <1>2, <1>3, <1>4, <1>5, <1>6, EntriesAreRows DEF Table

------------------------------------------------------------------------------
(* The invariant.  M are the keys whose row another process has renamed    *)
(* during their revocation: none, unless the tool is there.                *)

KInv == TypeOK /\ Table(store) /\ (selected # {} => phase = "up")

\* What revocations have found and reported: one row at a time, which is still
\* there, or else it was renamed; and who was reported is gone.
Sound(rows, found, gone, M) ==
    /\ \A k \in gone \ (JsonKeys \cup M): k \notin KeysOf(rows)
    /\ \A row \in found: row.id \in IdsOf(rows) \/ row.key \in M
    /\ \A row \in found: \A n \in DOMAIN rows: rows[n].id = row.id => rows[n].key = row.key
    /\ \A row1, row2 \in found: row1 = row2

\* What a step does to the keys: nothing, an import from the file, a new key,
\* one revocation, or one that came too late for a row that was renamed.
Effect(M) ==
    \/ KeysOf(store') = KeysOf(store) /\ revoked' = revoked
    \/ \E k \in JsonKeys \ KeysOf(store):
          KeysOf(store') = KeysOf(store) \cup {k} /\ revoked' = revoked
    \/ \E k \in Ungenerated: KeysOf(store') = KeysOf(store) \cup {k} /\ revoked' = revoked
    \/ \E k \in KeysOf(store):
          KeysOf(store') = KeysOf(store) \ {k} /\ revoked' = revoked \cup {k}
    \/ \E k \in M \cap Keys: KeysOf(store') = KeysOf(store) /\ revoked' = revoked \cup {k}

Kept(M) == Effect(M) /\ Sound(store', selected', revoked', M)

LEMMA JsonFacts ==
    /\ Len(Json) \in Nat /\ DOMAIN Json = 1 .. Len(Json) /\ NoKey \notin Keys
    /\ \A n \in 1 .. Len(Json): Json[n].key \in Keys \cup {NoKey} /\ Json[n].name \in Names
    /\ \A n \in 1 .. Len(Json): Json[n].key # NoKey => Json[n].key \in Keys \cap JsonKeys
<1>1. Json \in Seq([key: Keys \cup {NoKey}, name: Names]) /\ NoKey \notin Keys
  BY JsonAssumption
<1>2. /\ Len(Json) \in Nat /\ DOMAIN Json = 1 .. Len(Json)
      /\ \A n \in DOMAIN Json: Json[n] \in [key: Keys \cup {NoKey}, name: Names]
  BY <1>1, SeqFacts
<1> QED BY <1>1, <1>2 DEF JsonKeys, KeysOf

LEMMA StoreFacts ==
    ASSUME Table(store)
    PROVE  KeysOf(store) \subseteq Keys
<1>1. \A n \in DOMAIN store: store[n] \in Row
  BY SeqFacts DEF Table
<1> QED BY <1>1 DEF KeysOf, Row

\* Whatever the step, a sound table and one of the effects keep the types.
LEMMA KeepsInv ==
    ASSUME KInv, NEW M, Effect(M), Table(store'),
           phase' \in Phases, next' \in 1 .. Len(Json) + 1,
           phase' \in {"opening", "importing", "up"} => store' \in Seq(Entry),
           selected' \subseteq Entry, selected' # {} => phase' = "up"
    PROVE  KInv'
<1>1. KeysOf(store) \subseteq Keys /\ revoked \subseteq Keys
  BY StoreFacts DEF KInv, TypeOK
<1>2. revoked' \subseteq Keys
  BY <1>1 DEF Effect
<1>3. TypeOK'
  BY <1>2 DEF TypeOK, Table, Distinct
<1> QED BY <1>3 DEF KInv, Table, Distinct

LEMMA InitKInv == Init => KInv /\ Sound(store, selected, revoked, {})
<1> SUFFICES ASSUME Init PROVE KInv /\ Sound(store, selected, revoked, {})
  OBVIOUS
<1>1. Table(store) /\ revoked = {} /\ selected = {} /\ phase = "down" /\ next = 1
  BY LegacyAssumption DEF Init, Table, Distinct
<1>2. TypeOK
  BY <1>1, JsonFacts DEF TypeOK, Table, Distinct, Phases
<1> QED BY <1>1, <1>2 DEF KInv, Sound

\* One row more, under a fresh id, by whichever process: no revocation under
\* way is disturbed, and no revoked key comes back but one of the file.
LEMMA RowAdded ==
    ASSUME Table(store), store \in Seq(Entry), NEW M, Sound(store, selected, revoked, M),
           NEW i \in Fresh, NEW n \in Names, NEW k \in Keys \ KeysOf(store),
           k \in JsonKeys \/ k \notin revoked,
           store' = Append(store, [id |-> i, name |-> n, key |-> k])
    PROVE  /\ Table(store') /\ store' \in Seq(Entry)
           /\ KeysOf(store') = KeysOf(store) \cup {k}
           /\ Sound(store', selected, revoked, M)
<1>1. i \in Ids \ IdsOf(store) /\ \A row \in selected: row.id # i
  BY DEF Fresh
<1>2. /\ Table(store') /\ store' \in Seq(Entry)
      /\ KeysOf(store') = KeysOf(store) \cup {k} /\ IdsOf(store') = IdsOf(store) \cup {i}
      /\ \A m \in DOMAIN store': store'[m].id = i \/ \E p \in DOMAIN store: store'[m] = store[p]
  BY <1>1, OneMore
<1>3. \A k2 \in revoked \ (JsonKeys \cup M): k2 \notin KeysOf(store')
  BY <1>2 DEF Sound
<1>4. \A row \in selected: row.id \in IdsOf(store') \/ row.key \in M
  BY <1>2 DEF Sound
<1>5. ASSUME NEW row \in selected, NEW m \in DOMAIN store', store'[m].id = row.id
      PROVE  store'[m].key = row.key
  <2>1. PICK p \in DOMAIN store: store'[m] = store[p]
    BY <1>1, <1>2, <1>5
  <2> QED BY <1>5, <2>1 DEF Sound
<1>6. \A row1, row2 \in selected: row1 = row2
  BY DEF Sound
<1> QED BY <1>2, <1>3, <1>4, <1>5, <1>6 DEF Sound

------------------------------------------------------------------------------
(* The steps of opening.                                                   *)

LEMMA OpenStep ==
    ASSUME KInv, NEW M, Sound(store, selected, revoked, M), CheckSchema \/ Rebuild \/ IsEmpty
    PROVE  Kept(M) /\ KInv' /\ (store \in Seq(Entry) => store' \in Seq(Entry))
<1>1. 1 \in 1 .. Len(Json) + 1 /\ next \in 1 .. Len(Json) + 1 /\ selected \subseteq Entry
  BY JsonFacts DEF KInv, TypeOK
<1>2. CASE CheckSchema
  <2>1. /\ UNCHANGED <<store, selected, revoked>> /\ selected = {} /\ next' = 1
        /\ phase' \in Phases /\ (phase' \in {"opening", "importing", "up"} => IdsOf(store) \subseteq Ids)
    BY <1>2 DEF CheckSchema, KInv, Phases
  <2>2. phase' \in {"opening", "importing", "up"} => store' \in Seq(Entry)
    BY <2>1, TextIdsAreEntries DEF KInv, Table
  <2>3. Kept(M) /\ Effect(M)
    BY <2>1 DEF Kept, Effect
  <2>4. Table(store')
    BY <2>1 DEF KInv
  <2> QED BY <1>1, <2>1, <2>2, <2>3, <2>4, KeepsInv
<1>3. CASE Rebuild
  <2>1. /\ selected = {} /\ selected' = {} /\ revoked' = revoked /\ next' = next
        /\ phase' = "opening" /\ store' \in Renamed(store)
    BY <1>3 DEF Rebuild, KInv
  <2>2. Table(store') /\ store' \in Seq(Entry) /\ KeysOf(store') = KeysOf(store)
    BY <2>1, FreshIds DEF KInv
  <2>3. Effect(M) /\ Sound(store', selected', revoked', M)
    BY <2>1, <2>2 DEF Effect, Sound
  <2> QED BY <1>1, <2>1, <2>2, <2>3, KeepsInv DEF Kept, Phases
<1>4. CASE IsEmpty
  <2>1. /\ UNCHANGED <<store, selected, revoked, next>> /\ selected = {} /\ store \in Seq(Entry)
        /\ phase' \in Phases
    BY <1>4 DEF IsEmpty, KInv, TypeOK, Phases
  <2>2. Effect(M) /\ Sound(store', selected', revoked', M) /\ Table(store')
    BY <2>1 DEF Effect, KInv
  <2> QED BY <1>1, <2>1, <2>2, KeepsInv DEF Kept
<1> QED BY <1>2, <1>3, <1>4

\* INSERT OR IGNORE of an entry with a hash.
LEMMA ImportRowStep ==
    ASSUME Table(store), store \in Seq(Entry), NEW M, Sound(store, selected, revoked, M),
           NEW n \in 1 .. Len(Json), Json[n].key # NoKey,
           NEW i \in Fresh, ImportRow(Json[n], i), revoked' = revoked, selected' = selected
    PROVE  Kept(M) /\ Table(store') /\ store' \in Seq(Entry)
<1>1. Json[n].key \in Keys \cap JsonKeys /\ Json[n].name \in Names
  BY JsonFacts
<1>2. CASE Json[n].key \in KeysOf(store)
  <2>1. store' = store
    BY <1>2 DEF ImportRow
  <2> QED BY <2>1 DEF Kept, Effect
<1>3. CASE Json[n].key \notin KeysOf(store)
  <2>1. store' = Append(store, [id |-> i, name |-> Json[n].name, key |-> Json[n].key])
    BY <1>3 DEF ImportRow
  <2>2. /\ Table(store') /\ store' \in Seq(Entry)
        /\ KeysOf(store') = KeysOf(store) \cup {Json[n].key}
        /\ Sound(store', selected, revoked, M)
    BY <1>1, <1>3, <2>1, RowAdded
  <2> QED BY <1>1, <1>3, <2>2 DEF Kept, Effect
<1> QED BY <1>2, <1>3

LEMMA ImportStep ==
    ASSUME KInv, NEW M, Sound(store, selected, revoked, M), NEW i \in Fresh, Import(i)
    PROVE  Kept(M) /\ KInv' /\ store' \in Seq(Entry)
<1>1. /\ phase = "importing" /\ next <= Len(Json) /\ next' = next + 1 /\ phase' = phase
      /\ revoked' = revoked /\ selected' = selected /\ selected = {}
      /\ store \in Seq(Entry) /\ Table(store)
  BY DEF Import, KInv, TypeOK
<1>2. next \in 1 .. Len(Json) /\ next' \in 1 .. Len(Json) + 1
  BY <1>1, JsonFacts DEF KInv, TypeOK
<1>3. Kept(M) /\ Table(store') /\ store' \in Seq(Entry)
  <2>1. CASE Json[next].key = NoKey
    <3>1. store' = store
      BY <2>1 DEF Import
    <3> QED BY <1>1, <3>1 DEF Kept, Effect
  <2>2. CASE Json[next].key # NoKey
    <3>1. ImportRow(Json[next], i)
      BY <2>2 DEF Import
    <3> QED BY <1>1, <1>2, <2>2, <3>1, ImportRowStep
  <2> QED BY <2>1, <2>2
<1>4. KInv'
  BY <1>1, <1>2, <1>3, KeepsInv DEF Kept, Phases
<1> QED BY <1>3, <1>4

LEMMA OpeningStep ==
    ASSUME KInv, NEW M, Sound(store, selected, revoked, M), Opening
    PROVE  Kept(M) /\ KInv' /\ (store \in Seq(Entry) => store' \in Seq(Entry))
<1>1. CASE EndImport \/ ImportFails
  <2>1. /\ phase' = "up" /\ UNCHANGED <<store, next, selected, revoked>>
        /\ store \in Seq(Entry) /\ selected \subseteq Entry
    BY <1>1 DEF EndImport, ImportFails, KInv, TypeOK
  <2>2. Effect(M) /\ Sound(store', selected', revoked', M) /\ Table(store')
        /\ next' \in 1 .. Len(Json) + 1
    BY <2>1 DEF Effect, KInv, TypeOK
  <2> QED BY <2>1, <2>2, KeepsInv DEF Kept, Phases
<1> QED BY <1>1, OpenStep, ImportStep DEF Opening

------------------------------------------------------------------------------
(* The steps of the running process.                                       *)

LEMMA GenerateStep ==
    ASSUME KInv, NEW M, Sound(store, selected, revoked, M),
           NEW k, NEW n \in Names, NEW i \in Fresh, Generate(k, n, i)
    PROVE  /\ Kept(M) /\ KInv' /\ store' \in Seq(Entry) /\ selected = {}
           /\ k \in Ungenerated /\ KeysOf(store') = KeysOf(store) \cup {k}
           /\ revoked' = revoked /\ selected' = selected
<1>1. /\ phase = "up" /\ selected = {} /\ k \in Ungenerated
      /\ k \in Keys \ KeysOf(store) /\ k \notin revoked
      /\ store' = Append(store, [id |-> i, name |-> n, key |-> k])
      /\ UNCHANGED <<phase, next, selected, revoked>>
      /\ store \in Seq(Entry) /\ Table(store)
  BY DEF Generate, Unlocked, Ungenerated, KInv, TypeOK
<1>2. /\ Table(store') /\ store' \in Seq(Entry) /\ KeysOf(store') = KeysOf(store) \cup {k}
      /\ Sound(store', selected, revoked, M)
  BY <1>1, RowAdded
<1>3. Kept(M) /\ Effect(M)
  BY <1>1, <1>2 DEF Kept, Effect
<1>4. phase' \in Phases /\ next' \in 1 .. Len(Json) + 1 /\ selected' = {}
  BY <1>1 DEF KInv, TypeOK
<1>5. KInv'
  BY <1>2, <1>3, <1>4, KeepsInv
<1> QED BY <1>1, <1>2, <1>3, <1>5

LEMMA FindStep ==
    ASSUME KInv, NEW M, Sound(store, selected, revoked, M), NEW target, NEW row, Find(target, row)
    PROVE  /\ Kept(M) /\ KInv' /\ selected = {} /\ selected' = {row}
           /\ UNCHANGED <<store, revoked, phase>>
<1>1. PICK n \in Matches(target): row = store[n]
  BY DEF Find
<1>2. /\ UNCHANGED <<store, phase, next, revoked>> /\ selected = {} /\ selected' = {row}
      /\ n \in DOMAIN store /\ phase = "up" /\ store \in Seq(Entry) /\ Table(store)
  BY <1>1 DEF Find, Unlocked, Matches, KInv, TypeOK
<1>3. row \in Entry
  BY <1>1, <1>2, SeqFacts
<1>4. row.id \in IdsOf(store) /\ \A m \in DOMAIN store: store[m].id = row.id => store[m].key = row.key
  BY <1>1, <1>2 DEF IdsOf, Table, Distinct
<1>5. Sound(store', selected', revoked', M)
  BY <1>2, <1>4 DEF Sound
<1>6. Effect(M)
  BY <1>2 DEF Effect
<1>7. phase' \in Phases /\ next' \in 1 .. Len(Json) + 1 /\ Table(store') /\ store' \in Seq(Entry)
  BY <1>2 DEF KInv, TypeOK
<1>8. KInv'
  BY <1>2, <1>3, <1>6, <1>7, KeepsInv
<1> QED BY <1>2, <1>5, <1>6, <1>8 DEF Kept

\* The row is there and goes, or it was renamed, and stays.
LEMMA DeleteStep ==
    ASSUME KInv, NEW M, Sound(store, selected, revoked, M), NEW row \in selected, Delete(row)
    PROVE  /\ Kept(M) /\ KInv' /\ selected' = {} /\ revoked' = revoked \cup {row.key}
           /\ store' \in Seq(Entry)
           /\ row.key \in KeysOf(store) \/ row.key \in M
<1>1. /\ phase = "up" /\ phase' = phase /\ next' = next /\ selected' = {}
      /\ revoked' = revoked \cup {row.key} /\ row.key \in Keys
      /\ store \in Seq(Entry) /\ Table(store)
  BY DEF Delete, KInv, TypeOK, Sound, Entry
<1>2. CASE \E n \in DOMAIN store: store[n].id = row.id /\ store' = Without(store, n)
  <2>1. PICK n \in DOMAIN store: store[n].id = row.id /\ store' = Without(store, n)
    BY <1>2
  <2>2. store[n].key = row.key /\ row.key \in KeysOf(store)
    BY <2>1 DEF Sound, KeysOf
  <2>3. Table(store') /\ store' \in Seq(Entry) /\ KeysOf(store') = KeysOf(store) \ {row.key}
    BY <1>1, <2>1, <2>2, OneLess
  <2>4. Effect(M)
    BY <1>1, <2>2, <2>3 DEF Effect
  <2>5. Sound(store', selected', revoked', M)
    BY <1>1, <2>3 DEF Sound
  <2> QED BY <1>1, <2>2, <2>3, <2>4, <2>5, KeepsInv DEF Kept, Phases, KInv, TypeOK
<1>3. CASE row.id \notin IdsOf(store) /\ store' = store
  <2>1. row.key \in M
    BY <1>3 DEF Sound
  <2>2. Effect(M)
    BY <1>1, <1>3, <2>1 DEF Effect
  <2>3. Sound(store', selected', revoked', M)
    BY <1>1, <1>3, <2>1 DEF Sound
  <2> QED BY <1>1, <1>3, <2>1, <2>2, <2>3, KeepsInv DEF Kept, Phases, KInv, TypeOK
<1> QED BY <1>2, <1>3 DEF Delete

LEMMA DeleteFailsStep ==
    ASSUME KInv, NEW M, Sound(store, selected, revoked, M), NEW row \in selected, DeleteFails(row)
    PROVE  Kept(M) /\ KInv' /\ selected' = {} /\ UNCHANGED <<store, revoked>>
<1>1. /\ UNCHANGED <<store, phase, next, revoked>> /\ selected' = {} /\ Table(store)
  BY DEF DeleteFails, Sound, KInv
<1>2. Effect(M) /\ Sound(store', selected', revoked', M)
  BY <1>1 DEF Effect, Sound
<1> QED BY <1>1, <1>2, KeepsInv DEF Kept, KInv, TypeOK

\* The process dies, or a step of something else.
LEMMA CrashStep ==
    ASSUME KInv, NEW M, Sound(store, selected, revoked, M), Crash \/ UNCHANGED vars
    PROVE  Kept(M) /\ KInv' /\ UNCHANGED <<store, revoked>> /\ (Crash => selected' = {})
<1>1. /\ UNCHANGED <<store, next, revoked>>
      /\ (phase' = "down" /\ selected' = {}) \/ UNCHANGED <<phase, selected>>
      /\ Crash => selected' = {}
  BY DEF Crash, vars
<1>2. Effect(M) /\ Sound(store', selected', revoked', M) /\ Table(store')
  BY <1>1 DEF Effect, Sound, KInv
<1> QED BY <1>1, <1>2, KeepsInv DEF Kept, Phases, KInv, TypeOK

LEMMA NextKInv ==
    ASSUME KInv, NEW M, Sound(store, selected, revoked, M), [Next]_vars
    PROVE  Kept(M) /\ KInv' /\ (store \in Seq(Entry) => store' \in Seq(Entry))
<1>1. ASSUME NEW n \in DOMAIN store, NEW target, Find(target, store[n])
      PROVE  Kept(M) /\ KInv' /\ (store \in Seq(Entry) => store' \in Seq(Entry))
  BY <1>1, FindStep
<1>2. ASSUME NEW row \in selected, Delete(row) \/ DeleteFails(row)
      PROVE  Kept(M) /\ KInv' /\ (store \in Seq(Entry) => store' \in Seq(Entry))
  BY <1>2, DeleteStep, DeleteFailsStep
<1> QED BY <1>1, <1>2, GenerateStep, OpeningStep, CrashStep DEF Next

LEMMA KeyStoreInvariant == Spec => [](KInv /\ Sound(store, selected, revoked, {}))
<1> DEFINE IInv == KInv /\ Sound(store, selected, revoked, {})
<1>1. Init => IInv
  BY InitKInv
<1>2. IInv /\ [Next]_vars => IInv'
  <2> SUFFICES ASSUME IInv, [Next]_vars PROVE IInv'
    OBVIOUS
  <2>1. Kept({}) /\ KInv'
    BY NextKInv
  <2> QED BY <2>1 DEF Kept, Sound, KeysOf, IdsOf
<1> QED BY <1>1, <1>2, PTL DEF Spec

------------------------------------------------------------------------------

\* No id and no hash is ever twice in the table, through the rebuild of
\* integer ids, imports, generations, revocations and crashes.
THEOREM TableIsSound == Spec => []TypeOK
<1>1. KInv => TypeOK
  BY DEF KInv
<1> QED BY <1>1, KeyStoreInvariant, PTL

\* A generated key is never valid again once its revocation was reported,
\* whatever keys.json holds and however often it is imported.
THEOREM GeneratedKeysStayRevoked == Spec => []GeneratedStaysRevoked
<1>1. Sound(store, selected, revoked, {}) => GeneratedStaysRevoked
  BY DEF Sound, GeneratedStaysRevoked
<1> QED BY <1>1, KeyStoreInvariant, PTL

LEMMA RegistryInit == Init => R!Init
<1> SUFFICES ASSUME Init PROVE R!Init
  OBVIOUS
<1>1. KeysOf(store) \subseteq Keys /\ revoked = {}
  BY InitKInv, StoreFacts DEF KInv, Init
<1> QED BY <1>1 DEF R!Init

\* Without a file and a second process, each effect is a step of the registry
\* or none.
LEMMA RegistryStep ==
    ASSUME Json = <<>>, KInv, Effect({})
    PROVE  [R!Next]_<<KeysOf(store), revoked>>
<1>1. JsonKeys = {}
  <2>1. DOMAIN Json = {}
    BY EmptySeq
  <2> QED BY <2>1 DEF JsonKeys, KeysOf
<1>2. KeysOf(store) \subseteq Keys
  BY StoreFacts DEF KInv
<1> QED BY <1>1, <1>2 DEF Effect, Ungenerated, R!Next, R!Issue, R!Revoke

\* Without a keys.json the table implements the registry of keys: each is
\* issued once, and revoked for good, whatever crashes and rebuilds there are.
THEOREM RegistryImplemented ==
    ASSUME Json = <<>>
    PROVE  Spec => ImplementsRegistry
<1>1. KInv /\ Sound(store, selected, revoked, {}) /\ [Next]_vars
        => [R!Next]_<<KeysOf(store), revoked>>
  BY NextKInv, RegistryStep DEF Kept
<1> QED BY <1>1, RegistryInit, KeyStoreInvariant, PTL DEF Spec, ImplementsRegistry, R!Spec

------------------------------------------------------------------------------
(* The admin socket.                                                       *)

Revoking(c) == conn[c].at = "revoking"

\* A request whose revocation is done, as far as the database goes.
Done(c) == reply[c].kind = "revoke" /\ ~ Revoking(c)

\* Who announces has committed, to one client only; who is between the two
\* statements holds the lock; and each revocation is reported once.
AdminInv ==
    /\ KInv /\ Sound(store, selected, revoked, {})
    /\ conn \in [Clients -> Conn] /\ DOMAIN reply = Clients
    /\ \A c \in Clients: reply[c].kind = "generate" =>
          /\ reply[c].row.key \in KeysOf(store) \cup revoked
          /\ \A d \in Clients \ {c}:
                reply[d].kind = "generate" => reply[d].row.key # reply[c].row.key
    /\ \A c \in Clients: Revoking(c) => reply[c].kind = "revoke" /\ reply[c].row \in selected
    /\ \A c, d \in Clients: Revoking(c) /\ Revoking(d) => c = d
    /\ \A c \in Clients: Done(c) => reply[c].row.key \in revoked
    /\ \A c, d \in Clients:
          (Done(c) /\ Done(d) /\ reply[c].row.key = reply[d].row.key
             /\ reply[c].row.key \notin JsonKeys) => c = d

LEMMA AnswerFacts ==
    /\ \A row: Answered("generate", row).kind = "generate" /\ Answered("generate", row).row = row
    /\ \A row: Answered("revoke", row).kind = "revoke" /\ Answered("revoke", row).row = row
    /\ \A kind, row: Answered(kind, row).kind = kind
    /\ Silence.kind = "none" /\ Failure.kind = "error" /\ Eof.kind = "eof"
  BY DEF Answered, Silence, Failure, Eof

LEMMA AdminInitInv == SocketInit => AdminInv
<1> SUFFICES ASSUME SocketInit PROVE AdminInv
  OBVIOUS
<1>1. /\ KInv /\ Sound(store, selected, revoked, {}) /\ conn \in [Clients -> Conn]
      /\ reply = [c \in Clients |-> Silence]
      /\ \A c \in Clients: conn[c].at = "closed"
  BY InitKInv DEF SocketInit
<1>2. \A c \in Clients: reply[c].kind = "none"
  BY <1>1, AnswerFacts
<1> QED BY <1>1, <1>2 DEF AdminInv, Revoking, Done

LEMMA MoveFacts ==
    ASSUME AdminInv, NEW c \in Clients,
           NEW at \in {"closed", "open", "sent", "revoking", "answering", "over"}, Move(c, at)
    PROVE  /\ conn' \in [Clients -> Conn] /\ conn'[c].at = at
           /\ \A d \in Clients \ {c}: conn'[d] = conn[d]
  BY DEF Move, AdminInv, Conn

LEMMA ToldFacts ==
    ASSUME AdminInv, NEW c \in Clients, NEW answer, Told(c, answer)
    PROVE  /\ DOMAIN reply' = Clients /\ reply'[c] = answer
           /\ \A d \in Clients \ {c}: reply'[d] = reply[d]
  BY DEF Told, AdminInv

\* Nothing is found, made or revoked for a client: each answer stays what it
\* was, and where it was, or it is one that claims nothing.
LEMMA QuietStep ==
    ASSUME AdminInv, KInv', Kept({}), conn' \in [Clients -> Conn], DOMAIN reply' = Clients,
           \A c \in Clients:
               \/ /\ reply'[c] = reply[c] /\ (Revoking(c)' <=> Revoking(c))
                  /\ Revoking(c) => selected' = selected
               \/ reply'[c].kind \notin {"generate", "revoke"} /\ ~ Revoking(c)'
    PROVE  AdminInv'
<1>1. /\ KeysOf(store) \cup revoked \subseteq KeysOf(store') \cup revoked'
      /\ revoked \subseteq revoked' /\ Sound(store', selected', revoked', {})
  BY DEF Kept, Effect
<1>2. ASSUME NEW c \in Clients, reply'[c].kind = "generate"
      PROVE  /\ reply'[c].row.key \in KeysOf(store') \cup revoked'
             /\ \A d \in Clients \ {c}:
                  reply'[d].kind = "generate" => reply'[d].row.key # reply'[c].row.key
  BY <1>1, <1>2 DEF AdminInv
<1>3. ASSUME NEW c \in Clients, Revoking(c)'
      PROVE  reply'[c].kind = "revoke" /\ reply'[c].row \in selected'
  BY <1>3 DEF AdminInv
<1>4. ASSUME NEW c \in Clients, NEW d \in Clients, Revoking(c)', Revoking(d)' PROVE c = d
  BY <1>4 DEF AdminInv
<1>5. ASSUME NEW c \in Clients, Done(c)' PROVE Done(c) /\ reply'[c] = reply[c]
  BY <1>5 DEF Done
<1>6. \A c \in Clients: Done(c)' => reply'[c].row.key \in revoked'
  BY <1>1, <1>5 DEF AdminInv
<1>7. \A c, d \in Clients:
         (Done(c)' /\ Done(d)' /\ reply'[c].row.key = reply'[d].row.key
            /\ reply'[c].row.key \notin JsonKeys) => c = d
  BY <1>5 DEF AdminInv
<1> QED BY <1>1, <1>2, <1>3, <1>4, <1>6, <1>7 DEF AdminInv, Sound, KeysOf, IdsOf, JsonKeys

\* One connection moves on, with an answer that claims nothing or stays, and
\* the table does not change for it.
LEMMA MovesOn ==
    ASSUME AdminInv, KInv', Kept({}), selected' = selected, NEW c \in Clients, ~ Revoking(c),
           NEW at \in {"closed", "open", "sent", "answering", "over"}, Move(c, at),
           \/ reply' = reply
           \/ \E answer: Told(c, answer) /\ answer.kind \notin {"generate", "revoke"}
    PROVE  AdminInv'
<1>1. /\ conn' \in [Clients -> Conn] /\ conn'[c].at = at
      /\ \A d \in Clients \ {c}: conn'[d] = conn[d]
  BY MoveFacts
<1>2. /\ DOMAIN reply' = Clients /\ \A d \in Clients \ {c}: reply'[d] = reply[d]
      /\ reply'[c] = reply[c] \/ reply'[c].kind \notin {"generate", "revoke"}
  BY ToldFacts DEF AdminInv
<1>3. ~ Revoking(c)' /\ \A d \in Clients \ {c}: Revoking(d)' <=> Revoking(d)
  BY <1>1 DEF Revoking
<1> QED BY <1>1, <1>2, <1>3, QuietStep

------------------------------------------------------------------------------
(* The server's answers.                                                   *)

\* A key that was never in the table is announced, and is there.
LEMMA HandleGenerate ==
    ASSUME AdminInv, NEW c \in Clients, NEW n \in Names, Move(c, "answering"),
           NEW k, NEW i \in Fresh, Generate(k, n, i),
           NEW row, row.key = k, Told(c, Answered("generate", row))
    PROVE  AdminInv' /\ Kept({})
<1>1. /\ Kept({}) /\ KInv' /\ k \in Ungenerated /\ KeysOf(store') = KeysOf(store) \cup {k}
      /\ revoked' = revoked /\ selected' = selected /\ selected = {}
  BY GenerateStep DEF AdminInv
<1>2. /\ DOMAIN reply' = Clients
      /\ reply'[c].kind = "generate" /\ reply'[c].row = row
      /\ \A d \in Clients \ {c}: reply'[d] = reply[d]
  BY ToldFacts, AnswerFacts
<1>3. /\ conn' \in [Clients -> Conn] /\ conn'[c].at = "answering"
      /\ \A d \in Clients \ {c}: conn'[d] = conn[d]
  BY MoveFacts
<1>4. k \notin KeysOf(store) \cup revoked
  BY <1>1 DEF Ungenerated
<1>5. \A d \in Clients: ~ Revoking(d)'
  BY <1>1, <1>3 DEF AdminInv, Revoking
<1>6. ASSUME NEW d \in Clients, reply'[d].kind = "generate"
      PROVE  /\ reply'[d].row.key \in KeysOf(store') \cup revoked'
             /\ \A e \in Clients \ {d}:
                  reply'[e].kind = "generate" => reply'[e].row.key # reply'[d].row.key
  <2>1. \A e \in Clients \ {c}: reply[e].kind = "generate" => reply[e].row.key # k
    BY <1>4 DEF AdminInv
  <2>2. CASE d = c
    BY <1>1, <1>2, <2>1, <2>2
  <2>3. CASE d # c
    <3>1. /\ reply[d].row.key \in KeysOf(store) \cup revoked
          /\ \A e \in Clients \ {d}:
                reply[e].kind = "generate" => reply[e].row.key # reply[d].row.key
      BY <1>2, <1>6, <2>3 DEF AdminInv
    <3> QED BY <1>1, <1>2, <1>6, <2>1, <2>3, <3>1
  <2> QED BY <2>2, <2>3
<1>7. ASSUME NEW d \in Clients, Done(d)' PROVE d # c /\ Done(d) /\ reply'[d] = reply[d]
  BY <1>2, <1>3, <1>7 DEF Done, Revoking
<1>8. \A d \in Clients: Done(d)' => reply'[d].row.key \in revoked'
  BY <1>1, <1>7 DEF AdminInv
<1>9. \A d, e \in Clients:
         (Done(d)' /\ Done(e)' /\ reply'[d].row.key = reply'[e].row.key
            /\ reply'[d].row.key \notin JsonKeys) => d = e
  BY <1>7 DEF AdminInv
<1>10. Sound(store', selected', revoked', {})
  BY <1>1 DEF Kept
<1> QED BY <1>1, <1>2, <1>3, <1>5, <1>6, <1>8, <1>9, <1>10
        DEF AdminInv, Sound, KeysOf, IdsOf, JsonKeys

\* The row is found, and the lock held.
LEMMA HandleRevoke ==
    ASSUME AdminInv, NEW c \in Clients, NEW target, NEW row,
           Find(target, row), Move(c, "revoking"), Told(c, Answered("revoke", row))
    PROVE  AdminInv' /\ Kept({})
<1>1. /\ Kept({}) /\ KInv' /\ selected = {} /\ selected' = {row}
      /\ UNCHANGED <<store, revoked>>
  BY FindStep DEF AdminInv
<1>2. /\ DOMAIN reply' = Clients /\ reply'[c].kind = "revoke" /\ reply'[c].row = row
      /\ \A d \in Clients \ {c}: reply'[d] = reply[d]
  BY ToldFacts, AnswerFacts
<1>3. /\ conn' \in [Clients -> Conn] /\ conn'[c].at = "revoking"
      /\ \A d \in Clients \ {c}: conn'[d] = conn[d]
  BY MoveFacts
<1>4. Revoking(c)' /\ \A d \in Clients \ {c}: ~ Revoking(d)'
  BY <1>1, <1>3 DEF AdminInv, Revoking
<1>5. ASSUME NEW d \in Clients, reply'[d].kind = "generate"
      PROVE  /\ reply'[d].row.key \in KeysOf(store') \cup revoked'
             /\ \A e \in Clients \ {d}:
                  reply'[e].kind = "generate" => reply'[e].row.key # reply'[d].row.key
  BY <1>1, <1>2, <1>5 DEF AdminInv
<1>6. ASSUME NEW d \in Clients, Done(d)' PROVE Done(d) /\ reply'[d] = reply[d]
  BY <1>2, <1>3, <1>4, <1>6 DEF Done, Revoking
<1>7. \A d \in Clients: Done(d)' => reply'[d].row.key \in revoked'
  BY <1>1, <1>6 DEF AdminInv
<1>8. \A d, e \in Clients:
         (Done(d)' /\ Done(e)' /\ reply'[d].row.key = reply'[e].row.key
            /\ reply'[d].row.key \notin JsonKeys) => d = e
  BY <1>6 DEF AdminInv
<1>9. Sound(store', selected', revoked', {})
  BY <1>1 DEF Kept
<1> QED BY <1>1, <1>2, <1>3, <1>4, <1>5, <1>7, <1>8, <1>9
        DEF AdminInv, Sound, KeysOf, IdsOf, JsonKeys

LEMMA HandleStep ==
    ASSUME AdminInv, NEW c \in Clients, Handle(c)
    PROVE  AdminInv' /\ Kept({})
<1> DEFINE want == conn[c].want
<1>1. ~ Revoking(c)
  BY DEF Handle, Revoking
<1>2. want.op = "generate" => want.arg \in Names
  <2>1. want \in Wants
    BY DEF AdminInv, Conn
  <2> QED BY <2>1, WantsAssumption
<1>3. ASSUME UNCHANGED vars, NEW at \in {"answering", "over"}, Move(c, at),
             NEW answer, Told(c, answer), answer.kind \notin {"generate", "revoke"}
      PROVE  AdminInv' /\ Kept({})
  <2>1. Kept({}) /\ KInv' /\ selected' = selected
    BY <1>3, CrashStep DEF AdminInv, vars
  <2> QED BY <1>1, <1>3, <2>1, MovesOn
<1>4. CASE Move(c, "over") /\ Told(c, Eof) /\ UNCHANGED vars
  BY <1>3, <1>4, AnswerFacts
<1>5. CASE Move(c, "revoking") /\ ProcessRevoke(c, want)
  <2>1. PICK n \in Matches(want.arg): Find(want.arg, store[n]) /\ Told(c, Answered("revoke", store[n]))
    BY <1>5 DEF ProcessRevoke
  <2> QED BY <1>5, <2>1, HandleRevoke
<1>6. CASE Move(c, "answering") /\ want.op = "generate" /\ ProcessGenerate(c, want)
  <2>1. CASE Told(c, Failure) /\ UNCHANGED vars
    BY <1>3, <1>6, <2>1, AnswerFacts
  <2>2. ASSUME NEW k \in Ungenerated, NEW i \in Fresh, Generate(k, want.arg, i),
               Told(c, Answered("generate", [id |-> i, name |-> want.arg, key |-> k]))
        PROVE  AdminInv' /\ Kept({})
    <3>1. [id |-> i, name |-> want.arg, key |-> k].key = k
      OBVIOUS
    <3> QED BY <1>2, <1>6, <2>2, <3>1, HandleGenerate
  <2> QED BY <1>6, <2>1, <2>2 DEF ProcessGenerate
<1>7. CASE Move(c, "answering") /\ Told(c, Failure) /\ UNCHANGED vars
  BY <1>3, <1>7, AnswerFacts
<1>8. CASE Move(c, "answering") /\ want.op \in {"list", "stats"} /\ ProcessRead(c, want)
  BY <1>3, <1>8, AnswerFacts DEF ProcessRead
<1> QED BY <1>4, <1>5, <1>6, <1>7, <1>8 DEF Handle

\* The client whose row it is has the lock, and its key was not reported yet.
LEMMA FinishRevokeStep ==
    ASSUME AdminInv, NEW c \in Clients, FinishRevoke(c)
    PROVE  AdminInv' /\ Kept({})
<1> DEFINE row == reply[c].row
<1>1. Revoking(c) /\ Move(c, "answering") /\ row \in selected /\ reply[c].kind = "revoke"
  BY DEF FinishRevoke, Revoking, AdminInv
<1>2. /\ conn' \in [Clients -> Conn] /\ conn'[c].at = "answering"
      /\ \A d \in Clients \ {c}: conn'[d] = conn[d]
  BY <1>1, MoveFacts
<1>3. \A d \in Clients \ {c}: ~ Revoking(d)
  BY <1>1 DEF AdminInv
<1>4. \A d \in Clients: ~ Revoking(d)'
  BY <1>2, <1>3 DEF Revoking
<1>5. CASE Delete(row) /\ reply' = reply
  <2>1. /\ Kept({}) /\ KInv' /\ selected' = {} /\ revoked' = revoked \cup {row.key}
        /\ row.key \in KeysOf(store)
    BY <1>1, <1>5, DeleteStep DEF AdminInv
  <2>2. KeysOf(store) \cup revoked \subseteq KeysOf(store') \cup revoked'
    BY <2>1 DEF Kept, Effect
  <2>3. \A d \in Clients: reply'[d].kind = "generate" =>
           /\ reply'[d].row.key \in KeysOf(store') \cup revoked'
           /\ \A e \in Clients \ {d}:
                reply'[e].kind = "generate" => reply'[e].row.key # reply'[d].row.key
    BY <1>5, <2>2 DEF AdminInv
  <2>4. \A d \in Clients: Done(d)' => d = c \/ Done(d)
    BY <1>3, <1>5 DEF Done
  <2>5. \A d \in Clients: Done(d)' => reply'[d].row.key \in revoked'
    BY <1>5, <2>1, <2>4 DEF AdminInv
  <2>6. \A d \in Clients: Done(d) /\ reply[d].row.key \notin JsonKeys => reply[d].row.key # row.key
    BY <2>1 DEF AdminInv, Sound
  <2>7. \A d, e \in Clients:
           (Done(d)' /\ Done(e)' /\ reply'[d].row.key = reply'[e].row.key
              /\ reply'[d].row.key \notin JsonKeys) => d = e
    BY <1>5, <2>4, <2>6 DEF AdminInv
  <2>8. Sound(store', selected', revoked', {})
    BY <2>1 DEF Kept
  <2> QED BY <1>2, <1>4, <1>5, <2>1, <2>3, <2>5, <2>7, <2>8
          DEF AdminInv, Sound, KeysOf, IdsOf, JsonKeys
<1>6. CASE DeleteFails(row) /\ Told(c, Failure)
  <2>1. Kept({}) /\ KInv'
    BY <1>1, <1>6, DeleteFailsStep DEF AdminInv
  <2>2. /\ DOMAIN reply' = Clients /\ reply'[c].kind = "error"
        /\ \A d \in Clients \ {c}: reply'[d] = reply[d]
    BY <1>6, ToldFacts, AnswerFacts
  <2> QED BY <1>2, <1>3, <1>4, <2>1, <2>2, QuietStep
<1> QED BY <1>5, <1>6 DEF FinishRevoke

LEMMA DashboardStep ==
    ASSUME AdminInv, DashboardGenerate \/ DashboardFind \/ DashboardDelete
    PROVE  AdminInv' /\ Kept({})
<1>1. /\ conn' = conn /\ reply' = reply /\ DOMAIN reply' = Clients /\ conn' \in [Clients -> Conn]
      /\ \A c \in Clients: Revoking(c)' <=> Revoking(c)
  BY DEF DashboardGenerate, DashboardFind, DashboardDelete, AdminInv, Revoking
<1>2. CASE DashboardGenerate
  <2>1. Kept({}) /\ KInv' /\ selected' = selected
    BY <1>2, GenerateStep DEF DashboardGenerate, AdminInv
  <2> QED BY <1>1, <2>1, QuietStep
<1>3. CASE DashboardFind
  <2>1. Kept({}) /\ KInv' /\ selected = {}
    BY <1>3, FindStep DEF DashboardFind, AdminInv
  <2>2. \A c \in Clients: ~ Revoking(c)
    BY <2>1 DEF AdminInv
  <2> QED BY <1>1, <2>1, <2>2, QuietStep
<1>4. CASE DashboardDelete
  <2>1. PICK row \in selected:
           /\ \A c \in Clients: ~ (conn[c].at = "revoking" /\ reply[c].row = row)
           /\ Delete(row) \/ DeleteFails(row)
    BY <1>4 DEF DashboardDelete
  <2>2. Kept({}) /\ KInv'
    BY <2>1, DeleteStep, DeleteFailsStep DEF AdminInv
  <2>3. \A c \in Clients: ~ Revoking(c)
    BY <2>1 DEF AdminInv, Sound, Revoking
  <2> QED BY <1>1, <2>2, <2>3, QuietStep
<1> QED BY <1>2, <1>3, <1>4

LEMMA DieStep ==
    ASSUME AdminInv, Die
    PROVE  AdminInv' /\ Kept({})
<1>1. Kept({}) /\ KInv'
  BY CrashStep DEF Die, AdminInv
<1>2. /\ conn' \in [Clients -> Conn]
      /\ \A c \in Clients: IF Lost(c) THEN conn'[c].at = "over" ELSE conn'[c] = conn[c]
  BY DEF Die, AdminInv, Conn
<1>3. /\ DOMAIN reply' = Clients
      /\ \A c \in Clients: reply'[c] = IF Lost(c) THEN Eof ELSE reply[c]
  BY DEF Die
<1>4. ASSUME NEW c \in Clients, Lost(c)
      PROVE  reply'[c].kind \notin {"generate", "revoke"} /\ ~ Revoking(c)'
  BY <1>2, <1>3, <1>4, AnswerFacts DEF Revoking
<1>5. ASSUME NEW c \in Clients, ~ Lost(c)
      PROVE  reply'[c] = reply[c] /\ ~ Revoking(c) /\ ~ Revoking(c)'
  BY <1>2, <1>3, <1>5 DEF Revoking, Lost
<1> QED BY <1>1, <1>2, <1>3, <1>4, <1>5, QuietStep

LEMMA AdminNextInv == AdminInv /\ [SocketNext]_socketVars => AdminInv' /\ Kept({})
<1>1. ASSUME AdminInv, UNCHANGED vars PROVE Kept({}) /\ KInv' /\ selected' = selected
  BY <1>1, CrashStep DEF AdminInv, vars
<1>2. ASSUME AdminInv, NEW c \in Clients, Connect(c) PROVE AdminInv' /\ Kept({})
  <2>1. UNCHANGED vars /\ ~ Revoking(c)
    BY <1>2 DEF Connect, Revoking
  <2> QED BY <1>1, <1>2, <2>1, AnswerFacts, MovesOn DEF Connect
<1>3. ASSUME AdminInv, NEW c \in Clients, Send(c) \/ Leave(c) \/ Answer(c)
      PROVE  AdminInv' /\ Kept({})
  <2>1. UNCHANGED vars /\ ~ Revoking(c)
    BY <1>3 DEF Send, Leave, Answer, Revoking
  <2> QED BY <1>1, <1>3, <2>1, AnswerFacts, MovesOn DEF Send, Leave, Answer
<1>4. ASSUME AdminInv, Start PROVE AdminInv' /\ Kept({})
  <2>1. Kept({}) /\ KInv' /\ conn' = conn /\ reply' = reply
    BY <1>4, OpeningStep DEF Start, AdminInv
  <2>2. selected' = selected
    BY <1>4 DEF Start, Opening, CheckSchema, Rebuild, IsEmpty, Import, EndImport, ImportFails
  <2> QED BY <1>4, <2>1, <2>2, QuietStep DEF AdminInv, Revoking
<1>5. ASSUME AdminInv, UNCHANGED socketVars PROVE AdminInv' /\ Kept({})
  <2>1. Kept({}) /\ KInv' /\ selected' = selected /\ reply' = reply /\ conn' = conn
    BY <1>1, <1>5 DEF socketVars
  <2> QED BY <1>5, <2>1, QuietStep DEF AdminInv, Revoking
<1> QED BY <1>2, <1>3, <1>4, <1>5, HandleStep, FinishRevokeStep, DashboardStep, DieStep
        DEF SocketNext

LEMMA AdminInvariant == SocketSpec => []AdminInv
<1> QED BY AdminInitInv, AdminNextInv, PTL DEF SocketSpec

------------------------------------------------------------------------------

\* Every key that was announced to a client is in the table until it is
\* revoked, and was announced to nobody else (admin.rs, GenerateKey).
THEOREM AnnouncedKeysAreReal == SocketSpec => []AnnouncedKeyIsReal
<1>1. AdminInv => AnnouncedKeyIsReal
  BY DEF AdminInv, AnnouncedKeyIsReal, Heard
<1> QED BY <1>1, AdminInvariant, PTL

\* A key a client was told is revoked is out of the table for good, and no
\* other client was told of the same, though the search and the deletion are
\* two statements (admin.rs, RevokeKey), with any number of clients and the
\* dashboard beside, and a process that dies in between.
THEOREM RevocationsAreTrue == SocketSpec => []ConfirmedRevocationHolds
<1>1. AdminInv => ConfirmedRevocationHolds
  <2> SUFFICES ASSUME AdminInv, NEW c \in Clients, Heard(c, "revoke"),
                      reply[c].row.key \notin JsonKeys
               PROVE  /\ reply[c].row.key \notin KeysOf(store)
                      /\ \A d \in Clients \ {c}:
                            Heard(d, "revoke") => reply[d].row.key # reply[c].row.key
    BY DEF ConfirmedRevocationHolds
  <2>1. \A d \in Clients: Heard(d, "revoke") => Done(d)
    BY DEF Heard, Done, Revoking
  <2> QED BY <2>1 DEF AdminInv, Sound
<1> QED BY <1>1, AdminInvariant, PTL

\* Through both doors at once, and with a process that dies anywhere, the
\* table implements the registry of keys.
THEOREM SocketKeepsRegistry ==
    ASSUME Json = <<>>
    PROVE  SocketSpec => ImplementsRegistry
<1>1. AdminInv /\ [SocketNext]_socketVars => [R!Next]_<<KeysOf(store), revoked>>
  BY AdminNextInv, RegistryStep DEF AdminInv, Kept
<1>2. SocketInit => R!Init
  BY RegistryInit DEF SocketInit
<1> QED BY <1>1, <1>2, AdminInvariant, PTL DEF SocketSpec, ImplementsRegistry, R!Spec

------------------------------------------------------------------------------
(* The offline tool.                                                       *)

\* The tool inserts only into a table whose ids are text by then.
ToolInv ==
    /\ KInv /\ Sound(store, selected, revoked, missed) /\ PrintedKeyIsValid
    /\ tool \in {"idle", "rebuilding", "opening", "importing", "open"}
    /\ tool \in {"opening", "importing", "open"} => store \in Seq(Entry)
    /\ entry \in Nat \ {0}

ToolEffect ==
    /\ Effect(missed) /\ missed \subseteq missed'
    /\ printed \subseteq printed' /\ printed' \subseteq printed \cup KeysOf(store')

LEMMA ToolInitInv == ToolInit => ToolInv
<1> SUFFICES ASSUME ToolInit PROVE ToolInv
  OBVIOUS
<1>1. /\ KInv /\ Sound(store, selected, revoked, missed)
      /\ tool = "idle" /\ entry = 1 /\ printed = {}
  BY InitKInv DEF ToolInit
<1> QED BY <1>1 DEF ToolInv, PrintedKeyIsValid

\* Whoever took the step: a key leaves the table only into `revoked`, so what
\* was printed stays good.
LEMMA ToolKeeps ==
    ASSUME ToolInv, KInv', Effect(missed), Sound(store', selected', revoked', missed'),
           missed \subseteq missed',
           printed \subseteq printed' /\ printed' \subseteq printed \cup KeysOf(store'),
           tool' \in {"idle", "rebuilding", "opening", "importing", "open"},
           tool' \in {"opening", "importing", "open"} => store' \in Seq(Entry),
           entry' \in Nat \ {0}
    PROVE  ToolInv' /\ ToolEffect
<1>1. KeysOf(store) \cup revoked \subseteq KeysOf(store') \cup revoked'
  BY DEF Effect
<1>2. printed \subseteq KeysOf(store) \cup revoked
  BY DEF ToolInv, PrintedKeyIsValid
<1>3. printed' \subseteq KeysOf(store') \cup revoked'
  BY <1>1, <1>2
<1>4. PrintedKeyIsValid'
  BY <1>3 DEF PrintedKeyIsValid, KeysOf
<1> QED BY <1>4 DEF ToolInv, ToolEffect, Sound, KeysOf, IdsOf, JsonKeys

------------------------------------------------------------------------------
(* The tool's own writes.                                                  *)

\* Steps of the tool that leave keys.db alone.
LEMMA ToolIdles ==
    ASSUME ToolInv, UNCHANGED <<vars, printed, missed>>,
           tool' \in {"idle", "rebuilding", "opening", "importing", "open"},
           tool' \in {"opening", "importing", "open"} => store \in Seq(Entry),
           entry' \in Nat \ {0}
    PROVE  ToolInv' /\ ToolEffect
<1>1. /\ KInv' /\ Effect(missed) /\ Sound(store', selected', revoked', missed)
      /\ store' = store /\ printed' = printed /\ missed' = missed
  BY CrashStep DEF ToolInv, Kept, vars
<1> QED BY <1>1, ToolKeeps

\* Steps of the tool that write.
LEMMA ToolWrites ==
    ASSUME ToolInv, Effect(missed), Table(store'), store' \in Seq(Entry),
           Sound(store', selected', revoked', missed'), missed \subseteq missed',
           UNCHANGED <<phase, next, selected>>,
           printed \subseteq printed' /\ printed' \subseteq printed \cup KeysOf(store'),
           tool' \in {"idle", "opening", "importing", "open"}, entry' \in Nat \ {0}
    PROVE  ToolInv' /\ ToolEffect
<1>1. /\ phase' \in Phases /\ next' \in 1 .. Len(Json) + 1 /\ selected' \subseteq Entry
      /\ selected' # {} => phase' = "up"
  BY DEF ToolInv, KInv, TypeOK
<1>2. KInv'
  BY <1>1, KeepsInv DEF ToolInv
<1> QED BY <1>2, ToolKeeps

\* A row that a revocation has found is there no more under its id.
LEMMA ToolRebuildInv ==
    ASSUME ToolInv, ToolRebuild
    PROVE  ToolInv' /\ ToolEffect
<1>1. /\ Table(store') /\ store' \in Seq(Entry) /\ KeysOf(store') = KeysOf(store)
      /\ \A n \in DOMAIN store': \A row \in selected: store'[n].id # row.id
  BY FreshIds DEF ToolRebuild, ToolInv, KInv
<1>2. /\ UNCHANGED <<phase, next, selected, revoked, entry, printed>> /\ tool' = "opening"
      /\ missed' = missed \cup {row.key: row \in selected}
  BY DEF ToolRebuild
<1>3. Effect(missed)
  BY <1>1, <1>2 DEF Effect
<1>4. Sound(store', selected', revoked', missed')
  BY <1>1, <1>2 DEF ToolInv, Sound
<1> QED BY <1>1, <1>2, <1>3, <1>4, ToolWrites DEF ToolInv

LEMMA ToolImportInv ==
    ASSUME ToolInv, ToolImport
    PROVE  ToolInv' /\ ToolEffect
<1>1. /\ tool = "importing" /\ store \in Seq(Entry) /\ Table(store)
      /\ Sound(store, selected, revoked, missed)
      /\ UNCHANGED <<phase, next, selected, revoked, printed, missed>>
  BY DEF ToolImport, ToolInv, KInv
<1>2. ASSUME entry <= Len(Json), Json[entry].key # NoKey,
             NEW i \in Fresh, ImportRow(Json[entry], i),
             entry' = entry + 1, tool' = tool
      PROVE  ToolInv' /\ ToolEffect
  <2>1. entry \in 1 .. Len(Json) /\ entry' \in Nat \ {0}
    BY <1>2, JsonFacts DEF ToolInv
  <2>2. Kept(missed) /\ Table(store') /\ store' \in Seq(Entry)
    BY <1>1, <1>2, <2>1, ImportRowStep
  <2> QED BY <1>1, <1>2, <2>1, <2>2, ToolWrites DEF Kept
<1>3. CASE store' = store /\ entry' = entry + 1 /\ tool' = tool
  <2>1. entry' \in Nat \ {0}
    BY <1>3 DEF ToolInv
  <2> QED BY <1>1, <1>3, <2>1, ToolIdles DEF vars
<1>4. CASE tool' = "open" /\ UNCHANGED <<store, entry>>
  <2>1. entry' \in Nat \ {0}
    BY <1>4 DEF ToolInv
  <2> QED BY <1>1, <1>4, <2>1, ToolIdles DEF vars
<1> QED BY <1>2, <1>3, <1>4 DEF ToolImport, ToolImportRow

LEMMA ToolGenerateInv ==
    ASSUME ToolInv, NEW k, NEW n \in Names, NEW i \in Fresh, ToolGenerate(k, n, i)
    PROVE  ToolInv' /\ ToolEffect
<1>1. /\ store \in Seq(Entry) /\ Table(store) /\ Sound(store, selected, revoked, missed)
      /\ k \in Ungenerated /\ k \in Keys \ KeysOf(store) /\ k \notin revoked
      /\ store' = Append(store, [id |-> i, name |-> n, key |-> k])
      /\ printed' = printed \cup {k} /\ tool' = "idle" /\ entry' = entry
      /\ UNCHANGED <<phase, next, selected, revoked, missed>>
  BY DEF ToolGenerate, Ungenerated, ToolInv, KInv
<1>2. /\ Table(store') /\ store' \in Seq(Entry) /\ KeysOf(store') = KeysOf(store) \cup {k}
      /\ Sound(store', selected, revoked, missed)
  BY <1>1, RowAdded
<1>3. Effect(missed) /\ Sound(store', selected', revoked', missed')
  BY <1>1, <1>2 DEF Effect
<1>4. printed \subseteq printed' /\ printed' \subseteq printed \cup KeysOf(store')
  BY <1>1, <1>2
<1> QED BY <1>1, <1>2, <1>3, <1>4, ToolWrites DEF ToolInv

LEMMA ToolNextInv == ToolInv /\ [ToolNext]_toolVars => ToolInv' /\ ToolEffect
<1>1. ASSUME ToolInv, [Next]_vars, UNCHANGED <<tool, entry, printed, missed, uses>>
      PROVE  ToolInv' /\ ToolEffect
  <2>1. Kept(missed) /\ KInv' /\ (store \in Seq(Entry) => store' \in Seq(Entry))
    BY <1>1, NextKInv DEF ToolInv
  <2> QED BY <1>1, <2>1, ToolKeeps DEF ToolInv, Kept
<1>2. ASSUME ToolInv, ToolStart PROVE ToolInv' /\ ToolEffect
  <2>1. IdsOf(store) \subseteq Ids => store \in Seq(Entry)
    BY <1>2, TextIdsAreEntries DEF ToolInv, KInv, Table
  <2> QED BY <1>2, <2>1, ToolIdles DEF ToolStart, ToolInv
<1>3. ASSUME ToolInv, ToolOpen PROVE ToolInv' /\ ToolEffect
  <2>1. /\ UNCHANGED <<vars, printed, missed>> /\ entry' = 1 /\ store \in Seq(Entry)
        /\ tool' \in {"importing", "open"}
    BY <1>3 DEF ToolOpen, ToolInv
  <2> QED BY <1>3, <2>1, ToolIdles
<1>4. ASSUME ToolInv, ToolEnds PROVE ToolInv' /\ ToolEffect
  BY <1>4, ToolIdles DEF ToolEnds, ToolInv
<1>5. ASSUME ToolInv, UNCHANGED toolVars PROVE ToolInv' /\ ToolEffect
  BY <1>1, <1>5 DEF toolVars
<1> QED BY <1>1, <1>2, <1>3, <1>4, <1>5, ToolRebuildInv, ToolImportInv, ToolGenerateInv
        DEF ToolNext

LEMMA ToolInvariant == ToolSpec => []ToolInv
<1> QED BY ToolInitInv, ToolNextInv, PTL DEF ToolSpec

------------------------------------------------------------------------------

\* Whichever process rebuilds, imports and inserts, the table keeps its two
\* constraints and its text ids.
THEOREM SharedTableIsSound == ToolSpec => []TypeOK
<1>1. ToolInv => TypeOK
  BY DEF ToolInv, KInv
<1> QED BY <1>1, ToolInvariant, PTL

\* A generated key that was reported as revoked is gone for good, although a
\* second process imports and rebuilds, unless that renamed the key's row
\* between the search and the deletion (key_manager.rs, revoke).
THEOREM SharedKeysStayRevoked == ToolSpec => []RevokedUnlessRebuilt
<1>1. ToolInv => RevokedUnlessRebuilt
  BY DEF ToolInv, Sound, RevokedUnlessRebuilt
<1> QED BY <1>1, ToolInvariant, PTL

\* A key the tool has printed validates until it is revoked (main.rs,
\* key generate).
THEOREM PrintedKeysAreValid == ToolSpec => []PrintedKeyIsValid
<1>1. ToolInv => PrintedKeyIsValid
  BY DEF ToolInv
<1> QED BY <1>1, ToolInvariant, PTL

\* No rebuild of a stale view, of either process, and no import loses a key:
\* it leaves the table by its revocation only.
THEOREM KeysOnlyRevoked == ToolSpec => KeysLeaveByRevocation
<1>1. ToolInv /\ [ToolNext]_toolVars
        => [\A k \in KeysOf(store) \ KeysOf(store'): revoked' = revoked \cup {k}]_toolVars
  <2> SUFFICES ASSUME ToolInv, [ToolNext]_toolVars, NEW k \in KeysOf(store) \ KeysOf(store')
               PROVE  revoked' = revoked \cup {k}
    OBVIOUS
  <2>1. Effect(missed)
    BY ToolNextInv DEF ToolEffect
  <2> QED BY <2>1 DEF Effect
<1> QED BY <1>1, ToolInvariant, PTL DEF ToolSpec, KeysLeaveByRevocation
==============================================================================
