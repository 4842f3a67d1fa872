------------------------ MODULE StorageCountersProofs ------------------------
(***************************************************************************)
(* Proofs about StorageCounters, for any models, token counts, limit and   *)
(* number of requests: while what was recorded fits into an integer, the   *)
(* counters of the three tables and their total are exact.                 *)
(***************************************************************************)
EXTENDS StorageCounters, InductionLemmas, SequenceTheorems

Row == [model: Models, tokens: Nat]

Count == [requests: Nat, tokens: Nat]

Counter == [requests: Nat, tokens: Nat \cup {Float}]

Added(a, b) == [requests |-> a.requests + b.requests, tokens |-> a.tokens + b.tokens]

------------------------------------------------------------------------------
(* Tallies.                                                                *)

LEMMA Counts ==
    /\ NoCount \in Count
    /\ \A a \in Count: \A t \in Nat: OneMore(a, t) \in Count
    /\ \A a, b \in Count: Added(a, b) \in Count
    /\ \A a \in Count: Added(a, NoCount) = a
    /\ \A a, b \in Count: \A t \in Nat:
           /\ Added(OneMore(a, t), b) = OneMore(Added(a, b), t)
           /\ Added(a, OneMore(b, t)) = OneMore(Added(a, b), t)
  BY DEF NoCount, Count, OneMore, Added

LEMMA AddedInAnyOrder ==
    ASSUME NEW a \in Count, NEW b \in Count, NEW c \in Count
    PROVE  Added(Added(a, b), c) = Added(b, Added(c, a))
<1>1. /\ a.requests \in Nat /\ b.requests \in Nat /\ c.requests \in Nat
      /\ a.tokens \in Nat /\ b.tokens \in Nat /\ c.tokens \in Nat
  BY DEF Count
<1>2. /\ (a.requests + b.requests) + c.requests = b.requests + (c.requests + a.requests)
      /\ (a.tokens + b.tokens) + c.tokens = b.tokens + (c.tokens + a.tokens)
  BY <1>1
<1> QED
  BY <1>2 DEF Added

LEMMA CountTokens ==
    /\ \A a, b: Added(a, b).tokens = a.tokens + b.tokens
    /\ \A a, t: OneMore(a, t).tokens = a.tokens + t
  BY DEF Added, OneMore

LEMMA RowsAre ==
    ASSUME NEW rows \in Seq(Row)
    PROVE  /\ Len(rows) \in Nat
           /\ \A n \in 1 .. Len(rows): rows[n] \in Row /\ rows[n].model \in Models /\ rows[n].tokens \in Nat
<1>1. Len(rows) \in Nat /\ \A n \in 1 .. Len(rows): rows[n] \in Row
  BY LenProperties, ElementOfSeq
<1>2. \A row \in Row: row.model \in Models /\ row.tokens \in Nat
  BY DEF Row
<1> QED
  BY <1>1, <1>2

\* The tally after each of the rows.
IsTally(f, rows, ms) ==
    /\ f \in [0 .. Len(rows) -> Count] /\ f[0] = NoCount
    /\ \A n \in 1 .. Len(rows):
           f[n] = IF rows[n].model \in ms THEN OneMore(f[n - 1], rows[n].tokens) ELSE f[n - 1]

LEMMA TallyRuns ==
    ASSUME NEW rows \in Seq(Row), NEW ms
    PROVE  \E f: IsTally(f, rows, ms) /\ Tally(rows, ms) = f[Len(rows)]
<1> DEFINE N == Len(rows)
           Next1(n, c) == IF rows[n].model \in ms THEN OneMore(c, rows[n].tokens) ELSE c
           Step(n) == [c \in Count |-> Next1(n, c)]
           step == [n \in 1 .. N |-> Step(n)]
           upTo == CHOOSE g: g = [n \in 0 .. Len(rows) |->
                       IF n = 0 THEN NoCount
                       ELSE IF rows[n].model \in ms THEN OneMore(g[n - 1], rows[n].tokens)
                       ELSE g[n - 1]]
<1>1. N \in Nat
  BY RowsAre
<1>2. \A n \in 1 .. N: \A c \in Count: Next1(n, c) \in Count
  BY RowsAre, Counts
<1>3. step \in Steps(N, Count)
  <2> HIDE DEF Next1, N
  <2>1. \A n \in 1 .. N: Step(n) \in [Count -> Count]
    BY <1>2
  <2> HIDE DEF Step
  <2> QED
    BY <2>1 DEF Steps
<1>4. PICK f: IsRun(f, N, Count, NoCount, step)
  <2> HIDE DEF step, N
  <2> QED
    BY <1>1, <1>3, Counts, RunExists
<1>5. f \in [0 .. N -> Count] /\ f[0] = NoCount /\ \A n \in 1 .. N: f[n] = Next1(n, f[n - 1])
  <2> SUFFICES ASSUME NEW n \in 1 .. N
               PROVE  f[n] = Next1(n, f[n - 1])
    BY <1>4 DEF IsRun
  <2>1. f[n - 1] \in Count
    BY <1>1, <1>4 DEF IsRun
  <2> HIDE DEF Next1
  <2> QED
    BY <1>4, <2>1 DEF IsRun
<1>6. f = [n \in 0 .. N |-> IF n = 0 THEN NoCount ELSE Next1(n, f[n - 1])]
  <2> HIDE DEF Next1, N
  <2>1. \A n \in 0 .. N: n # 0 => n \in 1 .. N
    BY <1>1
  <2> QED
    BY <1>5, <2>1
<1>7. upTo = [n \in 0 .. N |-> IF n = 0 THEN NoCount ELSE Next1(n, upTo[n - 1])]
  BY <1>6
<1>8. IsTally(upTo, rows, ms)
  <2> DEFINE T == {n \in 0 .. N: upTo[n] = f[n]}
  <2> HIDE DEF upTo
  <2>1. 0 \in T
    <3> HIDE DEF Next1
    <3> QED
      BY <1>1, <1>5, <1>7
  <2>2. \A n \in 1 .. N: n - 1 \in T => n \in T
    <3> HIDE DEF Next1
    <3> QED
      BY <1>1, <1>5, <1>7
  <2>3. \A n \in 0 .. N: n \in T
    <3> HIDE DEF T
    <3> QED
      BY <1>1, <2>1, <2>2, UpTo
  <2>4. upTo = f
    <3> HIDE DEF Next1
    <3> QED
      BY <1>5, <1>7, <2>3
  <2> QED
    BY <1>5, <2>4 DEF IsTally
<1>9. Tally(rows, ms) = upTo[N]
  BY DEF Tally
<1> QED
  BY <1>8, <1>9

LEMMA TallyIs ==
    ASSUME NEW rows \in Seq(Row), NEW ms
    PROVE  Tally(rows, ms) \in Count
<1>1. PICK f: IsTally(f, rows, ms) /\ Tally(rows, ms) = f[Len(rows)]
  BY TallyRuns
<1> QED
  BY <1>1, RowsAre DEF IsTally

LEMMA TallyEmpty ==
    ASSUME NEW ms
    PROVE  Tally(<<>>, ms) = NoCount
<1>1. <<>> \in Seq(Row) /\ Len(<<>>) = 0
  BY EmptySeq
<1>2. PICK f: IsTally(f, <<>>, ms) /\ Tally(<<>>, ms) = f[Len(<<>>)]
  BY <1>1, TallyRuns
<1> QED
  BY <1>1, <1>2 DEF IsTally

\* The rows are some older ones and then some newer ones.
IsSplit(rows, old, new) ==
    /\ Len(rows) = Len(old) + Len(new)
    /\ \A i \in 1 .. Len(old): rows[i] = old[i]
    /\ \A i \in 1 .. Len(new): rows[Len(old) + i] = new[i]

LEMMA TallySplit ==
    ASSUME NEW rows \in Seq(Row), NEW old \in Seq(Row), NEW new \in Seq(Row),
           IsSplit(rows, old, new), NEW ms
    PROVE  Tally(rows, ms) = Added(Tally(old, ms), Tally(new, ms))
<1> USE DEF IsSplit
<1>1. Len(old) \in Nat /\ Len(new) \in Nat /\ Len(rows) \in Nat
  BY RowsAre
<1>2. PICK f: IsTally(f, rows, ms) /\ Tally(rows, ms) = f[Len(rows)]
  BY TallyRuns
<1>3. PICK g: IsTally(g, old, ms) /\ Tally(old, ms) = g[Len(old)]
  BY TallyRuns
<1>4. PICK h: IsTally(h, new, ms) /\ Tally(new, ms) = h[Len(new)]
  BY TallyRuns
<1> DEFINE T == {n \in 0 .. Len(old): f[n] = g[n]}
<1>5. 0 \in T
  BY <1>1, <1>2, <1>3 DEF IsTally
<1>6. \A n \in 1 .. Len(old): n - 1 \in T => n \in T
  <2> SUFFICES ASSUME NEW n \in 1 .. Len(old), f[n - 1] = g[n - 1]
               PROVE  f[n] = g[n]
    BY <1>1
  <2>1. n \in 1 .. Len(rows)
    BY <1>1
  <2> QED
    BY <1>2, <1>3, <2>1 DEF IsTally
<1>7. f[Len(old)] = g[Len(old)]
  <2> HIDE DEF T
  <2>1. \A n \in 0 .. Len(old): n \in T
    BY <1>1, <1>5, <1>6, UpTo
  <2> QED
    BY <1>1, <2>1 DEF T
<1> DEFINE U == {n \in 0 .. Len(new): f[Len(old) + n] = Added(g[Len(old)], h[n])}
<1>8. g[Len(old)] \in Count /\ \A n \in 0 .. Len(new): h[n] \in Count
  <2>1. g \in [0 .. Len(old) -> Count] /\ h \in [0 .. Len(new) -> Count]
    BY <1>3, <1>4 DEF IsTally
  <2>2. Len(old) \in 0 .. Len(old)
    BY <1>1
  <2> QED
    BY <2>1, <2>2
<1>9. 0 \in U
  <2>1. Len(old) + 0 = Len(old) /\ 0 \in 0 .. Len(new) /\ h[0] = NoCount
    BY <1>1, <1>4 DEF IsTally
  <2>2. Added(g[Len(old)], NoCount) = g[Len(old)]
    BY <1>8, Counts
  <2>3. f[Len(old) + 0] = Added(g[Len(old)], h[0])
    BY <1>7, <2>1, <2>2
  <2> QED
    BY <2>1, <2>3
<1>10. \A n \in 1 .. Len(new): n - 1 \in U => n \in U
  <2> SUFFICES ASSUME NEW n \in 1 .. Len(new), f[Len(old) + (n - 1)] = Added(g[Len(old)], h[n - 1])
               PROVE  f[Len(old) + n] = Added(g[Len(old)], h[n])
    BY <1>1
  <2> DEFINE k == Len(old) + n
  <2>1. k \in 1 .. Len(rows) /\ k - 1 = Len(old) + (n - 1) /\ rows[k] = new[n] /\ n - 1 \in 0 .. Len(new)
    BY <1>1
  <2>2. f[k] = IF rows[k].model \in ms THEN OneMore(f[k - 1], rows[k].tokens) ELSE f[k - 1]
    BY <1>2, <2>1 DEF IsTally
  <2>3. h[n] = IF new[n].model \in ms THEN OneMore(h[n - 1], new[n].tokens) ELSE h[n - 1]
    BY <1>4 DEF IsTally
  <2>4. new[n].tokens \in Nat /\ h[n - 1] \in Count
    BY <1>8, <2>1, RowsAre
  <2>5. f[k - 1] = Added(g[Len(old)], h[n - 1])
    BY <2>1
  <2> HIDE DEF k
  <2>6. Added(g[Len(old)], OneMore(h[n - 1], new[n].tokens))
           = OneMore(Added(g[Len(old)], h[n - 1]), new[n].tokens)
    BY <1>8, <2>4, Counts
  <2>7. f[k] = Added(g[Len(old)], h[n])
    BY <2>1, <2>2, <2>3, <2>5, <2>6
  <2> QED
    BY <2>7 DEF k
<1>11. f[Len(old) + Len(new)] = Added(g[Len(old)], h[Len(new)])
  <2> HIDE DEF U
  <2>1. \A n \in 0 .. Len(new): n \in U
    BY <1>1, <1>9, <1>10, UpTo
  <2> QED
    BY <1>1, <2>1 DEF U
<1> QED
  BY <1>2, <1>3, <1>4, <1>11

LEMMA TallyAppend ==
    ASSUME NEW rows \in Seq(Row), NEW row \in Row, NEW ms
    PROVE  Tally(Append(rows, row), ms) =
              IF row.model \in ms THEN OneMore(Tally(rows, ms), row.tokens) ELSE Tally(rows, ms)
<1> DEFINE all == Append(rows, row)
           N == Len(rows)
<1>1. /\ N \in Nat /\ all \in Seq(Row) /\ Len(all) = N + 1 /\ all[N + 1] = row
      /\ \A i \in 1 .. N: all[i] = rows[i]
  BY AppendProperties, RowsAre
<1> HIDE DEF all
<1>2. PICK f: IsTally(f, all, ms) /\ Tally(all, ms) = f[N + 1]
  BY <1>1, TallyRuns
<1>3. PICK g: IsTally(g, rows, ms) /\ Tally(rows, ms) = g[N]
  BY TallyRuns
<1> DEFINE T == {n \in 0 .. N: f[n] = g[n]}
<1>4. 0 \in T
  BY <1>1, <1>2, <1>3 DEF IsTally
<1>5. \A n \in 1 .. N: n - 1 \in T => n \in T
  <2> SUFFICES ASSUME NEW n \in 1 .. N, f[n - 1] = g[n - 1]
               PROVE  f[n] = g[n]
    BY <1>1
  <2>1. n \in 1 .. N + 1
    BY <1>1
  <2> QED
    BY <1>1, <1>2, <1>3, <2>1 DEF IsTally
<1>6. f[N] = g[N]
  <2> HIDE DEF T
  <2>1. \A n \in 0 .. N: n \in T
    BY <1>1, <1>4, <1>5, UpTo
  <2> QED
    BY <1>1, <2>1 DEF T
<1>7. N + 1 \in 1 .. N + 1 /\ (N + 1) - 1 = N
  BY <1>1
<1>8. f[N + 1] = IF row.model \in ms THEN OneMore(f[N], row.tokens) ELSE f[N]
  BY <1>1, <1>2, <1>7 DEF IsTally
<1> QED
  BY <1>2, <1>3, <1>6, <1>8 DEF all

LEMMA TallyUnion ==
    ASSUME NEW rows \in Seq(Row), NEW A, NEW B, A \cap B = {}
    PROVE  Tally(rows, A \cup B) = Added(Tally(rows, A), Tally(rows, B))
<1> DEFINE N == Len(rows)
<1>1. N \in Nat
  BY RowsAre
<1>2. PICK f: IsTally(f, rows, A \cup B) /\ Tally(rows, A \cup B) = f[N]
  BY TallyRuns
<1>3. PICK g: IsTally(g, rows, A) /\ Tally(rows, A) = g[N]
  BY TallyRuns
<1>4. PICK h: IsTally(h, rows, B) /\ Tally(rows, B) = h[N]
  BY TallyRuns
<1> DEFINE T == {n \in 0 .. N: f[n] = Added(g[n], h[n])}
<1>5. 0 \in T
  <2>1. f[0] = NoCount /\ g[0] = NoCount /\ h[0] = NoCount
    BY <1>2, <1>3, <1>4 DEF IsTally
  <2> QED
    BY <1>1, <2>1, Counts
<1>6. \A n \in 1 .. N: n - 1 \in T => n \in T
  <2> SUFFICES ASSUME NEW n \in 1 .. N, f[n - 1] = Added(g[n - 1], h[n - 1])
               PROVE  f[n] = Added(g[n], h[n])
    BY <1>1
  <2>1. /\ f[n] = IF rows[n].model \in A \cup B THEN OneMore(f[n - 1], rows[n].tokens) ELSE f[n - 1]
        /\ g[n] = IF rows[n].model \in A THEN OneMore(g[n - 1], rows[n].tokens) ELSE g[n - 1]
        /\ h[n] = IF rows[n].model \in B THEN OneMore(h[n - 1], rows[n].tokens) ELSE h[n - 1]
    BY <1>2, <1>3, <1>4 DEF IsTally
  <2>2. n - 1 \in 0 .. N
    BY <1>1
  <2>3. g[n - 1] \in Count /\ h[n - 1] \in Count /\ rows[n].tokens \in Nat
    BY <1>3, <1>4, <2>2, RowsAre DEF IsTally
  <2> DEFINE sum == Added(g[n - 1], h[n - 1])
  <2>4. /\ Added(OneMore(g[n - 1], rows[n].tokens), h[n - 1]) = OneMore(sum, rows[n].tokens)
        /\ Added(g[n - 1], OneMore(h[n - 1], rows[n].tokens)) = OneMore(sum, rows[n].tokens)
    BY <2>3, Counts
  <2>5. CASE rows[n].model \in A
    <3>1. rows[n].model \notin B
      BY <2>5
    <3> QED
      BY <2>1, <2>4, <2>5, <3>1
  <2>6. CASE rows[n].model \notin A
    BY <2>1, <2>4, <2>6
  <2> QED
    BY <2>5, <2>6
<1>7. f[N] = Added(g[N], h[N])
  <2> HIDE DEF T
  <2>1. \A n \in 0 .. N: n \in T
    BY <1>1, <1>5, <1>6, UpTo
  <2> QED
    BY <1>1, <2>1 DEF T
<1> QED
  BY <1>2, <1>3, <1>4, <1>7

\* Without a request there are no tokens.
LEMMA TallyNone ==
    ASSUME NEW rows \in Seq(Row), NEW ms
    PROVE  /\ Tally(rows, ms).requests = 0 => Tally(rows, ms) = NoCount
           /\ ms = {} => Tally(rows, ms) = NoCount
<1> DEFINE N == Len(rows)
<1>1. N \in Nat
  BY RowsAre
<1>2. PICK f: IsTally(f, rows, ms) /\ Tally(rows, ms) = f[N]
  BY TallyRuns
<1> DEFINE T == {n \in 0 .. N: /\ f[n].requests = 0 => f[n] = NoCount
                               /\ ms = {} => f[n] = NoCount}
<1>3. 0 \in T
  BY <1>1, <1>2 DEF IsTally
<1>4. \A n \in 1 .. N: n - 1 \in T => n \in T
  <2> SUFFICES ASSUME NEW n \in 1 .. N, n - 1 \in T
               PROVE  n \in T
    OBVIOUS
  <2>1. f[n] = IF rows[n].model \in ms THEN OneMore(f[n - 1], rows[n].tokens) ELSE f[n - 1]
    BY <1>2 DEF IsTally
  <2>2. n \in 0 .. N /\ n - 1 \in 0 .. N
    BY <1>1
  <2>3. f[n - 1] \in Count
    BY <1>2, <2>2 DEF IsTally
  <2>4. OneMore(f[n - 1], rows[n].tokens).requests # 0
    BY <2>3 DEF OneMore, Count
  <2> QED
    BY <2>1, <2>2, <2>4
<1>5. N \in T
  <2> HIDE DEF T
  <2>1. \A n \in 0 .. N: n \in T
    BY <1>1, <1>3, <1>4, UpTo
  <2> QED
    BY <1>1, <2>1
<1> QED
  BY <1>2, <1>5

------------------------------------------------------------------------------
(* Sums over the models.                                                   *)

HasTotal(t, f) ==
    \E s \in [0 .. LastModel -> Nat]:
        s[0] = 0 /\ t = s[LastModel] /\ \A m \in Models: s[m] = s[m - 1] + f[m]

TokensIn(counters) == [m \in Models |-> counters[m].tokens]

LEMMA ModelsAre == LastModel \in Nat /\ \A m \in Models: m \in Nat /\ m - 1 \in 0 .. LastModel /\ m \in 0 .. LastModel
  BY CountersAssumption DEF Models

LEMMA TotalOfNone ==
    ASSUME NEW f, \A m \in Models: f[m] = 0
    PROVE  HasTotal(0, f)
<1> DEFINE s == [m \in 0 .. LastModel |-> 0]
<1>1. s \in [0 .. LastModel -> Nat] /\ s[0] = 0 /\ s[LastModel] = 0
  BY ModelsAre
<1>2. \A m \in Models: s[m] = s[m - 1] + f[m]
  BY ModelsAre
<1> HIDE DEF s
<1> QED
  BY <1>1, <1>2 DEF HasTotal

LEMMA TotalAdded ==
    ASSUME NEW f \in [Models -> Nat], NEW g \in [Models -> Nat], NEW h,
           \A m \in Models: h[m] = f[m] + g[m],
           NEW a, HasTotal(a, f), NEW b, HasTotal(b, g)
    PROVE  HasTotal(a + b, h)
<1>1. PICK s \in [0 .. LastModel -> Nat]:
          s[0] = 0 /\ a = s[LastModel] /\ \A m \in Models: s[m] = s[m - 1] + f[m]
  BY DEF HasTotal
<1>2. PICK t \in [0 .. LastModel -> Nat]:
          t[0] = 0 /\ b = t[LastModel] /\ \A m \in Models: t[m] = t[m - 1] + g[m]
  BY DEF HasTotal
<1> DEFINE u == [m \in 0 .. LastModel |-> s[m] + t[m]]
<1>3. u \in [0 .. LastModel -> Nat]
  OBVIOUS
<1>4. u[0] = 0 /\ u[LastModel] = a + b
  BY <1>1, <1>2, ModelsAre
<1>5. ASSUME NEW m \in Models
      PROVE  u[m] = u[m - 1] + h[m]
  <2>1. /\ u[m] = s[m] + t[m] /\ u[m - 1] = s[m - 1] + t[m - 1]
        /\ s[m - 1] \in Nat /\ t[m - 1] \in Nat /\ f[m] \in Nat /\ g[m] \in Nat
    BY ModelsAre
  <2> HIDE DEF u
  <2> QED
    BY <1>1, <1>2, <2>1
<1> HIDE DEF u
<1> QED
  BY <1>3, <1>4, <1>5 DEF HasTotal

\* The rows of all models are those of each.
LEMMA TotalTally ==
    ASSUME NEW rows \in Seq(Row), NEW f, \A m \in Models: f[m] = Tally(rows, {m}).tokens
    PROVE  HasTotal(Tally(rows, Models).tokens, f)
<1> DEFINE s == [k \in 0 .. LastModel |-> Tally(rows, 1 .. k).tokens]
<1>1. \A ms: Tally(rows, ms) \in Count /\ Tally(rows, ms).tokens \in Nat
  BY TallyIs DEF Count
<1>2. s \in [0 .. LastModel -> Nat]
  BY <1>1
<1>3. s[0] = 0
  <2>1. 1 .. 0 = {} /\ 0 \in 0 .. LastModel
    BY ModelsAre
  <2>2. Tally(rows, 1 .. 0) = NoCount
    BY <2>1, TallyNone
  <2> QED
    BY <2>1, <2>2 DEF NoCount
<1>4. s[LastModel] = Tally(rows, Models).tokens
  BY ModelsAre DEF Models
<1>5. ASSUME NEW m \in Models
      PROVE  s[m] = s[m - 1] + f[m]
  <2>1. 1 .. m = (1 .. m - 1) \cup {m} /\ (1 .. m - 1) \cap {m} = {}
    BY ModelsAre DEF Models
  <2>2. Tally(rows, 1 .. m) = Added(Tally(rows, 1 .. m - 1), Tally(rows, {m}))
    BY <2>1, TallyUnion
  <2>3. s[m] = Tally(rows, 1 .. m).tokens /\ s[m - 1] = Tally(rows, 1 .. m - 1).tokens
    BY ModelsAre
  <2> HIDE DEF s
  <2> QED
    BY <2>2, <2>3, CountTokens
<1> HIDE DEF s
<1> QED
  BY <1>2, <1>3, <1>4, <1>5 DEF HasTotal

\* A sum that fits is what SUM yields.
LEMMA SumIs ==
    ASSUME NEW counters, NEW t, HasTotal(t, TokensIn(counters)), Fits(t),
           \A m \in Models: counters[m].tokens \in Nat
    PROVE  Sum(counters) = t
<1> DEFINE upTo == CHOOSE g: g = [m \in 0 .. LastModel |->
                       IF m = 0 THEN 0 ELSE Plus(g[m - 1], counters[m].tokens)]
<1>1. PICK s \in [0 .. LastModel -> Nat]:
          s[0] = 0 /\ t = s[LastModel] /\ \A m \in Models: s[m] = s[m - 1] + counters[m].tokens
  BY DEF HasTotal, TokensIn
\* Counting down from the last.
<1> DEFINE T == {n \in 0 .. LastModel: s[LastModel - n] <= IntMax}
<1>2. 0 \in T
  BY <1>1, ModelsAre, CountersAssumption DEF Fits
<1>3. \A n \in 1 .. LastModel: n - 1 \in T => n \in T
  <2> SUFFICES ASSUME NEW n \in 1 .. LastModel, s[LastModel - (n - 1)] <= IntMax
               PROVE  s[LastModel - n] <= IntMax
    BY ModelsAre
  <2> DEFINE m == LastModel - (n - 1)
  <2>1. m \in Models /\ m - 1 = LastModel - n /\ m - 1 \in 0 .. LastModel /\ m \in 0 .. LastModel
    BY ModelsAre DEF Models
  <2>2. s[m] = s[m - 1] + counters[m].tokens /\ s[m - 1] \in Nat /\ counters[m].tokens \in Nat
    BY <1>1, <2>1
  <2> HIDE DEF m
  <2>3. s[m] <= IntMax
    BY DEF m
  <2> QED
    BY <2>1, <2>2, <2>3, CountersAssumption
<1>4. \A m \in 0 .. LastModel: s[m] <= IntMax
  <2> SUFFICES ASSUME NEW m \in 0 .. LastModel
               PROVE  s[m] <= IntMax
    OBVIOUS
  <2>1. LastModel - m \in 0 .. LastModel /\ LastModel - (LastModel - m) = m
    BY ModelsAre
  <2>2. LastModel - m \in T
    <3> HIDE DEF T
    <3> QED
      BY <1>2, <1>3, <2>1, ModelsAre, UpTo
  <2> QED
    BY <2>1, <2>2
<1>5. ASSUME NEW m \in Models
      PROVE  s[m] = Plus(s[m - 1], counters[m].tokens)
  <2>1. s[m - 1] \in Nat /\ s[m] \in Nat /\ s[m] <= IntMax /\ s[m] = s[m - 1] + counters[m].tokens
    BY <1>1, <1>4, ModelsAre
  <2> QED
    BY <2>1, CountersAssumption DEF Plus, Fits, Float
<1>6. \A m \in 0 .. LastModel: m # 0 => m \in Models
  BY ModelsAre DEF Models
<1>7. s = [m \in 0 .. LastModel |-> IF m = 0 THEN 0 ELSE Plus(s[m - 1], counters[m].tokens)]
  BY <1>1, <1>5, <1>6
<1>8. upTo = [m \in 0 .. LastModel |-> IF m = 0 THEN 0 ELSE Plus(upTo[m - 1], counters[m].tokens)]
  BY <1>7
<1> HIDE DEF upTo
<1> DEFINE U == {m \in 0 .. LastModel: upTo[m] = s[m]}
<1>9. 0 \in U
  BY <1>1, <1>8, ModelsAre
<1>10. \A m \in 1 .. LastModel: m - 1 \in U => m \in U
  BY <1>5, <1>8, ModelsAre DEF Models
<1>11. upTo[LastModel] = t
  <2> HIDE DEF U
  <2>1. \A m \in 0 .. LastModel: m \in U
    BY <1>9, <1>10, ModelsAre, UpTo
  <2> QED
    BY <1>1, <2>1, ModelsAre DEF U
<1> QED
  BY <1>11 DEF Sum, upTo

------------------------------------------------------------------------------
(* Groups and upserts.                                                     *)

LEMMA GroupsAre ==
    ASSUME NEW rows \in Seq(Row)
    PROVE  /\ DOMAIN Groups(rows) \subseteq Models
           /\ \A m \in DOMAIN Groups(rows): Groups(rows)[m] = Tally(rows, {m}) /\ Groups(rows)[m] \in Count
           /\ (\A m \in Models: Tally(rows, {m}).tokens <= IntMax)
                => \A m \in Models: m \notin DOMAIN Groups(rows) => Tally(rows, {m}) = NoCount
<1>1. \A m: Tally(rows, {m}) \in Count
  BY TallyIs
<1>2. \A m: /\ m \in DOMAIN Groups(rows) <=> /\ m \in Models /\ Tally(rows, {m}).requests > 0
                                             /\ \A q \in 1 .. m: Fits(Tally(rows, {q}).tokens)
            /\ m \in DOMAIN Groups(rows) => Groups(rows)[m] = Tally(rows, {m})
  BY DEF Groups
<1>3. ASSUME \A m \in Models: Tally(rows, {m}).tokens <= IntMax, NEW m \in Models, m \notin DOMAIN Groups(rows)
      PROVE  Tally(rows, {m}) = NoCount
  <2>1. \A q \in 1 .. m: q \in Models
    BY ModelsAre DEF Models
  <2>2. \A q \in 1 .. m: Tally(rows, {q}).tokens \in Nat /\ Tally(rows, {q}).tokens <= IntMax
    BY <1>1, <1>3, <2>1 DEF Count
  <2>3. \A q \in 1 .. m: Fits(Tally(rows, {q}).tokens)
    BY <2>2, CountersAssumption DEF Fits
  <2>4. ~ (Tally(rows, {m}).requests > 0) /\ Tally(rows, {m}).requests \in Nat
    BY <1>1, <1>2, <1>3, <2>3 DEF Count
  <2> QED
    BY <2>4, TallyNone
<1> QED
  BY <1>1, <1>2, <1>3

LEMMA UpsertType ==
    ASSUME NEW counters \in [Models -> Counter], NEW groups,
           \A m \in DOMAIN groups: groups[m] \in Counter
    PROVE  UpsertAll(counters, groups) \in [Models -> Counter]
<1>1. \A a, b \in Counter: Upsert(a, b) \in Counter
  BY CountersAssumption DEF Counter, Upsert, Plus, Fits
<1> QED
  BY <1>1 DEF UpsertAll

\* An upsert of all there is to add, where nothing overflows, adds it.
Upsertable(counters, groups, more) ==
    \A m \in Models:
        /\ counters[m] \in Count /\ more[m] \in Count
        /\ counters[m].tokens + more[m].tokens <= IntMax
        /\ IF m \in DOMAIN groups THEN groups[m] = more[m] ELSE more[m] = NoCount

LEMMA UpsertExact ==
    ASSUME NEW counters, NEW groups, NEW more, Upsertable(counters, groups, more)
    PROVE  \A m \in Models: UpsertAll(counters, groups)[m] = Added(counters[m], more[m])
<1> USE DEF Upsertable
<1> SUFFICES ASSUME NEW m \in Models
             PROVE  UpsertAll(counters, groups)[m] = Added(counters[m], more[m])
  OBVIOUS
<1>1. UpsertAll(counters, groups)[m]
        = IF m \in DOMAIN groups THEN Upsert(counters[m], groups[m]) ELSE counters[m]
  BY DEF UpsertAll
<1>2. CASE m \in DOMAIN groups
  <2>1. groups[m] = more[m]
    BY <1>2
  <2>2. /\ counters[m].tokens \in Nat /\ more[m].tokens \in Nat
        /\ counters[m].tokens + more[m].tokens <= IntMax
    BY DEF Count
  <2>3. Plus(counters[m].tokens, more[m].tokens) = counters[m].tokens + more[m].tokens
    BY <2>2, CountersAssumption DEF Plus, Fits, Float
  <2> QED
    BY <1>1, <1>2, <2>1, <2>3 DEF Upsert, Added
<1>3. CASE m \notin DOMAIN groups
  BY <1>1, <1>3, Counts
<1> QED
  BY <1>2, <1>3

------------------------------------------------------------------------------
(* The invariant.                                                          *)

Typed ==
    /\ usage \in Seq(Row)
    /\ totals \in [Models -> Counter] /\ deleted \in [Models -> Counter]
    /\ counted \in [Models -> Count] /\ recorded \in Count
    /\ \A m \in Models: counted[m].tokens <= recorded.tokens

\* No counter is a float, and what was counted is in one of the three tables.
Exact ==
    \A m \in Models:
        /\ totals[m] \in Count /\ deleted[m] \in Count
        /\ totals[m].requests = 0 => totals[m] = NoCount
        /\ counted[m] = Added(Added(Tally(usage, {m}), totals[m]), deleted[m])

ExactTotal ==
    \E a, b \in Nat:
        /\ HasTotal(a, TokensIn(totals)) /\ HasTotal(b, TokensIn(deleted))
        /\ Tally(usage, Models).tokens + a + b = recorded.tokens

CInv == Typed /\ (Fits(recorded.tokens) => Exact /\ ExactTotal)

LEMMA NoCountersAre ==
    /\ NoCounters \in [Models -> Counter] /\ NoCounters \in [Models -> Count]
    /\ \A m \in Models: NoCounters[m] = NoCount
    /\ HasTotal(0, TokensIn(NoCounters))
<1>1. \A m \in Models: NoCounters[m] = NoCount
  BY DEF NoCounters
<1>2. \A m \in Models: TokensIn(NoCounters)[m] = 0
  BY <1>1 DEF TokensIn, NoCount
<1>3. HasTotal(0, TokensIn(NoCounters))
  BY <1>2, TotalOfNone
<1>4. NoCount \in Count /\ NoCount \in Counter
  BY DEF NoCount, Count, Counter
<1> QED
  BY <1>1, <1>3, <1>4 DEF NoCounters

LEMMA CountersInit == Init => CInv
<1> SUFFICES ASSUME Init
             PROVE  CInv
  OBVIOUS
<1> USE DEF Init
<1>1. \A ms: Tally(usage, ms) = NoCount
  BY TallyEmpty
<1>2. Typed
  BY NoCountersAre, EmptySeq, Counts DEF Typed, NoCount
<1>3. Exact
  BY <1>1, NoCountersAre, Counts DEF Exact
<1>4. ExactTotal
  BY <1>1, NoCountersAre DEF ExactTotal, NoCount
<1> QED
  BY <1>2, <1>3, <1>4 DEF CInv

\* No table holds more than was counted.
LEMMA Bounded ==
    ASSUME CInv, Fits(recorded.tokens), NEW m \in Models
    PROVE  /\ Tally(usage, {m}) \in Count /\ totals[m] \in Count /\ deleted[m] \in Count
           /\ Tally(usage, {m}).tokens + totals[m].tokens + deleted[m].tokens <= IntMax
<1>1. Tally(usage, {m}) \in Count /\ totals[m] \in Count /\ deleted[m] \in Count
  BY TallyIs DEF CInv, Typed, Exact
<1>2. counted[m].tokens = Tally(usage, {m}).tokens + totals[m].tokens + deleted[m].tokens
  <2>1. counted[m] = Added(Added(Tally(usage, {m}), totals[m]), deleted[m])
    BY DEF CInv, Exact
  <2> QED
    BY <2>1, CountTokens
<1>3. counted[m].tokens \in Nat /\ counted[m].tokens <= recorded.tokens
  BY DEF CInv, Typed, Count
<1>4. recorded.tokens \in Nat /\ recorded.tokens <= IntMax
  BY CountersAssumption DEF Fits
<1> QED
  BY <1>1, <1>2, <1>3, <1>4, CountersAssumption

LEMMA RecordStep ==
    ASSUME CInv, NEW m \in Models, NEW tokens \in Tokens, Record(m, tokens)
    PROVE  CInv'
<1>1. UNCHANGED <<totals, deleted>> /\ tokens \in Nat
  BY CountersAssumption DEF Record
<1>2. CASE ~ Fits(tokens)
  <2>1. UNCHANGED <<usage, counted, recorded>>
    BY <1>2 DEF Record
  <2> QED
    BY <1>1, <2>1 DEF CInv, Typed, Exact, ExactTotal
<1>3. CASE Fits(tokens)
  <2> DEFINE row == [model |-> m, tokens |-> tokens]
  <2>1. /\ usage' = Append(usage, row)
        /\ counted' = [counted EXCEPT ![m] = OneMore(counted[m], tokens)]
        /\ recorded' = OneMore(recorded, tokens)
    BY <1>3 DEF Record
  <2>2. row \in Row /\ row.model = m /\ row.tokens = tokens
    BY <1>1 DEF Row
  <2> HIDE DEF row
  <2>3. /\ usage \in Seq(Row) /\ counted \in [Models -> Count] /\ recorded \in Count
        /\ \A p \in Models: counted[p].tokens <= recorded.tokens
    BY DEF CInv, Typed
  <2>4. \A ms: Tally(usage', ms) = IF m \in ms THEN OneMore(Tally(usage, ms), tokens) ELSE Tally(usage, ms)
    BY <2>1, <2>2, <2>3, TallyAppend
  <2>5. \A p \in Models: counted'[p] = IF p = m THEN OneMore(counted[p], tokens) ELSE counted[p]
    BY <2>1, <2>3
  <2>6. recorded'.tokens = recorded.tokens + tokens /\ recorded.tokens \in Nat /\ recorded' \in Count
    BY <1>1, <2>1, <2>3, Counts DEF OneMore, Count
  <2>7. Typed'
    <3>1. usage' \in Seq(Row)
      BY <2>1, <2>2, <2>3, AppendProperties
    <3>2. counted' \in [Models -> Count]
      <4>1. OneMore(counted[m], tokens) \in Count
        BY <1>1, <2>3, Counts
      <4> QED
        BY <2>1, <2>3, <4>1
    <3>3. ASSUME NEW p \in Models
          PROVE  counted'[p].tokens <= recorded'.tokens
      <4>1. counted[p].tokens \in Nat /\ counted[p].tokens <= recorded.tokens
        BY <2>3 DEF Count
      <4>2. counted'[p].tokens = counted[p].tokens + tokens \/ counted'[p].tokens = counted[p].tokens
        BY <2>5, CountTokens
      <4> QED
        BY <1>1, <2>6, <4>1, <4>2
    <3> QED
      BY <1>1, <2>6, <3>1, <3>2, <3>3 DEF CInv, Typed
  <2>8. ASSUME Fits(recorded'.tokens)
        PROVE  (Exact /\ ExactTotal)'
    <3>1. Fits(recorded.tokens)
      BY <1>1, <2>6, <2>8, CountersAssumption DEF Fits
    <3>2. Exact /\ ExactTotal
      BY <3>1 DEF CInv
    <3>3. ASSUME NEW p \in Models
          PROVE  counted'[p] = Added(Added(Tally(usage', {p}), totals[p]), deleted[p])
      <4> DEFINE t == Tally(usage, {p})
      <4>1. t \in Count /\ totals[p] \in Count /\ deleted[p] \in Count
        BY <2>3, <3>2, TallyIs DEF Exact
      <4>2. counted[p] = Added(Added(t, totals[p]), deleted[p])
        BY <3>2 DEF Exact
      <4> HIDE DEF t
      <4>3. Added(Added(OneMore(t, tokens), totals[p]), deleted[p])
              = OneMore(Added(Added(t, totals[p]), deleted[p]), tokens)
        <5>1. Added(OneMore(t, tokens), totals[p]) = OneMore(Added(t, totals[p]), tokens)
          BY <1>1, <4>1, Counts
        <5>2. Added(t, totals[p]) \in Count
          BY <4>1, Counts
        <5>3. Added(OneMore(Added(t, totals[p]), tokens), deleted[p])
                = OneMore(Added(Added(t, totals[p]), deleted[p]), tokens)
          BY <1>1, <4>1, <5>2, Counts
        <5> QED
          BY <5>1, <5>3
      <4>4. Tally(usage', {p}) = IF p = m THEN OneMore(t, tokens) ELSE t
        BY <2>4 DEF t
      <4> QED
        BY <2>5, <4>2, <4>3, <4>4
    <3>4. Exact'
      BY <1>1, <3>2, <3>3 DEF Exact
    <3>5. Tally(usage', Models).tokens = Tally(usage, Models).tokens + tokens
          /\ Tally(usage, Models).tokens \in Nat
      BY <2>3, <2>4, TallyIs DEF OneMore, Count
    <3>6. ExactTotal'
      BY <1>1, <2>6, <3>2, <3>5 DEF ExactTotal
    <3> QED
      BY <3>4, <3>6
  <2> QED
    BY <2>7, <2>8 DEF CInv
<1> QED
  BY <1>2, <1>3

\* The tokens of a sum are the sum of the tokens, model by model.
LEMMA TotalUpserted ==
    ASSUME NEW counters, NEW more, NEW after,
           \A m \in Models: counters[m] \in Count /\ more[m] \in Count,
           \A m \in Models: after[m] = Added(counters[m], more[m]),
           NEW a, HasTotal(a, TokensIn(counters)), NEW b, HasTotal(b, TokensIn(more))
    PROVE  HasTotal(a + b, TokensIn(after))
<1>1. \A c: (\A m \in Models: c[m] \in Count) => TokensIn(c) \in [Models -> Nat]
  BY DEF TokensIn, Count
<1>2. \A m \in Models: TokensIn(after)[m] = TokensIn(counters)[m] + TokensIn(more)[m]
  BY CountTokens DEF TokensIn
<1> QED
  BY <1>1, <1>2, TotalAdded

\* The tallies of some rows, model by model.
Tallies(rows) == [m \in Models |-> Tally(rows, {m})]

LEMMA TalliesAre ==
    ASSUME NEW rows \in Seq(Row)
    PROVE  /\ \A m \in Models: Tallies(rows)[m] = Tally(rows, {m}) /\ Tallies(rows)[m] \in Count
           /\ HasTotal(Tally(rows, Models).tokens, TokensIn(Tallies(rows)))
<1>1. \A m \in Models: Tallies(rows)[m] = Tally(rows, {m})
  BY DEF Tallies
<1>2. \A m \in Models: TokensIn(Tallies(rows))[m] = Tally(rows, {m}).tokens
  BY <1>1 DEF TokensIn
<1> QED
  BY <1>1, <1>2, TallyIs, TotalTally

LEMMA AgedStep ==
    ASSUME CInv, NEW n \in 1 .. Len(usage), ConsolidateAged(n)
    PROVE  CInv'
<1> DEFINE old == SubSeq(usage, 1, n)
           new == SubSeq(usage, n + 1, Len(usage))
           groups == Groups(old)
<1>1. UNCHANGED <<deleted, counted, recorded>>
  BY DEF ConsolidateAged
<1>2. CASE DOMAIN groups = {}
  <2>1. UNCHANGED <<usage, totals>>
    BY <1>2 DEF ConsolidateAged
  <2> QED
    BY <1>1, <2>1 DEF CInv, Typed, Exact, ExactTotal
<1>3. CASE DOMAIN groups # {}
  <2>1. totals' = UpsertAll(totals, groups) /\ usage' = new
    BY <1>3 DEF ConsolidateAged
  <2>2. /\ usage \in Seq(Row) /\ totals \in [Models -> Counter]
    BY DEF CInv, Typed
  <2>3. old \in Seq(Row) /\ new \in Seq(Row) /\ IsSplit(usage, old, new)
    <3>1. Len(usage) \in Nat /\ n \in Nat /\ n >= 1 /\ n <= Len(usage)
      BY <2>2, RowsAre
    <3>2. old \in Seq(Row) /\ Len(old) = n /\ \A i \in 1 .. n: old[i] = usage[i]
      BY <2>2, <3>1, SubSeqProperties
    <3>3. /\ new \in Seq(Row) /\ Len(new) = Len(usage) - n
          /\ \A i \in 1 .. Len(usage) - n: new[i] = usage[n + i]
      BY <2>2, <3>1, SubSeqProperties
    <3> HIDE DEF old, new
    <3> QED
      BY <3>1, <3>2, <3>3 DEF IsSplit
  <2> HIDE DEF old, new
  <2>4. /\ DOMAIN groups \subseteq Models
        /\ \A m \in DOMAIN groups: groups[m] = Tally(old, {m}) /\ groups[m] \in Count
        /\ (\A m \in Models: Tally(old, {m}).tokens <= IntMax)
              => \A m \in Models: m \notin DOMAIN groups => Tally(old, {m}) = NoCount
    BY <2>3, GroupsAre
  <2> HIDE DEF groups
  <2>5. totals' \in [Models -> Counter]
    <3>1. Count \subseteq Counter
      BY DEF Count, Counter
    <3> QED
      BY <2>1, <2>2, <2>4, <3>1, UpsertType
  <2>6. Typed'
    BY <1>1, <2>1, <2>3, <2>5 DEF CInv, Typed
  <2>7. ASSUME Fits(recorded.tokens)
        PROVE  (Exact /\ ExactTotal)'
    <3> DEFINE more == Tallies(old)
    <3>1. Exact /\ ExactTotal
      BY <2>7 DEF CInv
    <3>2. \A ms: /\ Tally(old, ms) \in Count /\ Tally(new, ms) \in Count
                 /\ Tally(usage, ms) = Added(Tally(old, ms), Tally(new, ms))
      BY <2>2, <2>3, TallyIs, TallySplit
    <3>3. \A m \in Models: more[m] = Tally(old, {m}) /\ more[m] \in Count /\ totals[m] \in Count
      BY <2>3, <3>1, TalliesAre DEF Exact
    <3>4. \A m \in Models: totals[m].tokens + more[m].tokens <= IntMax /\ more[m].tokens <= IntMax
      <4> SUFFICES ASSUME NEW m \in Models
                   PROVE  totals[m].tokens + more[m].tokens <= IntMax /\ more[m].tokens <= IntMax
        OBVIOUS
      <4>1. /\ Tally(old, {m}).tokens \in Nat /\ Tally(new, {m}).tokens \in Nat
            /\ totals[m].tokens \in Nat /\ deleted[m].tokens \in Nat
        BY <3>1, <3>2 DEF Exact, Count
      <4>2. Tally(usage, {m}).tokens = Tally(old, {m}).tokens + Tally(new, {m}).tokens
        BY <3>2, CountTokens
      <4>3. Tally(usage, {m}).tokens + totals[m].tokens + deleted[m].tokens <= IntMax
        BY <2>7, Bounded
      <4>4. \A o, w, t, d \in Nat: o + w + t + d <= IntMax => t + o <= IntMax /\ o <= IntMax
        BY CountersAssumption
      <4>5. totals[m].tokens + Tally(old, {m}).tokens <= IntMax /\ Tally(old, {m}).tokens <= IntMax
        BY <4>1, <4>2, <4>3, <4>4
      <4>6. more[m] = Tally(old, {m})
        BY <3>3
      <4> HIDE DEF more
      <4> QED
        BY <4>5, <4>6
    <3> HIDE DEF more
    <3>5. \A m \in Models: totals'[m] = Added(totals[m], more[m])
      <4>1. \A m \in Models: Tally(old, {m}).tokens <= IntMax
        BY <3>3, <3>4
      <4>2. Upsertable(totals, groups, more)
        <5>1. \A m \in Models: m \notin DOMAIN groups => Tally(old, {m}) = NoCount
          BY <2>4, <4>1
        <5> HIDE DEF more
        <5> QED
          BY <2>4, <3>3, <3>4, <5>1 DEF Upsertable
      <4>3. \A m \in Models: UpsertAll(totals, groups)[m] = Added(totals[m], more[m])
        BY <4>2, UpsertExact
      <4> QED
        BY <2>1, <4>3
    <3>6. ASSUME NEW m \in Models
          PROVE  /\ totals'[m] \in Count /\ deleted[m] \in Count
                 /\ totals'[m].requests = 0 => totals'[m] = NoCount
                 /\ counted[m] = Added(Added(Tally(new, {m}), totals'[m]), deleted[m])
      <4>1. PICK o, w, t, d \in Count:
                o = Tally(old, {m}) /\ w = Tally(new, {m}) /\ t = totals[m] /\ d = deleted[m]
        BY <3>1, <3>2 DEF Exact
      <4>2. totals'[m] = Added(t, o)
        BY <3>3, <3>5, <4>1
      <4>3. /\ counted[m] = Added(Added(Added(o, w), t), d)
            /\ t.requests = 0 => t = NoCount
            /\ o.requests = 0 => o = NoCount
        <5>1. counted[m] = Added(Added(Tally(usage, {m}), totals[m]), deleted[m])
          BY <3>1 DEF Exact
        <5>2. Tally(usage, {m}) = Added(o, w)
          BY <3>2, <4>1
        <5>3. totals[m].requests = 0 => totals[m] = NoCount
          BY <3>1 DEF Exact
        <5>4. o.requests = 0 => o = NoCount
          BY <2>3, <4>1, TallyNone
        <5> QED
          BY <4>1, <5>1, <5>2, <5>3, <5>4
      <4>4. Added(Added(o, w), t) = Added(w, Added(t, o))
        BY AddedInAnyOrder
      <4>5. Added(t, o).requests = 0 => t.requests = 0 /\ o.requests = 0
        BY <4>1 DEF Added, Count
      <4>6. Added(NoCount, NoCount) = NoCount
        BY Counts
      <4>7. Added(t, o) \in Count
        BY <4>1, Counts
      <4>8. totals'[m].requests = 0 => totals'[m] = NoCount
        BY <4>2, <4>3, <4>5, <4>6
      <4>9. counted[m] = Added(Added(w, totals'[m]), d)
        BY <4>2, <4>3, <4>4
      <4> QED
        BY <4>1, <4>2, <4>7, <4>8, <4>9
    <3>7. Exact'
      BY <1>1, <2>1, <3>6 DEF Exact
    <3>8. ExactTotal'
      <4>1. PICK a, b \in Nat: /\ HasTotal(a, TokensIn(totals)) /\ HasTotal(b, TokensIn(deleted))
                               /\ Tally(usage, Models).tokens + a + b = recorded.tokens
        BY <3>1 DEF ExactTotal
      <4>2. HasTotal(Tally(old, Models).tokens, TokensIn(more))
        BY <2>3, TalliesAre DEF more
      <4>3. HasTotal(a + Tally(old, Models).tokens, TokensIn(totals'))
        BY <3>3, <3>5, <4>1, <4>2, TotalUpserted
      <4>4. /\ Tally(old, Models).tokens \in Nat /\ Tally(new, Models).tokens \in Nat
            /\ Tally(usage, Models).tokens = Tally(old, Models).tokens + Tally(new, Models).tokens
        BY <3>2, CountTokens DEF Count
      <4>5. /\ a + Tally(old, Models).tokens \in Nat
            /\ Tally(new, Models).tokens + (a + Tally(old, Models).tokens) + b = recorded.tokens
        BY <4>1, <4>4
      <4> QED
        BY <1>1, <2>1, <4>1, <4>3, <4>5 DEF ExactTotal
    <3> QED
      BY <3>7, <3>8
  <2> QED
    BY <1>1, <2>6, <2>7 DEF CInv
<1> QED
  BY <1>2, <1>3

LEMMA DeletedStep ==
    ASSUME CInv, ConsolidateDeleted
    PROVE  CInv'
<1> DEFINE groups == Groups(usage)
           mid == UpsertAll(deleted, groups)
           more == Tallies(usage)
<1>1. /\ deleted' = UpsertAll(mid, Readable(totals)) /\ usage' = <<>> /\ totals' = NoCounters
      /\ UNCHANGED <<counted, recorded>>
  BY DEF ConsolidateDeleted
<1>2. /\ usage \in Seq(Row) /\ totals \in [Models -> Counter] /\ deleted \in [Models -> Counter]
  BY DEF CInv, Typed
<1>3. /\ DOMAIN groups \subseteq Models
      /\ \A m \in DOMAIN groups: groups[m] = Tally(usage, {m}) /\ groups[m] \in Count
      /\ (\A m \in Models: Tally(usage, {m}).tokens <= IntMax)
            => \A m \in Models: m \notin DOMAIN groups => Tally(usage, {m}) = NoCount
  BY <1>2, GroupsAre
<1> HIDE DEF groups
<1>4. \A m: /\ m \in DOMAIN Readable(totals)
                 <=> m \in Models /\ totals[m].requests > 0 /\ totals[m].tokens # Float
            /\ m \in DOMAIN Readable(totals) => Readable(totals)[m] = totals[m]
  BY DEF Readable
<1>5. mid \in [Models -> Counter] /\ deleted' \in [Models -> Counter]
  <2>1. Count \subseteq Counter
    BY DEF Count, Counter
  <2>2. mid \in [Models -> Counter]
    BY <1>2, <1>3, <2>1, UpsertType
  <2>3. \A m \in DOMAIN Readable(totals): Readable(totals)[m] \in Counter
    BY <1>2, <1>4
  <2> HIDE DEF mid
  <2> QED
    BY <1>1, <2>2, <2>3, UpsertType
<1>6. Typed'
  BY <1>1, <1>5, NoCountersAre, EmptySeq DEF CInv, Typed
<1>7. \A ms: Tally(usage', ms) = NoCount
  BY <1>1, TallyEmpty
<1>8. ASSUME Fits(recorded.tokens)
      PROVE  (Exact /\ ExactTotal)'
  <2>1. Exact /\ ExactTotal
    BY <1>8 DEF CInv
  <2>2. \A m \in Models: /\ more[m] = Tally(usage, {m}) /\ more[m] \in Count
                         /\ totals[m] \in Count /\ deleted[m] \in Count
    BY <1>2, <2>1, TalliesAre DEF Exact
  <2> HIDE DEF more
  <2>3. \A m \in Models: /\ deleted[m].tokens + more[m].tokens <= IntMax
                         /\ deleted[m].tokens + more[m].tokens + totals[m].tokens <= IntMax
                         /\ Tally(usage, {m}).tokens <= IntMax
    <3> SUFFICES ASSUME NEW m \in Models
                 PROVE  /\ deleted[m].tokens + Tally(usage, {m}).tokens <= IntMax
                        /\ deleted[m].tokens + Tally(usage, {m}).tokens + totals[m].tokens <= IntMax
                        /\ Tally(usage, {m}).tokens <= IntMax
      BY <2>2
    <3>1. /\ Tally(usage, {m}).tokens \in Nat /\ totals[m].tokens \in Nat /\ deleted[m].tokens \in Nat
          /\ Tally(usage, {m}).tokens + totals[m].tokens + deleted[m].tokens <= IntMax
      BY <1>8, Bounded DEF Count
    <3>2. \A r, t, d \in Nat: r + t + d <= IntMax => d + r <= IntMax /\ d + r + t <= IntMax /\ r <= IntMax
      BY CountersAssumption
    <3> QED
      BY <3>1, <3>2
  <2>4. \A m \in Models: mid[m] = Added(deleted[m], more[m])
    <3>1. Upsertable(deleted, groups, more)
      <4>1. \A m \in Models: m \notin DOMAIN groups => Tally(usage, {m}) = NoCount
        BY <1>3, <2>3
      <4> QED
        BY <1>3, <2>2, <2>3, <4>1 DEF Upsertable
    <3> QED
      BY <3>1, UpsertExact
  <2> HIDE DEF mid
  <2>5. \A m \in Models: mid[m] \in Count /\ mid[m].tokens = deleted[m].tokens + more[m].tokens
    <3>1. \A m \in Models: Added(deleted[m], more[m]) \in Count
      BY <2>2, Counts
    <3> QED
      BY <2>4, <3>1, CountTokens
  <2>6. \A m \in Models: deleted'[m] = Added(mid[m], totals[m])
    <3>1. Upsertable(mid, Readable(totals), totals)
      <4>1. \A m \in Models: m \notin DOMAIN Readable(totals) => totals[m] = NoCount
        <5> SUFFICES ASSUME NEW m \in Models, m \notin DOMAIN Readable(totals)
                     PROVE  totals[m] = NoCount
          OBVIOUS
        <5>1. ~ (totals[m].requests > 0 /\ totals[m].tokens # Float)
          BY <1>4
        <5>2. totals[m].requests \in Nat /\ totals[m].tokens \in Nat
          BY <2>2 DEF Count
        <5>3. totals[m].requests = 0
          BY <5>1, <5>2 DEF Float
        <5> QED
          BY <2>1, <5>3 DEF Exact
      <4> QED
        BY <1>4, <2>2, <2>3, <2>5, <4>1 DEF Upsertable
    <3> QED
      BY <1>1, <3>1, UpsertExact
  <2>7. ASSUME NEW m \in Models
        PROVE  /\ totals'[m] \in Count /\ deleted'[m] \in Count
               /\ totals'[m].requests = 0 => totals'[m] = NoCount
               /\ counted'[m] = Added(Added(Tally(usage', {m}), totals'[m]), deleted'[m])
    <3>1. PICK r, t, d \in Count: r = more[m] /\ t = totals[m] /\ d = deleted[m]
      BY <2>2
    <3>2. totals'[m] = NoCount /\ Tally(usage', {m}) = NoCount
      BY <1>1, <1>7, NoCountersAre
    <3>3. deleted'[m] = Added(Added(d, r), t)
      BY <2>4, <2>6, <3>1
    <3>4. counted'[m] = Added(Added(r, t), d)
      BY <1>1, <2>1, <2>2, <3>1 DEF Exact
    <3>5. Added(Added(NoCount, NoCount), Added(Added(d, r), t)) = Added(Added(r, t), d)
      BY <3>1 DEF Added, Count, NoCount
    <3>6. Added(Added(d, r), t) \in Count
      BY <3>1, Counts
    <3> QED
      BY <3>2, <3>3, <3>4, <3>5, <3>6, Counts
  <2>8. Exact'
    BY <2>7 DEF Exact
  <2>9. ExactTotal'
    <3>1. PICK a, b \in Nat: /\ HasTotal(a, TokensIn(totals)) /\ HasTotal(b, TokensIn(deleted))
                             /\ Tally(usage, Models).tokens + a + b = recorded.tokens
      BY <2>1 DEF ExactTotal
    <3> DEFINE r == Tally(usage, Models).tokens
    <3>2. HasTotal(r, TokensIn(more)) /\ r \in Nat
      BY <1>2, TalliesAre, TallyIs DEF more, Count
    <3> HIDE DEF r
    <3>3. HasTotal(b + r, TokensIn(mid))
      BY <2>2, <2>4, <3>1, <3>2, TotalUpserted
    <3>4. HasTotal((b + r) + a, TokensIn(deleted'))
      BY <2>2, <2>5, <2>6, <3>1, <3>3, TotalUpserted
    <3>5. HasTotal(0, TokensIn(totals'))
      BY <1>1, NoCountersAre
    <3>6. /\ (b + r) + a \in Nat /\ 0 + 0 + ((b + r) + a) = recorded.tokens
      BY <3>1, <3>2 DEF r
    <3>7. Tally(usage', Models).tokens = 0
      BY <1>7 DEF NoCount
    <3> QED
      BY <1>1, <3>4, <3>5, <3>6, <3>7 DEF ExactTotal
  <2> QED
    BY <2>8, <2>9
<1> QED
  BY <1>1, <1>6, <1>8 DEF CInv

LEMMA CountersInvariant == Spec => []CInv
<1>1. CInv /\ [Next]_vars => CInv'
  <2> SUFFICES ASSUME CInv, [Next]_vars
               PROVE  CInv'
    OBVIOUS
  <2>1. ASSUME NEW m \in Models, NEW tokens \in Tokens, Record(m, tokens)
        PROVE  CInv'
    BY <2>1, RecordStep
  <2>2. ASSUME NEW n \in 1 .. Len(usage), ConsolidateAged(n)
        PROVE  CInv'
    BY <2>2, AgedStep
  <2>3. CASE ConsolidateDeleted
    BY <2>3, DeletedStep
  <2>4. CASE UNCHANGED vars
    BY <2>4 DEF vars, CInv, Typed, Exact, ExactTotal
  <2> QED
    BY <2>1, <2>2, <2>3, <2>4 DEF Next
<1> QED
  BY <1>1, CountersInit, PTL DEF Spec

\* CountersExact for any models, counts and limit: no fold loses a request or a
\* token, or counts one twice, while the whole fits.
THEOREM ExactCounters == Spec => []CountersExact
<1>1. CInv => CountersExact
  <2> SUFFICES ASSUME CInv, Fits(recorded.tokens), NEW m \in Models
               PROVE  LET raw == Tally(usage, {m})
                      IN  /\ raw.requests + totals[m].requests + deleted[m].requests = counted[m].requests
                          /\ raw.tokens + totals[m].tokens + deleted[m].tokens = counted[m].tokens
    BY DEF CountersExact
  <2>1. counted[m] = Added(Added(Tally(usage, {m}), totals[m]), deleted[m])
    BY DEF CInv, Exact
  <2>2. \A a, b, c: /\ Added(Added(a, b), c).requests = a.requests + b.requests + c.requests
                    /\ Added(Added(a, b), c).tokens = a.tokens + b.tokens + c.tokens
    BY DEF Added
  <2> QED
    BY <2>1, <2>2
<1> QED
  BY <1>1, CountersInvariant, PTL

\* TotalIsAllTime: the sum over the three tables is what was recorded.
THEOREM AllTimeTotal == Spec => []TotalIsAllTime
<1>1. CInv => TotalIsAllTime
  <2> SUFFICES ASSUME CInv, Fits(recorded.tokens)
               PROVE  AllTime = recorded.tokens
    BY DEF TotalIsAllTime
  <2>1. PICK a, b \in Nat: /\ HasTotal(a, TokensIn(totals)) /\ HasTotal(b, TokensIn(deleted))
                           /\ Tally(usage, Models).tokens + a + b = recorded.tokens
    BY DEF CInv, ExactTotal
  <2>2. Tally(usage, Models).tokens \in Nat
    BY TallyIs DEF CInv, Typed, Count
  <2>3. recorded.tokens \in Nat /\ recorded.tokens <= IntMax
    BY CountersAssumption DEF Fits
  <2>4. Fits(a) /\ Fits(b) /\ Fits(Tally(usage, Models).tokens + a)
    BY <2>1, <2>2, <2>3, CountersAssumption DEF Fits
  <2>5. \A m \in Models: totals[m].tokens \in Nat /\ deleted[m].tokens \in Nat
    BY DEF CInv, Exact, Count
  <2>6. Sum(totals) = a /\ Sum(deleted) = b
    BY <2>1, <2>4, <2>5, SumIs
  <2>7. \A x, y \in Nat: Fits(x + y) => Plus(x, y) = x + y
    BY DEF Plus, Float
  <2>8. Plus(Plus(Tally(usage, Models).tokens, a), b) = recorded.tokens
    BY <2>1, <2>2, <2>4, <2>7
  <2>9. recorded.tokens # Float
    BY <2>3 DEF Float
  <2> QED
    BY <2>6, <2>8, <2>9 DEF AllTime
<1> QED
  BY <1>1, CountersInvariant, PTL
=============================================================================
