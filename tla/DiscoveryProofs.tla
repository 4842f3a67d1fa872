---------------------------- MODULE DiscoveryProofs ---------------------------
(***************************************************************************)
(* Proofs about Discovery and ModelMeta, for any providers, payloads,      *)
(* tables and requests: what is advertised is what was offered and kept,   *)
(* requests are routed by what is advertised, and an entry says what the   *)
(* provider and the configuration say.                                     *)
(***************************************************************************)
EXTENDS Discovery, InductionLemmas, FiniteSetTheorems, SequenceTheorems

------------------------------------------------------------------------------
(* Sequences as sets.                                                      *)

LEMMA ToSetEmpty == ToSet(<<>>) = {}
  BY DEF ToSet

LEMMA ToSetOf ==
    ASSUME NEW S, NEW s \in Seq(S)
    PROVE  ToSet(s) = {s[i]: i \in 1 .. Len(s)} /\ ToSet(s) \subseteq S
<1>1. DOMAIN s = 1 .. Len(s) /\ \A i \in 1 .. Len(s): s[i] \in S
  BY LenProperties, ElementOfSeq
<1> QED
  BY <1>1 DEF ToSet

LEMMA ToSetAppend ==
    ASSUME NEW S, NEW s \in Seq(S), NEW e \in S
    PROVE  ToSet(Append(s, e)) = ToSet(s) \cup {e}
<1>1. /\ Append(s, e) \in Seq(S) /\ Len(Append(s, e)) = Len(s) + 1 /\ Len(s) \in Nat
      /\ \A i \in 1 .. Len(s): Append(s, e)[i] = s[i]
      /\ Append(s, e)[Len(s) + 1] = e
  BY AppendProperties, LenProperties
<1>2. ToSet(Append(s, e)) = {Append(s, e)[i]: i \in 1 .. Len(s) + 1}
  BY <1>1, ToSetOf
<1>3. 1 .. Len(s) + 1 = (1 .. Len(s)) \cup {Len(s) + 1}
  BY <1>1
<1>4. {Append(s, e)[i]: i \in 1 .. Len(s) + 1} = {s[i]: i \in 1 .. Len(s)} \cup {e}
  BY <1>1, <1>3
<1> QED
  BY <1>2, <1>4, ToSetOf

LEMMA ToSetConcat ==
    ASSUME NEW S, NEW s \in Seq(S), NEW t \in Seq(S)
    PROVE  s \o t \in Seq(S) /\ ToSet(s \o t) = ToSet(s) \cup ToSet(t)
<1>1. /\ s \o t \in Seq(S) /\ Len(s \o t) = Len(s) + Len(t) /\ Len(s) \in Nat /\ Len(t) \in Nat
      /\ \A i \in 1 .. Len(s) + Len(t):
            (s \o t)[i] = IF i <= Len(s) THEN s[i] ELSE t[i - Len(s)]
  BY ConcatProperties, LenProperties
<1>2. ToSet(s \o t) = {(s \o t)[i]: i \in 1 .. Len(s) + Len(t)}
  BY <1>1, ToSetOf
<1>3. \A i \in 1 .. Len(s): i \in 1 .. Len(s) + Len(t) /\ (s \o t)[i] = s[i]
  BY <1>1
<1>4. \A i \in 1 .. Len(t): Len(s) + i \in 1 .. Len(s) + Len(t) /\ (s \o t)[Len(s) + i] = t[i]
  BY <1>1
<1>5. \A i \in 1 .. Len(s) + Len(t): i \in 1 .. Len(s) \/ i - Len(s) \in 1 .. Len(t)
  BY <1>1
<1>6. \A i \in 1 .. Len(s) + Len(t):
          (s \o t)[i] \in {s[j]: j \in 1 .. Len(s)} \cup {t[j]: j \in 1 .. Len(t)}
  BY <1>1, <1>5
<1>7. ToSet(s) = {s[j]: j \in 1 .. Len(s)} /\ ToSet(t) = {t[j]: j \in 1 .. Len(t)}
  BY ToSetOf
<1>8. ToSet(s \o t) \subseteq ToSet(s) \cup ToSet(t)
  BY <1>2, <1>6, <1>7
<1>9. ToSet(s) \subseteq ToSet(s \o t)
  BY <1>2, <1>3, <1>7
<1>10. ToSet(t) \subseteq ToSet(s \o t)
  <2>1. \A i \in 1 .. Len(t): \E k \in 1 .. Len(s) + Len(t): (s \o t)[k] = t[i]
    BY <1>4
  <2> QED
    BY <1>2, <1>7, <2>1
<1> QED
  BY <1>1, <1>8, <1>9, <1>10

------------------------------------------------------------------------------
(* Selection.                                                              *)

\* The ids an allowlist filters out of a payload.
Dropped(p, payload) ==
    {Namespaced(p.name, payload[j].id): j \in {k \in Listed(payload): ~ Keeps(p, payload[k].id)}}

LEMMA FilteredAre ==
    ASSUME NEW p, NEW payload, payload \in Seq(ToSet(payload))
    PROVE  /\ Filtered(p, payload) \in Seq(Dropped(p, payload))
           /\ ToSet(Filtered(p, payload)) = Dropped(p, payload)
<1> DEFINE N == Len(payload)
           Drops(n) == payload[n].id # NoId /\ ~ Keeps(p, payload[n].id)
           Id(n) == Namespaced(p.name, payload[n].id)
           S == Seq(Dropped(p, payload))
           pushed == CHOOSE g: g = [n \in 0 .. Len(payload) |->
                         IF n = 0 THEN <<>>
                         ELSE IF payload[n].id # NoId /\ ~ Keeps(p, payload[n].id)
                         THEN Append(g[n - 1], Namespaced(p.name, payload[n].id))
                         ELSE g[n - 1]]
           Step(n) == [s \in S |-> IF Drops(n) THEN Append(s, Id(n)) ELSE s]
           step == [n \in 1 .. N |-> Step(n)]
<1>1. N \in Nat /\ DOMAIN payload = 1 .. N
  BY LenProperties
<1>2. \A n \in 1 .. N: Drops(n) => Id(n) \in Dropped(p, payload)
  BY <1>1 DEF Dropped, Listed
<1>3. <<>> \in S
  BY EmptySeq
<1>4. step \in Steps(N, S)
  <2>1. ASSUME NEW n \in 1 .. N, NEW s \in S
        PROVE  (IF Drops(n) THEN Append(s, Id(n)) ELSE s) \in S
    <3> HIDE DEF Drops, Id
    <3>1. CASE Drops(n)
      BY <1>2, <3>1, AppendProperties
    <3> QED
      BY <3>1
  <2> HIDE DEF S, Drops, Id, N
  <2>2. \A n \in 1 .. N: Step(n) \in [S -> S]
    BY <2>1
  <2> HIDE DEF Step
  <2> QED
    BY <2>2 DEF Steps
<1>5. PICK f: IsRun(f, N, S, <<>>, step)
  <2> HIDE DEF S, step, N
  <2> QED
    BY <1>1, <1>3, <1>4, RunExists
<1>6. pushed = [n \in 0 .. N |-> IF n = 0 THEN <<>>
                                ELSE IF Drops(n) THEN Append(pushed[n - 1], Id(n)) ELSE pushed[n - 1]]
  <2>1. f = [n \in 0 .. N |-> IF n = 0 THEN <<>>
                              ELSE IF Drops(n) THEN Append(f[n - 1], Id(n)) ELSE f[n - 1]]
    <3>1. \A n \in 1 .. N: f[n] = IF Drops(n) THEN Append(f[n - 1], Id(n)) ELSE f[n - 1]
      <4> SUFFICES ASSUME NEW n \in 1 .. N
                   PROVE  f[n] = IF Drops(n) THEN Append(f[n - 1], Id(n)) ELSE f[n - 1]
        OBVIOUS
      <4>1. f[n - 1] \in S
        BY <1>1, <1>5 DEF IsRun
      <4> HIDE DEF S, Drops, Id
      <4> QED
        BY <1>5, <4>1 DEF IsRun
    <3> HIDE DEF S, Drops, Id, step, N
    <3>2. \A n \in 0 .. N: f[n] = IF n = 0 THEN <<>>
                                  ELSE IF Drops(n) THEN Append(f[n - 1], Id(n)) ELSE f[n - 1]
      <4> SUFFICES ASSUME NEW n \in 0 .. N, n # 0
                   PROVE  f[n] = IF Drops(n) THEN Append(f[n - 1], Id(n)) ELSE f[n - 1]
        BY <1>5 DEF IsRun
      <4>1. n \in 1 .. N
        BY <1>1
      <4> QED
        BY <3>1, <4>1
    <3>3. f = [n \in 0 .. N |-> f[n]]
      BY <1>5 DEF IsRun
    <3> QED
      BY <3>2, <3>3
  <2> QED
    BY <2>1
<1> DEFINE Done(n) == {Id(j): j \in {k \in 1 .. n: Drops(k)}}
           T == {n \in 0 .. N: pushed[n] \in S /\ ToSet(pushed[n]) = Done(n)}
<1>7. 0 \in T
  <2>1. 0 \in 0 .. N
    BY <1>1
  <2>2. pushed[0] = <<>>
    <3> HIDE DEF pushed, Drops, Id, N
    <3> QED
      BY <1>6, <2>1
  <2>3. Done(0) = {}
    OBVIOUS
  <2> HIDE DEF pushed, Drops, Id, N, S, Done
  <2> QED
    BY <1>3, <2>1, <2>2, <2>3, ToSetEmpty
<1>8. ASSUME NEW n \in 1 .. N, n - 1 \in T
      PROVE  n \in T
  <2>1. n \in 0 .. N /\ n # 0 /\ 1 .. n = (1 .. n - 1) \cup {n}
    BY <1>1
  <2>2. pushed[n] = IF Drops(n) THEN Append(pushed[n - 1], Id(n)) ELSE pushed[n - 1]
    <3> HIDE DEF pushed, Drops, Id
    <3> QED
      BY <1>6, <2>1
  <2>3. pushed[n - 1] \in S /\ ToSet(pushed[n - 1]) = Done(n - 1)
    BY <1>8
  <2> HIDE DEF pushed, Drops, Id
  <2>4. CASE Drops(n)
    <3>1. Id(n) \in Dropped(p, payload)
      BY <1>2, <2>4
    <3>2. pushed[n] \in S /\ ToSet(pushed[n]) = Done(n - 1) \cup {Id(n)}
      BY <2>2, <2>3, <2>4, <3>1, ToSetAppend, AppendProperties
    <3>3. Done(n) = Done(n - 1) \cup {Id(n)}
      BY <2>1, <2>4
    <3> QED
      BY <2>1, <3>2, <3>3
  <2>5. CASE ~ Drops(n)
    <3>1. Done(n) = Done(n - 1)
      BY <2>1, <2>5
    <3> QED
      BY <2>1, <2>2, <2>3, <2>5, <3>1
  <2> QED
    BY <2>4, <2>5
<1>9. N \in T
  <2> HIDE DEF T
  <2>1. \A n \in 0 .. N: n \in T
    BY <1>1, <1>7, <1>8, UpTo
  <2> QED
    BY <1>1, <2>1
<1>10. Done(N) = Dropped(p, payload)
  BY <1>1 DEF Dropped, Listed
<1>11. Filtered(p, payload) = pushed[N]
  BY DEF Filtered
<1> QED
  BY <1>9, <1>10, <1>11

------------------------------------------------------------------------------
(* Objects.                                                                *)

Objects ==
    {object \in UNION {[D -> Int]: D \in SUBSET Seq(ToSet(Alphabet))}: IsObject(object)}

LEMMA ObjectsAre ==
    ASSUME NEW object
    PROVE  object \in Objects <=> IsObject(object)
<1>1. ASSUME IsObject(object)
      PROVE  object \in [DOMAIN object -> Int] /\ DOMAIN object \in SUBSET Seq(ToSet(Alphabet))
  BY <1>1 DEF IsObject
<1> QED
  BY <1>1 DEF Objects

LEMMA WithoutIs ==
    ASSUME NEW object, NEW names
    PROVE  /\ \A p: p \in DOMAIN Without(object, names) <=> p \in DOMAIN object /\ p[1] \notin names
           /\ \A p \in DOMAIN Without(object, names): Without(object, names)[p] = object[p]
  BY DEF Without, Restrict

LEMMA WithoutFcn ==
    ASSUME NEW object, NEW names
    PROVE  Without(object, names) = [p \in DOMAIN Without(object, names) |-> Without(object, names)[p]]
  BY DEF Without, Restrict

LEMMA LaidOver ==
    ASSUME NEW top, NEW below
    PROVE  /\ DOMAIN Over(top, below) = DOMAIN top \cup DOMAIN below
           /\ \A p \in DOMAIN top: Over(top, below)[p] = top[p]
           /\ \A p \in DOMAIN below: p \notin DOMAIN top => Over(top, below)[p] = below[p]
  BY DEF Over

LEMMA OverFcn ==
    ASSUME NEW top, NEW below
    PROVE  Over(top, below) = [p \in DOMAIN Over(top, below) |-> Over(top, below)[p]]
  BY DEF Over

\* The values under some of the keys are an object again.
LEMMA WithoutObject ==
    ASSUME NEW object, IsObject(object), NEW names
    PROVE  IsObject(Without(object, names))
<1> DEFINE o == Without(object, names)
<1>1. o = [p \in DOMAIN o |-> o[p]]
  BY WithoutFcn
<1>2. DOMAIN o \subseteq DOMAIN object /\ \A p \in DOMAIN o: o[p] = object[p]
  BY WithoutIs
<1> HIDE DEF o
<1>3. IsFiniteSet(DOMAIN o)
  BY <1>2, FS_Subset DEF IsObject
<1>4. \A p \in DOMAIN o: p # <<>> /\ p \in Seq(ToSet(Alphabet)) /\ o[p] \in Int
  BY <1>2 DEF IsObject
<1>5. \A p, q \in DOMAIN o: p # q => \E i \in DOMAIN p \cap DOMAIN q: p[i] # q[i]
  BY <1>2 DEF IsObject
<1>6. IsObject(o)
  BY ONLY <1>1, <1>3, <1>4, <1>5 DEF IsObject
<1> QED
  BY <1>6 DEF o

\* One object laid over what another has under other keys.
LEMMA OverObject ==
    ASSUME NEW top, IsObject(top), NEW below, IsObject(below)
    PROVE  IsObject(Over(top, Without(below, Keys(top))))
<1> DEFINE rest == Without(below, Keys(top))
           o == Over(top, rest)
<1>1. IsObject(rest)
  BY WithoutObject
<1>2. \A p \in DOMAIN rest: p[1] \notin Keys(top)
  BY WithoutIs
<1> HIDE DEF rest
<1>3. o = [p \in DOMAIN o |-> o[p]]
  BY OverFcn
<1>4. /\ DOMAIN o = DOMAIN top \cup DOMAIN rest
      /\ \A p \in DOMAIN top: o[p] = top[p]
      /\ \A p \in DOMAIN rest: p \notin DOMAIN top => o[p] = rest[p]
  BY LaidOver
<1> HIDE DEF o
<1>5. IsFiniteSet(DOMAIN o)
  <2>1. IsFiniteSet(DOMAIN top) /\ IsFiniteSet(DOMAIN rest)
    BY <1>1 DEF IsObject
  <2>2. IsFiniteSet(DOMAIN top \cup DOMAIN rest)
    BY <2>1, FS_Union
  <2> QED
    BY <1>4, <2>2
<1>6. \A p \in DOMAIN o: p # <<>> /\ p \in Seq(ToSet(Alphabet)) /\ o[p] \in Int
  BY <1>1, <1>4 DEF IsObject
<1>7. ASSUME NEW p \in DOMAIN o, NEW q \in DOMAIN o, p # q
      PROVE  \E i \in DOMAIN p \cap DOMAIN q: p[i] # q[i]
  <2>1. CASE p \in DOMAIN top /\ q \in DOMAIN top
    BY <1>7, <2>1 DEF IsObject
  <2>2. CASE p \in DOMAIN rest /\ q \in DOMAIN rest
    BY <1>1, <1>7, <2>2 DEF IsObject
  <2>3. 1 \in DOMAIN p \cap DOMAIN q
    <3>1. ASSUME NEW r \in Seq(ToSet(Alphabet)), r # <<>> PROVE 1 \in DOMAIN r
      BY <3>1, EmptySeq, LenProperties
    <3> QED
      BY <1>6, <3>1
  <2>4. CASE p \in DOMAIN top /\ q \in DOMAIN rest
    <3>1. p[1] \in Keys(top) /\ q[1] \notin Keys(top)
      BY <1>2, <2>4 DEF Keys
    <3> QED
      BY <2>3, <3>1
  <2>5. CASE p \in DOMAIN rest /\ q \in DOMAIN top
    <3>1. q[1] \in Keys(top) /\ p[1] \notin Keys(top)
      BY <1>2, <2>5 DEF Keys
    <3> QED
      BY <2>3, <3>1
  <2> QED
    BY <1>4, <2>1, <2>2, <2>4, <2>5
<1>8. IsObject(o)
  BY ONLY <1>3, <1>5, <1>6, <1>7 DEF IsObject
<1> QED
  BY <1>8 DEF o, rest

\* A number put under a key.
LEMMA InsertObject ==
    ASSUME NEW object, IsObject(object), NEW value \in Int
    PROVE  IsObject(Insert(object, "context_length", value))
<1> DEFINE one == [p \in {<<"context_length">>} |-> value]
<1>1. IsObject(one)
  <2>1. DOMAIN one = {<<"context_length">>} /\ one[<<"context_length">>] = value
    OBVIOUS
  <2>2. IsFiniteSet({<<"context_length">>})
    BY FS_Singleton
  <2>3. <<"context_length">> # <<>> /\ <<"context_length">> \in Seq(ToSet(Alphabet))
    BY ModelMetaAssumption
  <2>4. one = [p \in DOMAIN one |-> one[p]]
    OBVIOUS
  <2> HIDE DEF one
  <2> QED
    BY <2>1, <2>2, <2>3, <2>4 DEF IsObject
<1>2. Keys(one) = {"context_length"}
  BY DEF Keys
<1>3. Insert(object, "context_length", value) = Over(one, Without(object, Keys(one)))
  BY <1>2 DEF Insert
<1> HIDE DEF one
<1> QED
  BY <1>1, <1>3, OverObject

LEMMA DeclaredObject ==
    ASSUME config \in Configs, NEW key \in DOMAIN config.table
    PROVE  IsObject(Declared(config.table[key]))
<1>1. config.table[key].context_length \in Int /\ IsObject(config.table[key].extra)
  BY DiscoveryAssumption
<1> QED
  BY <1>1, InsertObject DEF Declared

------------------------------------------------------------------------------
(* The overlay.                                                            *)

\* The keys a declaration replaces.
Replaced(declared) == {k \in Keys(declared): Folded(k) \notin OwnedKeys}

LEMMA ApplyOverridesIs ==
    ASSUME NEW object, IsObject(object), NEW declared, IsObject(declared)
    PROVE  LET o == ApplyOverrides(object, declared)
           IN  /\ IsObject(o)
               /\ \A p \in DOMAIN declared: Folded(p[1]) \notin OwnedKeys
                      => p \in DOMAIN o /\ o[p] = declared[p]
               /\ \A p \in DOMAIN object: p[1] \notin Replaced(declared)
                      => p \in DOMAIN o /\ o[p] = object[p]
               /\ \A p \in DOMAIN o: p[1] \notin Replaced(declared) => p \in DOMAIN object
<1> DEFINE owned == {k \in Keys(declared): Folded(k) \in OwnedKeys}
           applied == Without(declared, owned)
           rest == Without(object, Keys(applied))
           o == Over(applied, rest)
<1>1. ApplyOverrides(object, declared) = o
  BY DEF ApplyOverrides
<1>2. /\ \A p: p \in DOMAIN applied <=> p \in DOMAIN declared /\ p[1] \notin owned
      /\ \A p \in DOMAIN applied: applied[p] = declared[p]
  <2> HIDE DEF owned
  <2> QED
    BY WithoutIs
<1>3. IsObject(applied)
  BY WithoutObject
<1>4. IsObject(o)
  <2> HIDE DEF applied
  <2> QED
    BY <1>3, OverObject
<1> HIDE DEF applied
<1>5. /\ \A p: p \in DOMAIN rest <=> p \in DOMAIN object /\ p[1] \notin Keys(applied)
      /\ \A p \in DOMAIN rest: rest[p] = object[p]
  BY WithoutIs
<1> HIDE DEF rest
<1>6. /\ DOMAIN o = DOMAIN applied \cup DOMAIN rest
      /\ \A p \in DOMAIN applied: o[p] = applied[p]
      /\ \A p \in DOMAIN rest: p \notin DOMAIN applied => o[p] = rest[p]
  BY LaidOver
<1> HIDE DEF o
<1>7. \A p \in DOMAIN declared: p[1] \in Keys(declared)
  BY DEF Keys
<1>8. Keys(applied) = Replaced(declared)
  <2>1. \A k \in Keys(applied): k \in Replaced(declared)
    BY <1>2, <1>7 DEF Keys, Replaced
  <2>2. \A k \in Replaced(declared): k \in Keys(applied)
    <3> SUFFICES ASSUME NEW k \in Replaced(declared)
                 PROVE  k \in Keys(applied)
      OBVIOUS
    <3>1. PICK p \in DOMAIN declared: k = p[1]
      BY DEF Replaced, Keys
    <3>2. p \in DOMAIN applied
      BY <1>2, <3>1 DEF Replaced
    <3> QED
      BY <3>1, <3>2 DEF Keys
  <2> QED
    BY <2>1, <2>2
<1>9. \A p \in DOMAIN applied: p[1] \in Keys(applied)
  BY DEF Keys
<1>10. \A p \in DOMAIN declared: Folded(p[1]) \notin OwnedKeys => p \in DOMAIN o /\ o[p] = declared[p]
  BY <1>2, <1>6
<1>11. \A p \in DOMAIN object: p[1] \notin Replaced(declared) => p \in DOMAIN o /\ o[p] = object[p]
  BY <1>5, <1>6, <1>8, <1>9
<1>12. \A p \in DOMAIN o: p[1] \notin Replaced(declared) => p \in DOMAIN object
  BY <1>5, <1>6, <1>8, <1>9
<1> QED
  BY <1>1, <1>4, <1>10, <1>11, <1>12

\* The table's keys that name a model, and the keys they declare.
NamingOf(id, m) == Names(id, m) \cap DOMAIN config.table

DeclaredOf(id, m) == UNION {Replaced(Declared(config.table[key])): key \in NamingOf(id, m)}

\* Under the other keys the model has what it had.
Untouched(id, m, object) ==
    /\ \A p \in DOMAIN m.properties: p[1] \notin DeclaredOf(id, m)
          => p \in DOMAIN object /\ object[p] = m.properties[p]
    /\ \A p \in DOMAIN object: p[1] \notin DeclaredOf(id, m) => p \in DOMAIN m.properties

\* Under the declared keys it has what the last of the first n keys declares.
DeclaredWins(id, m, n, object) ==
    \A i \in 1 .. n: KeyOrder[i] \in NamingOf(id, m) =>
        \A p \in DOMAIN Declared(config.table[KeyOrder[i]]):
            \/ Folded(p[1]) \in OwnedKeys
            \/ \E j \in i + 1 .. n: /\ KeyOrder[j] \in NamingOf(id, m)
                                    /\ p[1] \in Keys(Declared(config.table[KeyOrder[j]]))
            \/ p \in DOMAIN object /\ object[p] = Declared(config.table[KeyOrder[i]])[p]

LEMMA NextKey ==
    ASSUME config \in Configs, NEW n \in Nat \ {0}, NEW id, NEW m,
           KeyOrder[n] \in NamingOf(id, m),
           NEW object, IsObject(object), Untouched(id, m, object),
           DeclaredWins(id, m, n - 1, object)
    PROVE  LET o == ApplyOverrides(object, Declared(config.table[KeyOrder[n]]))
           IN  IsObject(o) /\ Untouched(id, m, o) /\ DeclaredWins(id, m, n, o)
<1> DEFINE d == Declared(config.table[KeyOrder[n]])
           o == ApplyOverrides(object, d)
<1>1. IsObject(d)
  BY DeclaredObject DEF NamingOf
<1>2. Replaced(d) \subseteq DeclaredOf(id, m)
  BY DEF DeclaredOf
<1>3. /\ IsObject(o)
      /\ \A p \in DOMAIN d: Folded(p[1]) \notin OwnedKeys => p \in DOMAIN o /\ o[p] = d[p]
      /\ \A p \in DOMAIN object: p[1] \notin Replaced(d) => p \in DOMAIN o /\ o[p] = object[p]
      /\ \A p \in DOMAIN o: p[1] \notin Replaced(d) => p \in DOMAIN object
  <2> HIDE DEF d
  <2> QED
    BY <1>1, ApplyOverridesIs
<1> HIDE DEF o
<1>4. Untouched(id, m, o)
  <2> HIDE DEF d
  <2> QED
    BY <1>2, <1>3 DEF Untouched
<1>5. DeclaredWins(id, m, n, o)
  <2> SUFFICES ASSUME NEW i \in 1 .. n, KeyOrder[i] \in NamingOf(id, m),
                      NEW p \in DOMAIN Declared(config.table[KeyOrder[i]]),
                      Folded(p[1]) \notin OwnedKeys,
                      \A j \in i + 1 .. n: KeyOrder[j] \in NamingOf(id, m)
                          => p[1] \notin Keys(Declared(config.table[KeyOrder[j]]))
               PROVE  p \in DOMAIN o /\ o[p] = Declared(config.table[KeyOrder[i]])[p]
    BY DEF DeclaredWins
  <2>1. CASE i = n
    BY <1>3, <2>1
  <2>2. CASE i # n
    <3>1. i \in 1 .. n - 1 /\ n \in i + 1 .. n /\ \A j \in i + 1 .. n - 1: j \in i + 1 .. n
      BY <2>2
    <3>2. p[1] \notin Keys(d)
      BY <3>1
    <3>3. p \in DOMAIN object /\ object[p] = Declared(config.table[KeyOrder[i]])[p]
      <4> HIDE DEF d
      <4> QED
        BY <3>1 DEF DeclaredWins
    <3>4. p[1] \notin Replaced(d)
      BY <3>2 DEF Replaced
    <3> HIDE DEF d
    <3> QED
      BY <1>3, <3>3, <3>4
  <2> QED
    BY <2>1, <2>2
<1> QED
  BY <1>3, <1>4, <1>5 DEF o

LEMMA OtherKey ==
    ASSUME NEW n \in Nat \ {0}, NEW id, NEW m, KeyOrder[n] \notin NamingOf(id, m),
           NEW object, DeclaredWins(id, m, n - 1, object)
    PROVE  DeclaredWins(id, m, n, object)
<1> SUFFICES ASSUME NEW i \in 1 .. n, KeyOrder[i] \in NamingOf(id, m),
                    NEW p \in DOMAIN Declared(config.table[KeyOrder[i]]),
                    Folded(p[1]) \notin OwnedKeys,
                    \A j \in i + 1 .. n: KeyOrder[j] \in NamingOf(id, m)
                        => p[1] \notin Keys(Declared(config.table[KeyOrder[j]]))
             PROVE  p \in DOMAIN object /\ object[p] = Declared(config.table[KeyOrder[i]])[p]
  BY DEF DeclaredWins
<1>1. i # n
  OBVIOUS
<1>2. i \in 1 .. n - 1 /\ \A j \in i + 1 .. n - 1: j \in i + 1 .. n
  BY <1>1
<1> QED
  BY <1>2 DEF DeclaredWins

\* Models that differ from ms in their properties only.
Variants(ms) ==
    {t \in [DOMAIN ms -> [provider: {ms[id].provider: id \in DOMAIN ms},
                         upstream: {ms[id].upstream: id \in DOMAIN ms},
                         properties: Objects]]:
        \A id \in DOMAIN ms: t[id].provider = ms[id].provider /\ t[id].upstream = ms[id].upstream}

LEMMA VariantsAre ==
    ASSUME NEW ms, NEW t \in Variants(ms)
    PROVE  /\ DOMAIN t = DOMAIN ms /\ t = [id \in DOMAIN ms |-> t[id]]
           /\ \A id \in DOMAIN ms:
                  /\ t[id].provider = ms[id].provider /\ t[id].upstream = ms[id].upstream
                  /\ IsObject(t[id].properties)
  BY ObjectsAre DEF Variants

\* One key applied.
LEMMA ApplyVariant ==
    ASSUME config \in Configs, NEW ms, NEW t \in Variants(ms), NEW key \in DOMAIN config.table
    PROVE  /\ Apply(t, key) \in Variants(ms)
           /\ \A id \in DOMAIN ms:
                  Apply(t, key)[id].properties =
                      IF key \in Names(id, ms[id])
                      THEN ApplyOverrides(t[id].properties, Declared(config.table[key]))
                      ELSE t[id].properties
<1> DEFINE d == Declared(config.table[key])
           a == Apply(t, key)
           R == [provider: {ms[id].provider: id \in DOMAIN ms},
                 upstream: {ms[id].upstream: id \in DOMAIN ms}, properties: Objects]
<1>1. IsObject(d)
  BY DeclaredObject
<1> HIDE DEF d
<1>2. t \in [DOMAIN ms -> R]
  BY DEF Variants
<1>3. \A id \in DOMAIN ms: t[id].provider = ms[id].provider /\ t[id].upstream = ms[id].upstream
  BY DEF Variants
<1>4. \A id \in DOMAIN ms: Names(id, t[id]) = Names(id, ms[id])
  BY <1>3 DEF Names
<1>5. a = [id \in DOMAIN ms |->
              IF key \in Names(id, ms[id])
              THEN [t[id] EXCEPT !.properties = ApplyOverrides(@, d)] ELSE t[id]]
  <2>1. DOMAIN t = DOMAIN ms
    BY <1>2
  <2>2. a = [id \in DOMAIN t |->
                IF key \in Names(id, t[id])
                THEN [t[id] EXCEPT !.properties = ApplyOverrides(@, d)] ELSE t[id]]
    BY DEF Apply, d
  <2> HIDE DEF a
  <2> QED
    BY <1>4, <2>1, <2>2
<1> HIDE DEF a
<1>6. ASSUME NEW id \in DOMAIN ms
      PROVE  /\ a[id] \in R
             /\ a[id].provider = ms[id].provider /\ a[id].upstream = ms[id].upstream
             /\ a[id].properties = IF key \in Names(id, ms[id])
                                  THEN ApplyOverrides(t[id].properties, d) ELSE t[id].properties
  <2>1. t[id] \in R
    BY <1>2
  <2>2. ApplyOverrides(t[id].properties, d) \in Objects
    BY <1>1, <2>1, ObjectsAre, ApplyOverridesIs
  <2>3. CASE key \in Names(id, ms[id])
    <3>1. a[id] = [t[id] EXCEPT !.properties = ApplyOverrides(t[id].properties, d)]
      BY <1>5, <2>3
    <3> QED
      BY <1>3, <2>1, <2>2, <2>3, <3>1
  <2>4. CASE key \notin Names(id, ms[id])
    <3>1. a[id] = t[id]
      BY <1>5, <2>4
    <3> QED
      BY <1>3, <2>1, <2>4, <3>1
  <2> QED
    BY <2>3, <2>4
<1>7. a \in [DOMAIN ms -> R]
  <2> HIDE DEF R
  <2> QED
    BY <1>5, <1>6
<1>8. a \in Variants(ms)
  BY <1>6, <1>7 DEF Variants
<1> QED
  BY <1>6, <1>8 DEF a, d

LEMMA OverlayIs ==
    ASSUME config \in Configs, NEW ms, ms \in Variants(ms)
    PROVE  /\ Overlay(ms) \in Variants(ms)
           /\ \A id \in DOMAIN ms:
                  /\ Untouched(id, ms[id], Overlay(ms)[id].properties)
                  /\ DeclaredWins(id, ms[id], Len(KeyOrder), Overlay(ms)[id].properties)
<1> DEFINE N == Len(KeyOrder)
           S == Variants(ms)
           Listing(n) == KeyOrder[n] \in DOMAIN config.table
           Next1(n, t) == IF Listing(n) THEN Apply(t, KeyOrder[n]) ELSE t
           after == CHOOSE g: g = [n \in 0 .. Len(KeyOrder) |->
                        IF n = 0 THEN ms
                        ELSE IF KeyOrder[n] \in DOMAIN config.table THEN Apply(g[n - 1], KeyOrder[n])
                        ELSE g[n - 1]]
           Step(n) == [t \in S |-> Next1(n, t)]
           step == [n \in 1 .. N |-> Step(n)]
<1>1. N \in Nat
  BY DiscoveryAssumption, LenProperties
<1>2. ASSUME NEW n \in 1 .. N, NEW t \in S
      PROVE  Next1(n, t) \in S
  BY ApplyVariant
<1>3. step \in Steps(N, S)
  <2> HIDE DEF S, Next1, N
  <2>1. \A n \in 1 .. N: Step(n) \in [S -> S]
    BY <1>2
  <2> HIDE DEF Step
  <2> QED
    BY <2>1 DEF Steps
<1>4. PICK f: IsRun(f, N, S, ms, step)
  <2> HIDE DEF S, step, N
  <2>1. ms \in S
    BY DEF S
  <2> QED
    BY <1>1, <1>3, <2>1, RunExists
<1>5. after = [n \in 0 .. N |-> IF n = 0 THEN ms ELSE Next1(n, after[n - 1])]
  <2>1. f = [n \in 0 .. N |-> IF n = 0 THEN ms ELSE Next1(n, f[n - 1])]
    <3>1. \A n \in 1 .. N: f[n] = Next1(n, f[n - 1])
      <4> SUFFICES ASSUME NEW n \in 1 .. N
                   PROVE  f[n] = Next1(n, f[n - 1])
        OBVIOUS
      <4>1. f[n - 1] \in S
        BY <1>1, <1>4 DEF IsRun
      <4> HIDE DEF S, Next1
      <4> QED
        BY <1>4, <4>1 DEF IsRun
    <3> HIDE DEF S, Next1, step, N
    <3>2. \A n \in 0 .. N: f[n] = IF n = 0 THEN ms ELSE Next1(n, f[n - 1])
      <4> SUFFICES ASSUME NEW n \in 0 .. N, n # 0
                   PROVE  f[n] = Next1(n, f[n - 1])
        BY <1>4 DEF IsRun
      <4>1. n \in 1 .. N
        BY <1>1
      <4> QED
        BY <3>1, <4>1
    <3>3. f = [n \in 0 .. N |-> f[n]]
      BY <1>4 DEF IsRun
    <3> QED
      BY <3>2, <3>3
  <2> QED
    BY <2>1
<1>6. Overlay(ms) = after[N]
  BY DEF Overlay
<1> DEFINE Good(n, t) ==
               /\ t \in S
               /\ \A id \in DOMAIN ms: /\ Untouched(id, ms[id], t[id].properties)
                                      /\ DeclaredWins(id, ms[id], n, t[id].properties)
           T == {n \in 0 .. N: Good(n, after[n])}
<1>7. 0 \in T
  <2>1. 0 \in 0 .. N
    BY <1>1
  <2>2. after[0] = ms
    <3> HIDE DEF after, Next1, N
    <3> QED
      BY <1>5, <2>1
  <2>3. Good(0, ms)
    BY DEF Untouched, DeclaredWins
  <2> HIDE DEF after, Good, N
  <2> QED
    BY <2>1, <2>2, <2>3
<1>8. ASSUME NEW n \in 1 .. N, NEW t, Good(n - 1, t)
      PROVE  Good(n, Next1(n, t))
  <2>1. n \in Nat \ {0}
    BY <1>1
  <2>2. Next1(n, t) \in S
    BY <1>2, <1>8
  <2>3. ASSUME NEW id \in DOMAIN ms
        PROVE  /\ Untouched(id, ms[id], Next1(n, t)[id].properties)
               /\ DeclaredWins(id, ms[id], n, Next1(n, t)[id].properties)
    <3>1. /\ IsObject(t[id].properties) /\ Untouched(id, ms[id], t[id].properties)
          /\ DeclaredWins(id, ms[id], n - 1, t[id].properties)
      BY <1>8, VariantsAre
    <3>2. CASE KeyOrder[n] \in NamingOf(id, ms[id])
      <4>1. Next1(n, t)[id].properties
              = ApplyOverrides(t[id].properties, Declared(config.table[KeyOrder[n]]))
        BY <1>8, <3>2, ApplyVariant DEF NamingOf
      <4> HIDE DEF Next1
      <4> QED
        BY <2>1, <3>1, <3>2, <4>1, NextKey
    <3>3. CASE KeyOrder[n] \notin NamingOf(id, ms[id])
      <4>1. Next1(n, t)[id].properties = t[id].properties
        BY <1>8, <3>3, ApplyVariant DEF NamingOf
      <4> HIDE DEF Next1
      <4> QED
        BY <2>1, <3>1, <3>3, <4>1, OtherKey
    <3> QED
      BY <3>2, <3>3
  <2> HIDE DEF Next1
  <2> QED
    BY <2>2, <2>3
<1>9. \A n \in 1 .. N: n - 1 \in T => n \in T
  <2> SUFFICES ASSUME NEW n \in 1 .. N, n - 1 \in T
               PROVE  n \in T
    OBVIOUS
  <2>1. n \in 0 .. N /\ n # 0
    BY <1>1
  <2>2. after[n] = Next1(n, after[n - 1])
    <3> HIDE DEF after, Next1, N
    <3> QED
      BY <1>5, <2>1
  <2>3. Good(n - 1, after[n - 1])
    OBVIOUS
  <2> HIDE DEF after, Next1, Good, N
  <2> QED
    BY <1>8, <2>1, <2>2, <2>3
<1>10. N \in T
  <2> HIDE DEF T
  <2>1. \A n \in 0 .. N: n \in T
    BY <1>1, <1>7, <1>9, UpTo
  <2> QED
    BY <1>1, <2>1
<1> QED
  BY <1>6, <1>10

------------------------------------------------------------------------------
(* The invariant.                                                          *)

Kept(p, payload) ==
    {Namespaced(p.name, payload[j].id): j \in {k \in Listed(payload): Keeps(p, payload[k].id)}}

KeptIds == UNION {Kept(config.providers[i], answers[i]): i \in Answered}

DroppedIds == UNION {Dropped(config.providers[i], answers[i]): i \in Answered}

IsModel(m) ==
    /\ m = [provider |-> m.provider, upstream |-> m.upstream, properties |-> m.properties]
    /\ IsObject(m.properties)

\* The model is entry j of provider i, with the configured properties over it
\* once these have been applied.
ComesFrom(id, m, i, j) ==
    LET p == config.providers[i]
        a == Advertised(p, answers[i][j])
    IN  /\ Namespaced(p.name, a.upstream) = id
        /\ m.provider = a.provider /\ m.upstream = a.upstream
        /\ Untouched(id, a, m.properties)
        /\ ~ serving => m = a

AnswersInv ==
    /\ config \in Configs /\ serving \in BOOLEAN
    /\ answers \in Seq(UNION {Payloads(p): p \in ToSet(config.providers)})
    /\ Len(answers) <= Len(config.providers)
    /\ \A i \in 1 .. Len(answers): answers[i] \in Payloads(config.providers[i])

ModelsInv ==
    /\ models = [id \in DOMAIN models |-> models[id]]
    /\ DOMAIN models = KeptIds
    /\ \A id \in DOMAIN models:
           /\ IsModel(models[id])
           /\ \E i \in Answered: \E j \in Listed(answers[i]): ComesFrom(id, models[id], i, j)
           /\ serving => DeclaredWins(id, models[id], Len(KeyOrder), models[id].properties)

InactiveInv == inactive \in Seq(DroppedIds) /\ ToSet(inactive) = DroppedIds

ClientsInv ==
    /\ listed # <<>> =>
          serving /\ listed = [id \in DOMAIN models |-> Entry(models[id].properties)]
    /\ routed # NoRoute =>
          /\ serving /\ routed.model \in DOMAIN models
          /\ routed.upstream = models[routed.model].upstream
          /\ routed.to = ProviderNamed(config.providers, models[routed.model].provider)

DInv == AnswersInv /\ ModelsInv /\ InactiveInv /\ ClientsInv

LEMMA AnsweredPayload ==
    ASSUME AnswersInv, NEW i \in 1 .. Len(config.providers),
           NEW payload \in Payloads(config.providers[i]), payload # Failed
    PROVE  /\ payload \in Seq(ToSet(payload)) /\ DOMAIN payload = 1 .. Len(payload) /\ Len(payload) \in Nat
           /\ \A j \in DOMAIN payload: IsObject(payload[j].props)
<1>1. config.providers[i] \in ToSet(config.providers)
  BY DiscoveryAssumption, LenProperties DEF AnswersInv, ToSet
<1>2. /\ payload \in Seq(ToSet(payload))
      /\ \A j \in DOMAIN payload: IsObject(payload[j].props)
  BY <1>1, DiscoveryAssumption DEF AnswersInv
<1> QED
  BY <1>2, LenProperties

LEMMA VariantOfItself ==
    ASSUME NEW ms, ms = [id \in DOMAIN ms |-> ms[id]], \A id \in DOMAIN ms: IsModel(ms[id])
    PROVE  ms \in Variants(ms)
<1> DEFINE R == [provider: {ms[id].provider: id \in DOMAIN ms},
                 upstream: {ms[id].upstream: id \in DOMAIN ms}, properties: Objects]
<1>1. \A id \in DOMAIN ms: ms[id] \in R
  BY ObjectsAre DEF IsModel
<1>2. ms \in [DOMAIN ms -> R]
  <2> HIDE DEF R
  <2> QED
    BY <1>1
<1> QED
  BY <1>2 DEF Variants

\* What a provider's answer puts into the map.
LEMMA SelectIs ==
    ASSUME NEW p, NEW payload, payload \in Seq(ToSet(payload)),
           \A j \in DOMAIN payload: IsObject(payload[j].props)
    PROVE  /\ DOMAIN Select(p, payload) = Kept(p, payload)
           /\ \A id \in Kept(p, payload):
                  /\ IsModel(Select(p, payload)[id])
                  /\ \E j \in Listed(payload):
                         /\ Namespaced(p.name, payload[j].id) = id
                         /\ Select(p, payload)[id] = Advertised(p, payload[j])
<1>1. DOMAIN payload \subseteq Nat
  BY LenProperties
<1>2. ASSUME NEW id \in Kept(p, payload)
      PROVE  Min(Offers(p, payload, id)) \in Offers(p, payload, id)
  <2>1. Offers(p, payload, id) \subseteq Nat
    BY <1>1 DEF Offers, Listed
  <2>2. Offers(p, payload, id) # {}
    BY DEF Offers, Kept
  <2> QED
    BY <2>1, <2>2, LeastNumber
<1>3. /\ DOMAIN Select(p, payload) = Kept(p, payload)
      /\ \A id \in Kept(p, payload):
            Select(p, payload)[id] = Advertised(p, payload[Min(Offers(p, payload, id))])
  BY DEF Select, Kept
<1>4. ASSUME NEW id \in Kept(p, payload)
      PROVE  /\ IsModel(Select(p, payload)[id])
             /\ \E j \in Listed(payload):
                    /\ Namespaced(p.name, payload[j].id) = id
                    /\ Select(p, payload)[id] = Advertised(p, payload[j])
  <2>1. PICK j \in Offers(p, payload, id): Select(p, payload)[id] = Advertised(p, payload[j])
    BY <1>2, <1>3
  <2>2. j \in Listed(payload) /\ Namespaced(p.name, payload[j].id) = id
    BY DEF Offers
  <2>3. IsObject(FromEntry(payload[j].props))
    BY <2>2, WithoutObject DEF Listed, FromEntry
  <2>4. IsModel(Advertised(p, payload[j]))
    BY <2>3 DEF Advertised, IsModel
  <2> QED
    BY <2>1, <2>2, <2>4
<1> QED
  BY <1>3, <1>4

LEMMA DiscoveryInit == Init => DInv
<1> SUFFICES ASSUME Init PROVE DInv
  OBVIOUS
<1> USE DEF Init
<1>1. Len(config.providers) \in Nat
  BY DiscoveryAssumption, LenProperties
<1>2. answers \in Seq(UNION {Payloads(p): p \in ToSet(config.providers)}) /\ Len(answers) = 0
  BY EmptySeq
<1>3. AnswersInv
  <2>1. Len(answers) <= Len(config.providers) /\ 1 .. Len(answers) = {}
    BY <1>1, <1>2
  <2> QED
    BY <1>2, <2>1 DEF AnswersInv
<1>4. Answered = {}
  BY DEF Answered
<1>5. KeptIds = {} /\ DroppedIds = {}
  BY <1>4 DEF KeptIds, DroppedIds
<1>6. ModelsInv
  BY <1>5 DEF ModelsInv
<1>7. InactiveInv
  BY <1>5, EmptySeq, ToSetEmpty DEF InactiveInv
<1>8. ClientsInv
  BY DEF ClientsInv
<1> QED
  BY <1>3, <1>6, <1>7, <1>8 DEF DInv

\* A model that stays keeps its source.
LEMMA SourceKept ==
    ASSUME NEW id, NEW i, NEW j, ComesFrom(id, models[id], i, j),
           config' = config, serving' = serving, answers'[i] = answers[i],
           models'[id] = models[id]
    PROVE  ComesFrom(id, models[id], i, j)'
  BY DEF ComesFrom, Untouched, DeclaredOf, NamingOf

LEMMA DiscoverStep ==
    ASSUME DInv, Len(answers) < Len(config.providers),
           NEW payload \in Payloads(config.providers[Len(answers) + 1]), Discover(payload)
    PROVE  DInv'
<1> SUFFICES ASSUME NEW N, N = Len(answers), NEW q, q = config.providers[N + 1]
             PROVE  DInv'
  OBVIOUS
<1> DEFINE A == UNION {Payloads(p): p \in ToSet(config.providers)}
<1>1. /\ N \in Nat /\ Len(config.providers) \in Nat
      /\ DOMAIN answers = 1 .. N /\ DOMAIN config.providers = 1 .. Len(config.providers)
  BY DiscoveryAssumption, LenProperties DEF DInv, AnswersInv
<1>2. /\ ~ serving /\ answers' = Append(answers, payload)
      /\ UNCHANGED <<config, serving, listed, routed>>
  BY DEF Discover
<1>3. N + 1 \in 1 .. Len(config.providers) /\ q \in ToSet(config.providers) /\ payload \in A
  BY <1>1 DEF ToSet
<1>4. /\ answers' \in Seq(A) /\ Len(answers') = N + 1 /\ DOMAIN answers' = 1 .. N + 1
      /\ \A k \in 1 .. N: answers'[k] = answers[k]
      /\ answers'[N + 1] = payload
  <2>1. answers \in Seq(A)
    BY DEF DInv, AnswersInv
  <2> HIDE DEF A
  <2> QED
    BY <1>1, <1>2, <1>3, <2>1, AppendProperties, LenProperties
<1>5. AnswersInv'
  <2>1. ASSUME NEW i \in 1 .. N + 1
        PROVE  answers'[i] \in Payloads(config.providers[i])
    <3>1. CASE i = N + 1
      BY <1>4, <3>1
    <3>2. CASE i # N + 1
      <4>1. i \in 1 .. N
        BY <1>1, <3>2
      <4> QED
        BY <1>4, <4>1 DEF DInv, AnswersInv
    <3> QED
      BY <3>1, <3>2
  <2> QED
    BY <1>1, <1>2, <1>3, <1>4, <2>1 DEF DInv, AnswersInv
<1>6. Answered \subseteq 1 .. N /\ \A i \in Answered: answers'[i] = answers[i]
  BY <1>1, <1>4 DEF Answered
<1>7. CASE payload = Failed
  <2>1. UNCHANGED <<models, inactive>>
    BY <1>7 DEF Discover
  <2>2. Answered' = Answered
    BY <1>1, <1>4, <1>7 DEF Answered
  <2>3. KeptIds' = KeptIds /\ DroppedIds' = DroppedIds
    BY <1>2, <1>6, <2>2 DEF KeptIds, DroppedIds
  <2>4. ModelsInv'
    <3>1. ASSUME NEW id \in DOMAIN models
          PROVE  \E i \in Answered': \E j \in Listed(answers'[i]): ComesFrom(id, models[id], i, j)'
      <4>1. PICK i \in Answered: \E j \in Listed(answers[i]): ComesFrom(id, models[id], i, j)
        BY DEF DInv, ModelsInv
      <4>2. PICK j \in Listed(answers[i]): ComesFrom(id, models[id], i, j)
        BY <4>1
      <4>3. ComesFrom(id, models[id], i, j)'
        BY <1>2, <1>6, <2>1, <4>2, SourceKept
      <4> QED
        BY <1>6, <2>2, <4>3
    <3> QED
      BY <1>2, <2>1, <2>3, <3>1 DEF DInv, ModelsInv
  <2>5. InactiveInv'
    BY <2>1, <2>3 DEF DInv, InactiveInv
  <2>6. ClientsInv'
    BY <1>2, <2>1 DEF DInv, ClientsInv
  <2> QED
    BY <1>5, <2>4, <2>5, <2>6 DEF DInv
<1>8. CASE payload # Failed
  <2>1. models' = Over(Select(q, payload), models) /\ inactive' = inactive \o Filtered(q, payload)
    BY <1>8 DEF Discover
  <2>2. /\ payload \in Seq(ToSet(payload))
        /\ \A j \in DOMAIN payload: IsObject(payload[j].props)
    BY <1>3, <1>8, AnsweredPayload DEF DInv
  <2>3. Answered' = Answered \cup {N + 1}
    <3>1. 1 .. N + 1 = (1 .. N) \cup {N + 1}
      BY <1>1
    <3> QED
      BY <1>1, <1>4, <1>8, <3>1 DEF Answered
  <2>4. /\ KeptIds' = KeptIds \cup Kept(q, payload)
        /\ DroppedIds' = DroppedIds \cup Dropped(q, payload)
    BY <1>2, <1>4, <1>6, <2>3 DEF KeptIds, DroppedIds
  <2>5. /\ DOMAIN models' = DOMAIN Select(q, payload) \cup DOMAIN models
        /\ \A id \in DOMAIN Select(q, payload): models'[id] = Select(q, payload)[id]
        /\ \A id \in DOMAIN models: id \notin DOMAIN Select(q, payload) => models'[id] = models[id]
    BY <2>1 DEF Over
  <2>6. models' = [id \in DOMAIN models' |-> models'[id]]
    BY <2>1, OverFcn
  <2>7. DOMAIN models' = KeptIds'
    BY <2>2, <2>4, <2>5, SelectIs DEF DInv, ModelsInv
  <2>8. ASSUME NEW id \in DOMAIN models'
        PROVE  /\ IsModel(models'[id])
               /\ \E i \in Answered': \E j \in Listed(answers'[i]): ComesFrom(id, models[id], i, j)'
    <3>1. CASE id \in Kept(q, payload)
      <4>1. PICK j \in Listed(payload): /\ Namespaced(q.name, payload[j].id) = id
                                       /\ models'[id] = Advertised(q, payload[j])
        BY <2>2, <2>5, <3>1, SelectIs
      <4>2. IsModel(models'[id])
        BY <2>2, <2>5, <3>1, SelectIs
      <4>3. ComesFrom(id, models[id], N + 1, j)'
        <5>1. Advertised(q, answers'[N + 1][j]) = models'[id] /\ Advertised(q, payload[j]).upstream = payload[j].id
          BY <1>4, <4>1 DEF Advertised
        <5>2. Untouched(id, models[id], models[id].properties)'
          BY DEF Untouched
        <5>3. config'.providers[N + 1] = q
          BY <1>2
        <5> QED
          BY <1>4, <4>1, <5>1, <5>2, <5>3 DEF ComesFrom, Untouched, DeclaredOf, NamingOf
      <4>4. N + 1 \in Answered' /\ answers'[N + 1] = payload
        BY <1>4, <2>3
      <4> QED
        BY <4>2, <4>3, <4>4
    <3>2. CASE id \notin Kept(q, payload)
      <4>1. id \in DOMAIN models /\ models'[id] = models[id]
        BY <2>2, <2>5, <3>2, SelectIs
      <4>2. PICK i \in Answered: \E j \in Listed(answers[i]): ComesFrom(id, models[id], i, j)
        BY <4>1 DEF DInv, ModelsInv
      <4>3. PICK j \in Listed(answers[i]): ComesFrom(id, models[id], i, j)
        BY <4>2
      <4>4. ComesFrom(id, models[id], i, j)'
        BY <1>2, <1>6, <4>1, <4>3, SourceKept
      <4> QED
        BY <1>6, <2>3, <4>1, <4>4 DEF DInv, ModelsInv
    <3> QED
      BY <3>1, <3>2
  <2>9. ModelsInv'
    BY <1>2, <2>6, <2>7, <2>8 DEF ModelsInv
  <2>10. InactiveInv'
    <3> DEFINE D == DroppedIds \cup Dropped(q, payload)
    <3>1. Filtered(q, payload) \in Seq(D) /\ ToSet(Filtered(q, payload)) = Dropped(q, payload)
      BY <2>2, FilteredAre, SeqMonotonic
    <3>2. inactive \in Seq(D) /\ ToSet(inactive) = DroppedIds
      BY SeqMonotonic DEF DInv, InactiveInv
    <3>3. inactive' \in Seq(D) /\ ToSet(inactive') = DroppedIds \cup Dropped(q, payload)
      <4> HIDE DEF D
      <4> QED
        BY <2>1, <3>1, <3>2, ToSetConcat
    <3> QED
      BY <2>4, <3>3 DEF InactiveInv
  <2>11. ClientsInv'
    BY <1>2 DEF DInv, ClientsInv
  <2> QED
    BY <1>5, <2>9, <2>10, <2>11 DEF DInv
<1> QED
  BY <1>7, <1>8

LEMMA ServeStep ==
    ASSUME DInv, Serve
    PROVE  DInv'
<1>1. /\ ~ serving /\ models' = Overlay(models) /\ serving'
      /\ UNCHANGED <<config, answers, inactive, listed, routed>>
  BY DEF Serve
<1>2. models \in Variants(models)
  BY VariantOfItself DEF DInv, ModelsInv
<1>3. /\ models' \in Variants(models)
      /\ \A id \in DOMAIN models:
             /\ Untouched(id, models[id], models'[id].properties)
             /\ DeclaredWins(id, models[id], Len(KeyOrder), models'[id].properties)
  BY <1>1, <1>2, OverlayIs DEF DInv, AnswersInv
<1>4. /\ DOMAIN models' = DOMAIN models /\ models' = [id \in DOMAIN models |-> models'[id]]
      /\ \A id \in DOMAIN models:
             /\ models'[id].provider = models[id].provider
             /\ models'[id].upstream = models[id].upstream
             /\ IsObject(models'[id].properties)
  BY <1>3, VariantsAre
<1>5. \A id \in DOMAIN models: IsModel(models'[id])
  BY <1>3, <1>4 DEF IsModel, Variants
<1>6. KeptIds' = KeptIds /\ DroppedIds' = DroppedIds /\ Answered' = Answered
  BY <1>1 DEF KeptIds, DroppedIds, Answered
<1>7. ASSUME NEW id \in DOMAIN models
      PROVE  /\ \E i \in Answered: \E j \in Listed(answers[i]): ComesFrom(id, models[id], i, j)'
             /\ DeclaredWins(id, models[id], Len(KeyOrder), models[id].properties)'
  <2>1. PICK i \in Answered: \E j \in Listed(answers[i]): ComesFrom(id, models[id], i, j)
    BY DEF DInv, ModelsInv
  <2>2. PICK j \in Listed(answers[i]): ComesFrom(id, models[id], i, j)
    BY <2>1
  <2>3. models[id] = Advertised(config.providers[i], answers[i][j])
    BY <1>1, <2>2 DEF ComesFrom
  <2>4. NamingOf(id, models'[id]) = NamingOf(id, models[id])
    BY <1>4 DEF NamingOf, Names
  <2>5. ComesFrom(id, models[id], i, j)'
    BY <1>1, <1>3, <1>4, <2>2, <2>3 DEF ComesFrom, Untouched, DeclaredOf, NamingOf
  <2>6. DeclaredWins(id, models[id], Len(KeyOrder), models[id].properties)'
    <3>1. DeclaredWins(id, models[id], Len(KeyOrder), models'[id].properties)
      BY <1>3
    <3>2. NamingOf(id, models[id])' = NamingOf(id, models[id])
      BY <1>1, <2>4 DEF NamingOf
    <3> QED
      BY <1>1, <3>1, <3>2 DEF DeclaredWins
  <2> QED
    BY <2>5, <2>6
<1>8. ModelsInv'
  BY <1>1, <1>4, <1>5, <1>6, <1>7 DEF DInv, ModelsInv
<1>9. AnswersInv' /\ InactiveInv' /\ ClientsInv'
  BY <1>1, <1>6 DEF DInv, AnswersInv, InactiveInv, ClientsInv
<1> QED
  BY <1>8, <1>9 DEF DInv

\* What neither discovery nor the overlay touches stays.
LEMMA ModelsStay ==
    ASSUME DInv, UNCHANGED <<config, answers, models, inactive, serving>>
    PROVE  AnswersInv' /\ ModelsInv' /\ InactiveInv'
<1>1. KeptIds' = KeptIds /\ DroppedIds' = DroppedIds /\ Answered' = Answered
  BY DEF KeptIds, DroppedIds, Answered
<1>2. AnswersInv' /\ InactiveInv'
  BY <1>1 DEF DInv, AnswersInv, InactiveInv
<1>3. ASSUME NEW id \in DOMAIN models
      PROVE  /\ \E i \in Answered: \E j \in Listed(answers[i]): ComesFrom(id, models[id], i, j)'
             /\ serving => DeclaredWins(id, models[id], Len(KeyOrder), models[id].properties)'
  <2>1. PICK i \in Answered: \E j \in Listed(answers[i]): ComesFrom(id, models[id], i, j)
    BY DEF DInv, ModelsInv
  <2>2. PICK j \in Listed(answers[i]): ComesFrom(id, models[id], i, j)
    BY <2>1
  <2>3. ComesFrom(id, models[id], i, j)'
    BY <2>2, SourceKept
  <2>4. serving => DeclaredWins(id, models[id], Len(KeyOrder), models[id].properties)'
    BY DEF DInv, ModelsInv, DeclaredWins, NamingOf
  <2> QED
    BY <2>3, <2>4
<1>4. ModelsInv'
  BY <1>1, <1>3 DEF DInv, ModelsInv
<1> QED
  BY <1>2, <1>4

\* Discovery is over when requests are served, and nothing changes the map.
LEMMA DiscoveryInvariant == Spec => []DInv
<1>1. DInv /\ [Next]_vars => DInv'
  <2> SUFFICES ASSUME DInv, [Next]_vars
               PROVE  DInv'
    OBVIOUS
  <2>1. CASE Len(answers) < Len(config.providers)
             /\ \E payload \in Payloads(config.providers[Len(answers) + 1]): Discover(payload)
    BY <2>1, DiscoverStep
  <2>2. CASE Serve
    BY <2>2, ServeStep
  <2>3. CASE List
    <3>1. /\ serving /\ listed' = [id \in DOMAIN models |-> Entry(models[id].properties)]
          /\ UNCHANGED <<config, answers, models, inactive, serving, routed>>
      BY <2>3 DEF List
    <3>2. ClientsInv'
      BY <3>1 DEF DInv, ClientsInv
    <3> QED
      BY <3>1, <3>2, ModelsStay DEF DInv
  <2>4. ASSUME NEW id \in Requested, Route(id)
        PROVE  DInv'
    <3>1. /\ serving /\ UNCHANGED <<config, answers, models, inactive, serving, listed>>
          /\ routed' = IF id \in DOMAIN models
                       THEN [model |-> id, upstream |-> models[id].upstream,
                             to |-> ProviderNamed(config.providers, models[id].provider)]
                       ELSE NoRoute
      BY <2>4 DEF Route, Forwarded
    <3>2. ClientsInv'
      BY <3>1 DEF DInv, ClientsInv
    <3> QED
      BY <3>1, <3>2, ModelsStay DEF DInv
  <2>5. CASE UNCHANGED vars
    <3>1. ClientsInv'
      BY <2>5 DEF vars, DInv, ClientsInv
    <3> QED
      BY <2>5, <3>1, ModelsStay DEF vars, DInv
  <2> QED
    BY <2>1, <2>2, <2>3, <2>4, <2>5 DEF Next
<1> QED
  BY <1>1, DiscoveryInit, PTL DEF Spec

------------------------------------------------------------------------------
(* What is advertised.                                                     *)

\* AdvertisedAreTheKept for any configurations and payloads: the ids in the map
\* are those that were offered and kept, and the others were counted.
THEOREM AdvertisedKept == Spec => []AdvertisedAreTheKept
<1>1. DInv => AdvertisedAreTheKept
  <2> SUFFICES ASSUME DInv
               PROVE  AdvertisedAreTheKept
    OBVIOUS
  <2>1. DOMAIN models = KeptIds /\ ToSet(inactive) = DroppedIds
    BY DEF DInv, ModelsInv, InactiveInv
  <2>2. KeptIds = Ids(LAMBDA allowed, id: allowed = {} \/ id \in allowed)
    BY DEF KeptIds, Kept, Keeps, Ids
  <2>3. DroppedIds = Ids(LAMBDA allowed, id: allowed # {} /\ id \notin allowed)
    BY DEF DroppedIds, Dropped, Keeps, Ids
  <2> QED
    BY <2>1, <2>2, <2>3 DEF AdvertisedAreTheKept
<1> QED
  BY <1>1, DiscoveryInvariant, PTL

------------------------------------------------------------------------------
(* Entries.                                                                *)

LEMMA OwnSpelling == \A k \in OwnedKeys \cup {"context_length"}: Folded(k) = k
<1>1. "context_length" \in ToSet(WindowKeys)
  <2>1. WindowKeys[1] = "context_length" /\ 1 \in DOMAIN WindowKeys
    BY DEF WindowKeys
  <2> QED
    BY <2>1 DEF ToSet
<1> QED
  BY <1>1, ModelMetaAssumption DEF Folded

\* Deriving a window changes nothing that is there.
LEMMA EntryIs ==
    ASSUME NEW object
    PROVE  /\ \A p \in DOMAIN object: p \in DOMAIN Entry(object) /\ Entry(object)[p] = object[p]
           /\ \A p \in DOMAIN Entry(object): p \in DOMAIN object \/ p = <<"context_length">>
           /\ (\A k \in Keys(object): Folded(k) # "context_length")
                 /\ FindContextLength(object) # None
              => /\ <<"context_length">> \in DOMAIN Entry(object)
                 /\ Entry(object)[<<"context_length">>] = FindContextLength(object)
<1> DEFINE length == FindContextLength(object)
           reported == \E k \in Keys(object): Folded(k) = "context_length"
           one == [p \in {<<"context_length">>} |-> length]
           rest == Without(object, {"context_length"})
<1>1. CASE reported \/ length = None
  <2>1. Entry(object) = object
    BY <1>1 DEF Entry
  <2> QED
    BY <1>1, <2>1
<1>2. CASE ~ (reported \/ length = None)
  <2>1. Entry(object) = Over(one, rest)
    BY <1>2 DEF Entry, Insert
  <2>2. \A p \in DOMAIN object: p[1] # "context_length"
    BY <1>2, OwnSpelling DEF Keys
  <2>3. DOMAIN rest = DOMAIN object /\ \A p \in DOMAIN object: rest[p] = object[p]
    BY <2>2, WithoutIs
  <2>4. <<"context_length">> \notin DOMAIN object
    BY <2>2
  <2>5. DOMAIN one = {<<"context_length">>} /\ one[<<"context_length">>] = length
    OBVIOUS
  <2> HIDE DEF one, rest, length
  <2>6. /\ DOMAIN Entry(object) = {<<"context_length">>} \cup DOMAIN object
        /\ Entry(object)[<<"context_length">>] = length
        /\ \A p \in DOMAIN object: Entry(object)[p] = object[p]
    BY <2>1, <2>3, <2>4, <2>5 DEF Over
  <2> QED
    BY <2>6 DEF length
<1> QED
  BY <1>1, <1>2

\* What the clients were shown last are entries of the map.
LEMMA ListedEntries ==
    ASSUME DInv, NEW id \in DOMAIN listed
    PROVE  /\ serving /\ id \in DOMAIN models /\ listed[id] = Entry(models[id].properties)
           /\ IsObject(models[id].properties)
<1>1. listed # <<>>
  OBVIOUS
<1>2. serving /\ listed = [x \in DOMAIN models |-> Entry(models[x].properties)]
  BY <1>1 DEF DInv, ClientsInv
<1> QED
  BY <1>2 DEF DInv, ModelsInv, IsModel

\* ConfigWins for any table: the last key that names a model and declares a
\* property says what is advertised.
THEOREM ConfigurationWins == Spec => []ConfigWins
<1>1. DInv => ConfigWins
  <2> SUFFICES ASSUME DInv, NEW id \in DOMAIN listed, NEW n \in DOMAIN KeyOrder,
                      KeyOrder[n] \in Naming(id),
                      NEW p \in DOMAIN Declared(config.table[KeyOrder[n]]),
                      Folded(p[1]) \notin OwnedKeys,
                      \A key \in {KeyOrder[m]: m \in n + 1 .. Len(KeyOrder)} \cap Naming(id):
                          p[1] \notin Keys(Declared(config.table[key]))
               PROVE  /\ p \in DOMAIN listed[id]
                      /\ listed[id][p] = Declared(config.table[KeyOrder[n]])[p]
    BY DEF ConfigWins
  <2>1. /\ serving /\ id \in DOMAIN models /\ listed[id] = Entry(models[id].properties)
    BY ListedEntries
  <2>2. DeclaredWins(id, models[id], Len(KeyOrder), models[id].properties)
    BY <2>1 DEF DInv, ModelsInv
  <2>3. n \in 1 .. Len(KeyOrder)
    BY DiscoveryAssumption, LenProperties
  <2>4. NamingOf(id, models[id]) = Naming(id)
    BY DEF NamingOf, Naming
  <2>5. p \in DOMAIN models[id].properties
        /\ models[id].properties[p] = Declared(config.table[KeyOrder[n]])[p]
    BY <2>2, <2>3, <2>4 DEF DeclaredWins
  <2> QED
    BY <2>1, <2>5, EntryIs
<1> QED
  BY <1>1, DiscoveryInvariant, PTL

LEMMA DeclaredAre ==
    ASSUME NEW id, NEW m, m.provider = models[id].provider, m.upstream = models[id].upstream
    PROVE  DeclaredOf(id, m) = DeclaredKeys(id)
<1>1. NamingOf(id, m) = Naming(id)
  BY DEF NamingOf, Naming, Names
<1> QED
  BY <1>1 DEF DeclaredOf, DeclaredKeys, Replaced

\* Where a model comes from.
LEMMA SourceIs ==
    ASSUME DInv, NEW id \in DOMAIN models
    PROVE  \E i \in Answered: \E j \in Listed(answers[i]):
              LET e == answers[i][j]
                  m == models[id]
              IN  /\ Namespaced(config.providers[i].name, e.id) = id
                  /\ m.provider = config.providers[i].name /\ m.upstream = e.id
                  /\ e \in Sources(i, m.upstream) /\ i \in 1 .. Len(config.providers)
                  /\ \A p \in DOMAIN FromEntry(e.props): p[1] \notin DeclaredKeys(id)
                        => p \in DOMAIN m.properties /\ m.properties[p] = FromEntry(e.props)[p]
                  /\ \A p \in DOMAIN m.properties: p[1] \notin DeclaredKeys(id)
                        => p \in DOMAIN FromEntry(e.props)
<1>1. PICK i \in Answered: \E j \in Listed(answers[i]): ComesFrom(id, models[id], i, j)
  BY DEF DInv, ModelsInv
<1>2. PICK j \in Listed(answers[i]): ComesFrom(id, models[id], i, j)
  BY <1>1
<1> DEFINE e == answers[i][j]
           a == Advertised(config.providers[i], e)
<1>3. /\ a.provider = config.providers[i].name /\ a.upstream = e.id
      /\ a.properties = FromEntry(e.props)
  BY DEF Advertised
<1>4. /\ Namespaced(config.providers[i].name, a.upstream) = id
      /\ models[id].provider = a.provider /\ models[id].upstream = a.upstream
      /\ Untouched(id, a, models[id].properties)
  BY <1>2 DEF ComesFrom
<1> HIDE DEF a
<1>5. DeclaredOf(id, a) = DeclaredKeys(id)
  BY <1>4, DeclaredAre
<1>6. e \in Sources(i, models[id].upstream)
  BY <1>3, <1>4 DEF Sources
<1>7. i \in 1 .. Len(config.providers)
  <2>1. /\ Len(answers) \in Nat /\ Len(config.providers) \in Nat /\ DOMAIN answers = 1 .. Len(answers)
        /\ Len(answers) <= Len(config.providers)
    BY DiscoveryAssumption, LenProperties DEF DInv, AnswersInv
  <2>2. i \in DOMAIN answers
    BY DEF Answered
  <2> QED
    BY <2>1, <2>2
<1>8. /\ \A p \in DOMAIN FromEntry(e.props): p[1] \notin DeclaredKeys(id)
           => p \in DOMAIN models[id].properties /\ models[id].properties[p] = FromEntry(e.props)[p]
      /\ \A p \in DOMAIN models[id].properties: p[1] \notin DeclaredKeys(id)
           => p \in DOMAIN FromEntry(e.props)
  BY <1>3, <1>4, <1>5 DEF Untouched
<1> QED
  BY <1>3, <1>4, <1>6, <1>7, <1>8

LEMMA DeclaredUnowned ==
    ASSUME NEW id, NEW k \in DeclaredKeys(id)
    PROVE  k \notin OwnedKeys
  BY OwnSpelling DEF DeclaredKeys

\* ReservedVerbatim for any payloads and tables.
THEOREM OwnedAndVerbatim == Spec => []ReservedVerbatim
<1>1. DInv => ReservedVerbatim
  <2> SUFFICES ASSUME DInv, NEW id \in DOMAIN listed
               PROVE  /\ Keys(listed[id]) \cap OwnedKeys = {}
                      /\ \E i \in Answered: \E e \in Sources(i, models[id].upstream):
                             /\ \A p \in DOMAIN e.props:
                                    p[1] \notin OwnedKeys \cup DeclaredKeys(id)
                                        => p \in DOMAIN listed[id] /\ listed[id][p] = e.props[p]
                             /\ Keys(listed[id])
                                  \subseteq Keys(e.props) \cup DeclaredKeys(id) \cup {"context_length"}
    BY DEF ReservedVerbatim
  <2> DEFINE m == models[id]
             own == m.properties
  <2>1. id \in DOMAIN models /\ listed[id] = Entry(own)
    BY ListedEntries
  <2>2. PICK i \in Answered: \E j \in Listed(answers[i]):
            LET e == answers[i][j]
            IN  /\ e \in Sources(i, m.upstream)
                /\ \A p \in DOMAIN FromEntry(e.props): p[1] \notin DeclaredKeys(id)
                      => p \in DOMAIN own /\ own[p] = FromEntry(e.props)[p]
                /\ \A p \in DOMAIN own: p[1] \notin DeclaredKeys(id)
                      => p \in DOMAIN FromEntry(e.props)
    BY <2>1, SourceIs
  <2>3. PICK e \in Sources(i, m.upstream):
            /\ \A p \in DOMAIN FromEntry(e.props): p[1] \notin DeclaredKeys(id)
                  => p \in DOMAIN own /\ own[p] = FromEntry(e.props)[p]
            /\ \A p \in DOMAIN own: p[1] \notin DeclaredKeys(id)
                  => p \in DOMAIN FromEntry(e.props)
    BY <2>2
  <2>4. /\ \A p: p \in DOMAIN FromEntry(e.props) <=> p \in DOMAIN e.props /\ p[1] \notin OwnedKeys
        /\ \A p \in DOMAIN FromEntry(e.props): FromEntry(e.props)[p] = e.props[p]
    BY WithoutIs DEF FromEntry
  <2>5. /\ \A p \in DOMAIN own: p \in DOMAIN listed[id] /\ listed[id][p] = own[p]
        /\ \A p \in DOMAIN listed[id]: p \in DOMAIN own \/ p = <<"context_length">>
    BY <2>1, EntryIs
  <2>6. \A p \in DOMAIN e.props: p[1] \notin OwnedKeys \cup DeclaredKeys(id)
           => p \in DOMAIN listed[id] /\ listed[id][p] = e.props[p]
    BY <2>3, <2>4, <2>5
  <2>7. \A p \in DOMAIN listed[id]:
           /\ p[1] \notin OwnedKeys
           /\ p \in DOMAIN e.props \/ p[1] \in DeclaredKeys(id) \cup {"context_length"}
    <3> SUFFICES ASSUME NEW p \in DOMAIN listed[id]
                 PROVE  /\ p[1] \notin OwnedKeys
                        /\ p \in DOMAIN e.props \/ p[1] \in DeclaredKeys(id) \cup {"context_length"}
      OBVIOUS
    <3>1. CASE p = <<"context_length">>
      BY <3>1 DEF OwnedKeys
    <3>2. CASE p \in DOMAIN own /\ p[1] \in DeclaredKeys(id)
      BY <3>2, DeclaredUnowned
    <3>3. CASE p \in DOMAIN own /\ p[1] \notin DeclaredKeys(id)
      BY <2>3, <2>4, <3>3
    <3> QED
      BY <2>5, <3>1, <3>2, <3>3
  <2>8. Keys(listed[id]) \cap OwnedKeys = {}
    BY <2>7 DEF Keys
  <2>9. Keys(listed[id]) \subseteq Keys(e.props) \cup DeclaredKeys(id) \cup {"context_length"}
    BY <2>7 DEF Keys
  <2> QED
    BY <2>3, <2>6, <2>8, <2>9
<1> QED
  BY <1>1, DiscoveryInvariant, PTL

------------------------------------------------------------------------------
(* Routing.                                                                *)

\* No two providers of a configuration have one name.
NamesDiffer ==
    \A c \in Configs: \A i, j \in 1 .. Len(c.providers):
        c.providers[i].name = c.providers[j].name => i = j

LEMMA ProviderNamedIs ==
    ASSUME NamesDiffer, config \in Configs, NEW i \in 1 .. Len(config.providers)
    PROVE  ProviderNamed(config.providers, config.providers[i].name) = i
<1> DEFINE I == {k \in 1 .. Len(config.providers): config.providers[k].name = config.providers[i].name}
<1>1. I = {i}
  BY DEF NamesDiffer
<1>2. i \in Nat /\ {i} \subseteq Nat
  BY DiscoveryAssumption, LenProperties
<1>3. Min({i}) = i
  BY <1>2, LeastNumber
<1>4. ProviderNamed(config.providers, config.providers[i].name) = IF I # {} THEN Min(I) ELSE 0
  BY DEF ProviderNamed, SelectInSeq
<1> QED
  BY <1>1, <1>3, <1>4

\* RoutedAsAdvertised for any configuration whose providers differ in name: of
\* two of one name the first would get the other's requests too.
THEOREM RoutedToTheSource ==
    ASSUME NamesDiffer
    PROVE  Spec => []RoutedAsAdvertised
<1>1. DInv => RoutedAsAdvertised
  <2> SUFFICES ASSUME DInv, routed.to # 0
               PROVE  /\ Namespaced(config.providers[routed.to].name, routed.upstream) = routed.model
                      /\ \E e \in Sources(routed.to, routed.upstream):
                             Without(models[routed.model].properties, DeclaredKeys(routed.model))
                                 = Without(FromEntry(e.props), DeclaredKeys(routed.model))
    BY DEF RoutedAsAdvertised
  <2> DEFINE id == routed.model
             own == models[id].properties
             declared == DeclaredKeys(id)
  <2>1. routed # NoRoute
    BY DEF NoRoute
  <2>2. /\ id \in DOMAIN models /\ routed.upstream = models[id].upstream
        /\ routed.to = ProviderNamed(config.providers, models[id].provider)
    BY <2>1 DEF DInv, ClientsInv
  <2>3. PICK i \in Answered: \E j \in Listed(answers[i]):
            LET e == answers[i][j]
                m == models[id]
            IN  /\ Namespaced(config.providers[i].name, e.id) = id
                /\ m.provider = config.providers[i].name /\ m.upstream = e.id
                /\ e \in Sources(i, m.upstream) /\ i \in 1 .. Len(config.providers)
                /\ \A p \in DOMAIN FromEntry(e.props): p[1] \notin DeclaredKeys(id)
                      => p \in DOMAIN m.properties /\ m.properties[p] = FromEntry(e.props)[p]
                /\ \A p \in DOMAIN m.properties: p[1] \notin DeclaredKeys(id)
                      => p \in DOMAIN FromEntry(e.props)
    <3> HIDE DEF id
    <3> QED
      BY <2>2, SourceIs
  <2>4. PICK e \in Sources(i, models[id].upstream):
            /\ Namespaced(config.providers[i].name, models[id].upstream) = id
            /\ models[id].provider = config.providers[i].name /\ i \in 1 .. Len(config.providers)
            /\ \A p \in DOMAIN FromEntry(e.props): p[1] \notin declared
                  => p \in DOMAIN own /\ own[p] = FromEntry(e.props)[p]
            /\ \A p \in DOMAIN own: p[1] \notin declared => p \in DOMAIN FromEntry(e.props)
    BY <2>3
  <2>5. routed.to = i
    BY <2>2, <2>4, ProviderNamedIs DEF DInv, AnswersInv
  <2>6. Without(own, declared) = Without(FromEntry(e.props), declared)
    <3> HIDE DEF own, declared
    <3>1. {p \in DOMAIN own: p[1] \notin declared}
             = {p \in DOMAIN FromEntry(e.props): p[1] \notin declared}
      BY <2>4
    <3>2. \A p \in {p \in DOMAIN own: p[1] \notin declared}: own[p] = FromEntry(e.props)[p]
      BY <2>4
    <3> QED
      BY <3>1, <3>2 DEF Without, Restrict
  <2> QED
    BY <2>2, <2>4, <2>5, <2>6
<1> QED
  BY <1>1, DiscoveryInvariant, PTL

------------------------------------------------------------------------------
(* The order of a search.                                                  *)

LEMMA RankIs ==
    ASSUME NEW name \in ToSet(Alphabet)
    PROVE  Rank(name) \in 1 .. Len(Alphabet) /\ Alphabet[Rank(name)] = name
<1> DEFINE I == {k \in 1 .. Len(Alphabet): Alphabet[k] = name}
<1>1. I # {}
  BY ModelMetaAssumption, ToSetOf
<1>2. I \subseteq Nat
  BY ModelMetaAssumption, LenProperties
<1>3. Min(I) \in I
  BY <1>1, <1>2, LeastNumber
<1>4. Rank(name) = IF I # {} THEN Min(I) ELSE 0
  BY DEF Rank, SelectInSeq
<1> QED
  BY <1>1, <1>3, <1>4

Paths == Seq(ToSet(Alphabet))

\* None of the paths leads to another.
Apart(T) == \A p, q \in T: p # q => \E i \in DOMAIN p \cap DOMAIN q: p[i] # q[i]

LEMMA PathIs ==
    ASSUME NEW p \in Paths
    PROVE  /\ \A i \in DOMAIN p: i \in Nat /\ i >= 1 /\ p[i] \in ToSet(Alphabet)
           /\ \A i \in DOMAIN p: \A j \in 1 .. i: j \in DOMAIN p
<1>1. Len(p) \in Nat /\ DOMAIN p = 1 .. Len(p) /\ \A i \in 1 .. Len(p): p[i] \in ToSet(Alphabet)
  BY LenProperties, ElementOfSeq DEF Paths
<1> QED
  BY <1>1

LEMMA EitherFirst ==
    ASSUME NEW p \in Paths, NEW q \in Paths, \E i \in DOMAIN p \cap DOMAIN q: p[i] # q[i]
    PROVE  Precedes(p, q) \/ Precedes(q, p)
<1> DEFINE D == {i \in DOMAIN p \cap DOMAIN q: p[i] # q[i]}
           k == Min(D)
<1>1. D \subseteq Nat /\ D # {}
  BY PathIs
<1>2. k \in D /\ \A i \in D: k <= i
  BY <1>1, LeastNumber
<1>3. \A j \in 1 .. k - 1: p[j] = q[j] /\ q[j] = p[j]
  <2> SUFFICES ASSUME NEW j \in 1 .. k - 1
               PROVE  p[j] = q[j]
    OBVIOUS
  <2>1. k \in Nat /\ j \in 1 .. k /\ j < k
    BY <1>1, <1>2
  <2>2. j \in DOMAIN p \cap DOMAIN q
    BY <1>2, <2>1, PathIs
  <2>3. j \notin D
    BY <1>2, <2>1
  <2> QED
    BY <2>2, <2>3
<1>4. /\ Rank(p[k]) \in Nat /\ Rank(q[k]) \in Nat
      /\ Alphabet[Rank(p[k])] = p[k] /\ Alphabet[Rank(q[k])] = q[k]
  <2>1. p[k] \in ToSet(Alphabet) /\ q[k] \in ToSet(Alphabet)
    BY <1>2, PathIs
  <2> QED
    BY <2>1, RankIs, ModelMetaAssumption, LenProperties
<1>5. Rank(p[k]) < Rank(q[k]) \/ Rank(q[k]) < Rank(p[k])
  BY <1>2, <1>4
<1> HIDE DEF k
<1> QED
  BY <1>2, <1>3, <1>5 DEF Precedes

LEMMA FirstOfThree ==
    ASSUME NEW p \in Paths, NEW q \in Paths, NEW r \in Paths, Precedes(p, q), Precedes(q, r)
    PROVE  Precedes(p, r)
<1>1. PICK i \in DOMAIN p \cap DOMAIN q: /\ \A j \in 1 .. i - 1: p[j] = q[j]
                                         /\ Rank(p[i]) < Rank(q[i])
  BY DEF Precedes
<1>2. PICK k \in DOMAIN q \cap DOMAIN r: /\ \A j \in 1 .. k - 1: q[j] = r[j]
                                         /\ Rank(q[k]) < Rank(r[k])
  BY DEF Precedes
<1>3. i \in Nat /\ i >= 1 /\ k \in Nat /\ k >= 1
  BY PathIs
<1>4. Rank(p[i]) \in Nat /\ Rank(q[i]) \in Nat /\ Rank(q[k]) \in Nat /\ Rank(r[k]) \in Nat
  BY PathIs, RankIs, ModelMetaAssumption, LenProperties
<1>5. CASE i < k
  <2>1. i \in 1 .. k /\ i \in 1 .. k - 1 /\ \A j \in 1 .. i - 1: j \in 1 .. k - 1
    BY <1>3, <1>5
  <2>2. i \in DOMAIN r /\ q[i] = r[i]
    BY <1>2, <2>1, PathIs
  <2>3. \A j \in 1 .. i - 1: p[j] = r[j]
    BY <1>1, <1>2, <2>1
  <2> QED
    BY <1>1, <2>2, <2>3 DEF Precedes
<1>6. CASE i = k
  <2>1. Rank(p[k]) < Rank(r[k])
    BY <1>1, <1>2, <1>4, <1>6
  <2>2. \A j \in 1 .. k - 1: p[j] = r[j]
    BY <1>1, <1>2, <1>6
  <2> QED
    BY <1>1, <1>2, <1>6, <2>1, <2>2 DEF Precedes
<1>7. CASE k < i
  <2>1. k \in 1 .. i /\ k \in 1 .. i - 1 /\ \A j \in 1 .. k - 1: j \in 1 .. i - 1
    BY <1>3, <1>7
  <2>2. k \in DOMAIN p /\ p[k] = q[k]
    BY <1>1, <2>1, PathIs
  <2>3. \A j \in 1 .. k - 1: p[j] = r[j]
    BY <1>1, <1>2, <2>1
  <2> QED
    BY <1>2, <2>2, <2>3 DEF Precedes
<1> QED
  BY <1>3, <1>5, <1>6, <1>7

IsFirst(p, T) == p \in T /\ \A q \in T \ {p}: Precedes(p, q)

\* Of finitely many values one is met first.
LEMMA FirstHit ==
    ASSUME NEW T, IsFiniteSet(T), T # {}, T \subseteq Paths, Apart(T)
    PROVE  \E p: IsFirst(p, T)
<1> SUFFICES ASSUME \A p: ~ IsFirst(p, T)
             PROVE  FALSE
  OBVIOUS
<1> DEFINE Lacks(U) == U \subseteq T /\ U # {} /\ \A p: ~ IsFirst(p, U)
           Sizes == {n \in Nat: \E U: Lacks(U) /\ Cardinality(U) = n}
<1>1. Cardinality(T) \in Sizes
  <2>1. Cardinality(T) \in Nat /\ Lacks(T)
    BY FS_CardinalityType
  <2> HIDE DEF Lacks
  <2> QED
    BY <2>1
<1>2. Min(Sizes) \in Sizes /\ \A n \in Sizes: Min(Sizes) <= n
  <2>1. Sizes \subseteq Nat /\ Sizes # {}
    BY <1>1
  <2> HIDE DEF Sizes
  <2> QED
    BY <2>1, LeastNumber
<1>3. PICK U: Lacks(U) /\ Cardinality(U) = Min(Sizes)
  <2> HIDE DEF Lacks
  <2> QED
    BY <1>2
<1>4. PICK x \in U: TRUE
  BY <1>3
<1> DEFINE V == U \ {x}
<1>5. IsFiniteSet(U)
  BY <1>3, FS_Subset
<1>6. Cardinality(V) = Cardinality(U) - 1 /\ Cardinality(U) \in Nat /\ Cardinality(V) \in Nat
  <2>1. IsFiniteSet(V)
    BY <1>5, FS_Subset
  <2> QED
    BY <1>4, <1>5, <2>1, FS_RemoveElement, FS_CardinalityType
<1>7. ~ Lacks(V)
  <2>1. Cardinality(V) \notin Sizes
    <3> HIDE DEF Sizes
    <3> QED
      BY <1>2, <1>3, <1>6
  <2> HIDE DEF Lacks
  <2> QED
    BY <1>6, <2>1
<1>8. U \subseteq T /\ V \subseteq U
  BY <1>3
<1>9. V # {}
  <2> SUFFICES ASSUME V = {}
               PROVE  FALSE
    OBVIOUS
  <2>1. U = {x}
    BY <1>4
  <2>2. IsFirst(x, U)
    BY <2>1 DEF IsFirst
  <2> QED
    BY <1>3, <2>2
<1>10. PICK y: IsFirst(y, V)
  BY <1>7, <1>8, <1>9
<1>11. y \in U /\ x \in T /\ y \in T /\ x # y
  BY <1>4, <1>8, <1>10 DEF IsFirst
<1>12. CASE Precedes(x, y)
  <2>1. \A q \in U \ {x}: Precedes(x, q)
    <3> SUFFICES ASSUME NEW q \in V
                 PROVE  Precedes(x, q)
      OBVIOUS
    <3>1. CASE q = y
      BY <1>12, <3>1
    <3>2. CASE q # y
      <4>1. Precedes(y, q)
        BY <1>10, <3>2 DEF IsFirst
      <4>2. x \in Paths /\ y \in Paths /\ q \in Paths
        BY <1>8, <1>11
      <4> QED
        BY <1>12, <4>1, <4>2, FirstOfThree
    <3> QED
      BY <3>1, <3>2
  <2>2. IsFirst(x, U)
    BY <1>4, <2>1 DEF IsFirst
  <2> QED
    BY <1>3, <2>2
<1>13. CASE Precedes(y, x)
  <2>1. IsFirst(y, U)
    BY <1>10, <1>11, <1>13 DEF IsFirst
  <2> QED
    BY <1>3, <2>1
<1>14. Precedes(x, y) \/ Precedes(y, x)
  BY <1>11, EitherFirst DEF Apart
<1> QED
  BY <1>12, <1>13, <1>14

\* A search that hits finds a plausible value, and one that does not finds none.
LEMMA FindIntIs ==
    ASSUME NEW object, IsObject(object), NEW key
    PROVE  FindInt(object, key) # None <=> Hits(object, key) # {}
<1> DEFINE hits == Hits(object, key)
           first == CHOOSE p \in hits: \A q \in hits \ {p}: Precedes(p, q)
<1>1. FindInt(object, key) = IF hits = {} THEN None ELSE object[first]
  BY DEF FindInt
<1>2. ASSUME hits # {}
      PROVE  Plausible(object[first])
  <2>1. hits \subseteq DOMAIN object /\ \A p \in hits: Plausible(object[p])
    BY DEF Hits
  <2> HIDE DEF hits
  <2>2. IsFiniteSet(hits) /\ hits \subseteq Paths /\ Apart(hits)
    BY <2>1, FS_Subset DEF IsObject, Apart, Paths
  <2>3. \E p \in hits: \A q \in hits \ {p}: Precedes(p, q)
    BY <1>2, <2>2, FirstHit DEF IsFirst
  <2>4. first \in hits
    BY <2>3
  <2> QED
    BY <2>1, <2>4
<1> HIDE DEF hits, first
<1>3. hits # {} => object[first] # None
  <2>1. \A low, high \in Nat: \A v \in low .. high: v # None
    BY DEF None
  <2>2. MinWindow \in Nat /\ MaxWindow \in Nat
    BY DEF MinWindow, MaxWindow
  <2>3. \A v: Plausible(v) => v # None
    BY <2>1, <2>2 DEF Plausible
  <2> QED
    BY <1>2, <2>3
<1> QED
  BY <1>1, <1>3 DEF hits

\* The trained windows are looked for last.
LEMMA TrainedLast ==
    /\ DOMAIN WindowKeys = 1 .. 12
    /\ \A n \in 1 .. 12: WindowKeys[n] \in TrainedKeys <=> n > 10
<1>1. DOMAIN WindowKeys = 1 .. 12
  BY DEF WindowKeys
<1> QED
  BY <1>1 DEF WindowKeys, TrainedKeys

\* ServedWindowFirst for any properties, at any depth.
THEOREM ServedBeforeTrained == Spec => []ServedWindowFirst
<1>1. DInv => ServedWindowFirst
  <2> SUFFICES ASSUME DInv, NEW id \in DOMAIN listed, NEW properties,
                      properties = models[id].properties, NEW served,
                      served = {key \in ToSet(WindowKeys): Hits(properties, key) # {}} \ TrainedKeys,
                      served # {}, \A k \in Keys(properties): Folded(k) # "context_length"
               PROVE  /\ <<"context_length">> \in DOMAIN listed[id]
                      /\ \E key \in served:
                             listed[id][<<"context_length">>] = FindInt(properties, key)
    BY DEF ServedWindowFirst
  <2> DEFINE found == {n \in DOMAIN WindowKeys: FindInt(properties, WindowKeys[n]) # None}
             k == Min(found)
  <2>1. IsObject(properties) /\ listed[id] = Entry(properties)
    BY ListedEntries
  <2>2. \A key: FindInt(properties, key) # None <=> Hits(properties, key) # {}
    BY <2>1, FindIntIs
  <2>3. PICK n \in 1 .. 12: WindowKeys[n] \in served
    BY TrainedLast DEF ToSet
  <2>4. n \in found /\ n <= 10
    BY <2>2, <2>3, TrainedLast
  <2>5. k \in found /\ k <= n
    <3>1. found \subseteq Nat /\ found # {}
      BY <2>4, TrainedLast
    <3> HIDE DEF found
    <3> QED
      BY <2>4, <3>1, LeastNumber
  <2>6. WindowKeys[k] \in served
    <3>1. k \in 1 .. 12 /\ ~ (k > 10)
      BY <2>4, <2>5, TrainedLast
    <3>2. FindInt(properties, WindowKeys[k]) # None
      BY <2>5
    <3>3. WindowKeys[k] \in ToSet(WindowKeys)
      BY <3>1, TrainedLast DEF ToSet
    <3> HIDE DEF k
    <3> QED
      BY <2>2, <3>1, <3>2, <3>3, TrainedLast
  <2>7. FindContextLength(properties) = FindInt(properties, WindowKeys[k])
    BY <2>4 DEF FindContextLength
  <2>8. FindContextLength(properties) # None
    BY <2>5, <2>7
  <2>9. /\ <<"context_length">> \in DOMAIN Entry(properties)
        /\ Entry(properties)[<<"context_length">>] = FindContextLength(properties)
    BY <2>8, EntryIs
  <2> QED
    BY <2>1, <2>6, <2>7, <2>9
<1> QED
  BY <1>1, DiscoveryInvariant, PTL
=============================================================================
