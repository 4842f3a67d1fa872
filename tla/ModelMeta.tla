------------------------------ MODULE ModelMeta ------------------------------
(***************************************************************************)
(* What /v1/models says of one model (model_meta.rs, config.rs): the       *)
(* upstream's entry without the keys the proxy owns, the configured        *)
(* properties over it, and a context_length derived when the entry has     *)
(* none under that name.                                                   *)
(*                                                                         *)
(* A JSON object is a function from paths, sequences of names, to values.  *)
(* The items of an array are names too, that no key has.  A value is the   *)
(* number plausible() reads from it, NotANumber when it reads none: so     *)
(* reads an object or an array that is empty, and it keeps its key.        *)
(***************************************************************************)
EXTENDS Integers, SequencesExt

CONSTANTS
    Alphabet,   \* all names, in the order serde_json's map keeps its keys
    Lower       \* the names with capitals, and their spelling without

NotANumber == -1
None == -2

Nothing == <<>>

------------------------------------------------------------------------------
(* Names and windows.                                                      *)

MinWindow == 1024
MaxWindow == 10000000

OwnedKeys == {"id", "object", "owned_by"}

\* Bug: the trained maximum before the served window.
WindowKeys_TrainedFirst ==
    <<"context_length", "max_model_len", "context_window", "context_size", "max_input_tokens",
      "max_context_length", "max_seq_len", "max_sequence_length", "n_ctx_train",
      "max_position_embeddings", "n_ctx", "ctx_size">>

WindowKeys ==
    <<"context_length", "max_model_len", "context_window", "context_size", "max_input_tokens",
      "max_context_length", "max_seq_len", "max_sequence_length", "n_ctx", "ctx_size",
      "n_ctx_train", "max_position_embeddings">>

ASSUME ModelMetaAssumption ==
    /\ Alphabet \in Seq(STRING) /\ "context_length" \in ToSet(Alphabet)
    /\ DOMAIN Lower \cap (OwnedKeys \cup ToSet(WindowKeys)) = {}

\* eq_ignore_ascii_case
Folded(name) == IF name \in DOMAIN Lower THEN Lower[name] ELSE name

Plausible(value) == value \in MinWindow .. MaxWindow

Rank(name) == SelectInSeq(Alphabet, LAMBDA n: n = name)

\* The order in which a search meets two paths, of which none leads to the other.
Precedes(p, q) ==
    \E i \in DOMAIN p \cap DOMAIN q:
        /\ \A j \in 1 .. i - 1: p[j] = q[j]
        /\ Rank(p[i]) < Rank(q[i])

\* Where a search for the key finds a plausible value: it looks into values of
\* other names only.
Hits(object, key) ==
    {p \in DOMAIN object: /\ Folded(Last(p)) = key
                          /\ \A i \in 1 .. Len(p) - 1: Folded(p[i]) # key
                          /\ Plausible(object[p])}

\* find_int, and the same search of find_context_length at the top.
FindInt(object, key) ==
    LET hits == Hits(object, key)
    IN  IF hits = {} THEN None
        ELSE object[CHOOSE p \in hits: \A q \in hits \ {p}: Precedes(p, q)]

\* Keys in the order of precedence, whatever the order of the payload.
FindContextLength(object) ==
    LET found == {n \in DOMAIN WindowKeys: FindInt(object, WindowKeys[n]) # None}
    IN  IF found = {} THEN None ELSE FindInt(object, WindowKeys[Min(found)])

------------------------------------------------------------------------------
(* The entry.                                                              *)

\* What is read from JSON: no path of a value goes through another value.
IsObject(object) ==
    /\ object = [p \in DOMAIN object |-> object[p]]
    /\ IsFiniteSet(DOMAIN object)
    /\ \A p \in DOMAIN object: p # <<>> /\ p \in Seq(ToSet(Alphabet)) /\ object[p] \in Int
    /\ \A p, q \in DOMAIN object: p # q => \E i \in DOMAIN p \cap DOMAIN q: p[i] # q[i]

Keys(object) == {p[1]: p \in DOMAIN object}

\* One function over another, whose values it replaces.
Over(top, below) ==
    [p \in DOMAIN top \cup DOMAIN below |-> IF p \in DOMAIN top THEN top[p] ELSE below[p]]

Without(object, names) == Restrict(object, {p \in DOMAIN object: p[1] \notin names})

\* Map::insert of a number: what was under the key is replaced.
Insert(object, key, value) == Over([p \in {<<key>>} |-> value], Without(object, {key}))

\* Bug: the upstream's id rides along with the rest.
FromEntry_Verbatim(entry) == entry

\* from_entry
FromEntry(entry) == Without(entry, OwnedKeys)

\* sanitize_model_properties and as_map
Declared(table) ==
    IF Plausible(table.context_length)
    THEN Insert(table.extra, "context_length", table.context_length)
    ELSE table.extra

\* apply_overrides: a declared property replaces the upstream's, except for
\* the keys the proxy owns, in any spelling.
ApplyOverrides(object, table) ==
    LET applied == Without(table, {k \in Keys(table): Folded(k) \in OwnedKeys})
    IN  Over(applied, Without(object, Keys(applied)))

\* entry: a window is derived when no key is named context_length.
Entry(object) ==
    LET length == FindContextLength(object)
        reported == \E k \in Keys(object): Folded(k) = "context_length"
    IN  IF reported \/ length = None THEN object ELSE Insert(object, "context_length", length)
=============================================================================
