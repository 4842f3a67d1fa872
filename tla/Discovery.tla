------------------------------ MODULE Discovery ------------------------------
(***************************************************************************)
(* Model discovery and routing (server.rs, model_meta.rs, handlers.rs): at *)
(* startup the providers are asked for their models one after the other,   *)
(* the kept ones are put in a map under their namespaced ids, the          *)
(* configured properties are laid over them, and from then on the models   *)
(* are listed and requests are routed by the map.  What is said of one     *)
(* model is ModelMeta's.                                                   *)
(*                                                                         *)
(* An id is the sequence of what stands between its slashes.               *)
(***************************************************************************)
EXTENDS ModelMeta

CONSTANTS
    Configs,    \* configurations: [providers, table]; a provider has a name
                \* and a set of models, its allowlist, and the table maps a
                \* model_properties key to what it declares
    Payloads(_),    \* a provider's answers to GET /models: sequences of
                \* [id, props], or Failed
    KeyOrder,   \* all the table's keys, in the order of their strings
    Requested,  \* ids that clients ask for
    NoId,       \* the id of an entry that has none
    Failed      \* unreachable, no success, or no JSON

\* What TOML and JSON can hold.
ASSUME DiscoveryAssumption ==
    /\ KeyOrder \in Seq(ToSet(KeyOrder))
    /\ \A c \in Configs:
           /\ c.providers \in Seq(ToSet(c.providers))
           /\ \A key \in DOMAIN c.table:
                  /\ key \in ToSet(KeyOrder)
                  /\ c.table[key].context_length \in Int /\ IsObject(c.table[key].extra)
           /\ \A p \in ToSet(c.providers): \A payload \in Payloads(p) \ {Failed}:
                  /\ payload \in Seq(ToSet(payload))
                  /\ \A j \in DOMAIN payload: IsObject(payload[j].props)

VARIABLES
    config,
    answers,    \* the providers' answers so far
    models,     \* advertised id -> [provider, upstream, properties]
    inactive,   \* the ids counted as deactivated
    serving,    \* discovery is over
    listed,     \* the last answer of /v1/models: id -> the entry's properties
    routed      \* the last request: its model, the provider, the id forwarded

vars == <<config, answers, models, inactive, serving, listed, routed>>

NoRoute == [model |-> NoId, to |-> 0, upstream |-> NoId]

Init ==
    /\ config \in Configs
    /\ answers = <<>>
    /\ models = <<>>
    /\ inactive = <<>>
    /\ serving = FALSE
    /\ listed = <<>>
    /\ routed = NoRoute

------------------------------------------------------------------------------
(* Names.                                                                  *)

\* The id begins with the provider's name and a slash.
Carries(name, id) == IsStrictPrefix(name, id)

Namespaced(name, id) == IF Carries(name, id) THEN id ELSE name \o id

\* bare_model_name: nothing is left of "nvidia/", so that it stays as it is.
Bare(name, id) ==
    LET rest == SubSeq(id, Len(name) + 1, Len(id))
    IN  IF Carries(name, id) /\ rest # <<"">> THEN rest ELSE id

------------------------------------------------------------------------------
(* Selection.                                                              *)

\* Bug: the allowlist compared with the advertised id.
Keeps_Namespaced(p, id) == p.models = {} \/ Namespaced(p.name, id) \in p.models

\* select_models: an empty allowlist keeps everything.
Keeps(p, id) == p.models = {} \/ id \in p.models

\* The entries with an id, as positions in the payload.
Listed(payload) == {j \in DOMAIN payload: payload[j].id # NoId}

\* Those whose id, namespaced, is `id`, and that the allowlist keeps.
Offers(p, payload, id) ==
    {j \in Listed(payload): Keeps(p, payload[j].id) /\ Namespaced(p.name, payload[j].id) = id}

\* select_from_payload's record of an entry.
Advertised(p, e) == [provider |-> p.name, upstream |-> e.id, properties |-> FromEntry(e.props)]

\* Bug: a second entry with the id overwrites the properties, not the record.
Select_Merge(p, payload) ==
    [id \in {Namespaced(p.name, payload[j].id): j \in {k \in Listed(payload): Keeps(p, payload[k].id)}} |->
        [Advertised(p, payload[Min(Offers(p, payload, id))]) EXCEPT
            !.properties = FromEntry(payload[Max(Offers(p, payload, id))].props)]]

\* The map of one provider: of two entries with one id the first is kept.
Select(p, payload) ==
    [id \in {Namespaced(p.name, payload[j].id): j \in {k \in Listed(payload): Keeps(p, payload[k].id)}} |->
        Advertised(p, payload[Min(Offers(p, payload, id))])]

\* What the loop over the entries has pushed when it is over.
Filtered(p, payload) ==
    LET pushed[n \in 0 .. Len(payload)] ==
            IF n = 0 THEN <<>>
            ELSE IF payload[n].id # NoId /\ ~ Keeps(p, payload[n].id)
            THEN Append(pushed[n - 1], Namespaced(p.name, payload[n].id))
            ELSE pushed[n - 1]
    IN  pushed[Len(payload)]

\* One provider answers, or fails and is skipped; a later provider's model
\* replaces an earlier one's of the same id.
Discover(payload) ==
    LET i == Len(answers) + 1
        p == config.providers[i]
    IN  /\ ~ serving /\ i <= Len(config.providers)
        /\ answers' = Append(answers, payload)
        /\ IF payload = Failed
           THEN UNCHANGED <<models, inactive>>
           ELSE /\ models' = Over(Select(p, payload), models)
                /\ inactive' = inactive \o Filtered(p, payload)
        /\ UNCHANGED <<config, serving, listed, routed>>

------------------------------------------------------------------------------
(* The overlay of the configured properties.                               *)

\* override_targets: a key may be the advertised id, the upstream id or the
\* model's own name.
Names(id, m) == {id, m.upstream, Bare(m.provider, m.upstream)}

Apply(ms, key) ==
    [id \in DOMAIN ms |->
        IF key \in Names(id, ms[id])
        THEN [ms[id] EXCEPT !.properties = ApplyOverrides(@, Declared(config.table[key]))]
        ELSE ms[id]]

\* Bug: the keys applied in another order.
Overlay_Unsorted(ms) ==
    LET after[n \in 0 .. Len(KeyOrder)] ==
            LET key == KeyOrder[Len(KeyOrder) + 1 - n]
            IN  IF n = 0 THEN ms
                ELSE IF key \in DOMAIN config.table THEN Apply(after[n - 1], key)
                ELSE after[n - 1]
    IN  after[Len(KeyOrder)]

\* apply_model_properties: the table's keys in sorted order.
Overlay(ms) ==
    LET after[n \in 0 .. Len(KeyOrder)] ==
            IF n = 0 THEN ms
            ELSE IF KeyOrder[n] \in DOMAIN config.table THEN Apply(after[n - 1], KeyOrder[n])
            ELSE after[n - 1]
    IN  after[Len(KeyOrder)]

Serve ==
    /\ ~ serving /\ Len(answers) = Len(config.providers)
    /\ models' = Overlay(models)
    /\ serving' = TRUE
    /\ UNCHANGED <<config, answers, inactive, listed, routed>>

------------------------------------------------------------------------------
(* Requests.                                                               *)

\* list_models
List ==
    /\ serving
    /\ listed' = [id \in DOMAIN models |-> Entry(models[id].properties)]
    /\ UNCHANGED <<config, answers, models, inactive, serving, routed>>

\* "The stored id is authoritative".
Forwarded(id) == models[id].upstream

\* The provider is looked up by the name in the record: the first of that name.
ProviderNamed(providers, name) == SelectInSeq(providers, LAMBDA p: p.name = name)

\* An id that is not advertised is refused as UnknownModel.
Route(id) ==
    /\ serving
    /\ routed' = IF id \in DOMAIN models
                 THEN [model |-> id, upstream |-> Forwarded(id),
                       to |-> ProviderNamed(config.providers, models[id].provider)]
                 ELSE NoRoute
    /\ UNCHANGED <<config, answers, models, inactive, serving, listed>>

Next ==
    \/ /\ Len(answers) < Len(config.providers)
       /\ \E payload \in Payloads(config.providers[Len(answers) + 1]): Discover(payload)
    \/ Serve \/ List
    \/ \E id \in Requested: Route(id)

Spec == Init /\ [][Next]_vars

------------------------------------------------------------------------------

Answered == {i \in DOMAIN answers: answers[i] # Failed}

\* Every id a provider that answered listed, with the test for `kept`.
Ids(kept(_, _)) ==
    UNION {{Namespaced(config.providers[i].name, answers[i][j].id):
                j \in {k \in Listed(answers[i]): kept(config.providers[i].models, answers[i][k].id)}}:
           i \in Answered}

\* The windows a model was trained with, which a server may not offer.
TrainedKeys == {"n_ctx_train", "max_position_embeddings"}

\* "Optional allowlist of upstream model ids to advertise. Empty (default) =
\* advertise every model the provider offers; non-empty = only these models":
\* what is advertised is what the providers that answered offer and their
\* allowlists keep, whichever of the others failed and whatever collides, and
\* all else they offer is counted as deactivated.
AdvertisedAreTheKept ==
    serving =>
        /\ DOMAIN models = Ids(LAMBDA allowed, id: allowed = {} \/ id \in allowed)
        /\ ToSet(inactive) = Ids(LAMBDA allowed, id: allowed # {} /\ id \notin allowed)

\* The table's keys that name this model, and what they declare.
Naming(id) == Names(id, models[id]) \cap DOMAIN config.table

DeclaredKeys(id) ==
    {k \in UNION {Keys(Declared(config.table[key])): key \in Naming(id)}: Folded(k) \notin OwnedKeys}

\* The entries with this upstream id that this provider listed.
Sources(to, upstream) ==
    IF to \in Answered THEN {answers[to][j]: j \in {k \in Listed(answers[to]): answers[to][k].id = upstream}}
    ELSE {}

\* "record holding the provider it routes to, the upstream id to forward, and
\* the upstream entry's own properties": a request reaches a provider that
\* listed that very id, and the properties the client was shown are that
\* model's, not those of another whose id collides with it.
RoutedAsAdvertised ==
    routed.to # 0 =>
        /\ Namespaced(config.providers[routed.to].name, routed.upstream) = routed.model
        /\ \E e \in Sources(routed.to, routed.upstream):
               Without(models[routed.model].properties, DeclaredKeys(routed.model))
                   = Without(FromEntry(e.props), DeclaredKeys(routed.model))

\* "Config wins per key", and "the later key wins where they declare the same
\* property": a declared property is advertised as the last key that names the
\* model declares it, whatever the provider reported and whatever could be
\* derived from it.
ConfigWins ==
    \A id \in DOMAIN listed: \A n \in DOMAIN KeyOrder: KeyOrder[n] \in Naming(id) =>
        LET declared == Declared(config.table[KeyOrder[n]])
            later == {KeyOrder[m]: m \in n + 1 .. Len(KeyOrder)} \cap Naming(id)
        IN  \A p \in DOMAIN declared:
                \/ Folded(p[1]) \in OwnedKeys
                \/ \E key \in later: p[1] \in Keys(Declared(config.table[key]))
                \/ p \in DOMAIN listed[id] /\ listed[id][p] = declared[p]

\* "advertising the trained value lets a client overrun the served window": a
\* window derived for a model whose properties have a plausible served one, at
\* any depth and under any of its names, is a served one.
ServedWindowFirst ==
    \A id \in DOMAIN listed:
        LET properties == models[id].properties
            served     == {key \in ToSet(WindowKeys): Hits(properties, key) # {}} \ TrainedKeys
        IN  (served # {} /\ \A k \in Keys(properties): Folded(k) # "context_length")
                => /\ <<"context_length">> \in DOMAIN listed[id]
                   /\ \E key \in served:
                          listed[id][<<"context_length">>] = FindInt(properties, key)

\* "with only id/object/owned_by owned by the proxy", each of them emitted
\* once; everything else the provider said "rides along untouched".
ReservedVerbatim ==
    \A id \in DOMAIN listed:
        /\ Keys(listed[id]) \cap OwnedKeys = {}
        /\ \E i \in Answered: \E e \in Sources(i, models[id].upstream):
               /\ \A p \in DOMAIN e.props:
                      p[1] \notin OwnedKeys \cup DeclaredKeys(id)
                          => p \in DOMAIN listed[id] /\ listed[id][p] = e.props[p]
               /\ Keys(listed[id]) \subseteq Keys(e.props) \cup DeclaredKeys(id) \cup {"context_length"}
=============================================================================
