----------------------------- MODULE MCDiscovery -----------------------------
(* Model values of Discovery and ModelMeta for TLC.                        *)
EXTENDS Discovery

(* Colliding ids.                                                          *)

\* Ids that collide after namespacing: x, a/x for the provider a; b/x for a
\* and x for a/b.
Colliding == {<<"x">>, <<"a", "x">>, <<"b", "x">>, <<"a", "b", "x">>}

Sorted == <<<<"a", "b", "x">>, <<"a", "x">>, <<"b", "x">>, <<"m">>, <<"x">>>>

\* Each entry says where it comes from.
Mark == <<"a">> :> 2000 @@ <<"b">> :> 3000 @@ <<"a", "b">> :> 4000

Lists(p) ==
    {[j \in DOMAIN ids |-> [id |-> ids[j], props |-> <<"max_model_len">> :> Mark[p.name] + j]]:
        ids \in BoundedSeq(Colliding \cup {NoId}, 2)}

Window(n) == [context_length |-> n, extra |-> Nothing]

Overlapping ==
    {<<>>, <<"x">> :> Window(8192),
     <<"x">> :> Window(8192) @@ <<"a", "x">> :> [context_length |-> 9000, extra |-> <<"n_ctx">> :> 5]}

Provider == [name: {<<"a">>, <<"b">>, <<"a", "b">>}, models: {{}, {<<"x">>}}]

\* Two providers of different names.
Pairs ==
    {[providers |-> pair, table |-> t]:
        pair \in {q \in Provider \X Provider: q[1].name # q[2].name}, t \in Overlapping}

(* Reported properties, of one provider's only model.                      *)

Spellings ==
    <<"Context_Length", "Id", "context_length", "details", "id", "max_model_len", "meta", "n_ctx",
      "n_ctx_train">>

Capitals == "Context_Length" :> "context_length" @@ "Id" :> "id"

May(path, values) == {Nothing} \cup {path :> v: v \in values}

\* What a provider may report under names that are, or contain, window keys.
Reports ==
    {a @@ b @@ c @@ d @@ e @@ f @@ g:
        a \in May(<<"id">>, {0}),
        b \in May(<<"Context_Length">>, {8192}),
        c \in May(<<"context_length">>, {NotANumber, 0, 4096}) \cup {<<"context_length", "n_ctx">> :> 4096},
        d \in May(<<"details", "n_ctx">>, {500, 2048}),
        e \in May(<<"meta", "n_ctx">>, {131072}),
        f \in May(<<"meta", "n_ctx_train">>, {262144}),
        g \in May(<<"n_ctx_train">>, {20000000, 65536})}

Reporter == [name |-> <<"c">>, models |-> {}]

Declarations ==
    [context_length: {None, 500, 32768},
     extra: {Nothing, <<"Id">> :> 0 @@ <<"max_model_len">> :> 16384, <<"n_ctx_train">> :> 1024}]

Singles == {[providers |-> <<Reporter>>, table |-> <<"m">> :> d]: d \in Declarations}

------------------------------------------------------------------------------

AllConfigs == Pairs \cup Singles

AllPayloads(p) ==
    IF p = Reporter THEN {<<[id |-> <<"m">>, props |-> r]>>: r \in Reports}
    ELSE Lists(p) \cup {Failed}
=============================================================================
