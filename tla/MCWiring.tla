------------------------------ MODULE MCWiring ------------------------------
(* A small instance of Wiring for TLC. *)
EXTENDS Wiring

Localhost == Text("localhost")

(* config.yaml: the leaves without a default, and some that are varied.    *)
DB == [host |-> Localhost, port |-> Num(5432000), name |-> Text("app"),
       user |-> Text("postgres"), password |-> Text("postgres")]
Valkey == [host |-> Localhost, port |-> Num(6379000)]
Base == [db |-> Mapping(DB), valkey |-> Mapping(Valkey)]

With(s, leaves) == File("mapping", (s :> Mapping(leaves)) @@ Base)

MCFiles == {
    File("absent", <<>>), File("empty", <<>>), File("unreadable", <<>>), File("notMapping", <<>>),
    File("mapping", Base),
    File("mapping", [Base EXCEPT !.db = NullSection]),
    File("mapping", ("sales" :> NullSection) @@ Base),
    With("db", [min_conns |-> Num(20000)] @@ DB),
    With("valkey", [ttl |-> Str(<<250000>>, "ms")] @@ Valkey),
    With("valkey", [ttl |-> Null] @@ Valkey),
    With("valkey", [ttl |-> Num(-5000)] @@ Valkey),
    With("http", [body_limit |-> Str(<<1000>>, "K")]),
    With("http", [body_limit |-> Str(<<1000>>, "X")]),
    With("sales", [enabled |-> Bool(FALSE)]),
    With("catalog", [enabled |-> Text("yes")]),
    With("otel", [exporter |-> Text("otlp")]),
    With("reporting", [max_top_machines |-> Num(3000)]),
    With("reporting", [default_top_machines |-> Num(2500)]) }

(* The environment: the leaves without a default, or none of them, and at  *)
(* most one switch and one setting.                                        *)
RequiredEnv ==
    (<<"db", "host">> :> Localhost) @@ (<<"db", "port">> :> Digits(5432)) @@
    (<<"db", "name">> :> Text("app")) @@ (<<"db", "user">> :> Text("postgres")) @@
    (<<"db", "password">> :> Empty) @@
    (<<"valkey", "host">> :> Localhost) @@ (<<"valkey", "port">> :> Digits(6379))

Switches == {
    <<"sales", "enabled">> :> Text("yes"),
    <<"sales", "enabled">> :> Digits(1),
    <<"catalog", "enabled">> :> Text("false"),
    <<"machines", "enabled">> :> Text("false"),
    <<"reporting", "enabled">> :> Text("0") }

Settings == {
    <<"db", "min_conns">> :> Empty,
    <<"db", "max_conns">> :> Empty,
    <<"reporting", "default_top_machines">> :> Digits(2),
    <<"reporting", "max_top_machines">> :> Digits(3),
    <<"valkey", "ttl">> :> Str(<<1500>>, "m"),
    <<"http", "body_limit">> :> Str(<<2000>>, "K"),
    (<<"otel", "endpoint">> :> Text("http://collector:4318"))
        @@ (<<"http", "cors_allow_origins">> :> Commas(<<"">>)) }

MCEnvs ==
    {required @@ a @@ b : required \in {RequiredEnv, <<>>},
                          a \in Switches \cup {<<>>}, b \in Settings \cup {<<>>}}

MCRequests ==
    {Ask(route, 0, 0) : route \in {"getProduct", "getMachine", "elsewhere"}}
    \cup {Ask(route, 20, 0) : route \in {"postProduct", "postMachine", "postBank"}}
    \cup {Ask("postPurchase", size, 0) : size \in {20, 2000}}
    \cup {Ask("getSummary", 0, top) : top \in {0, 3, 5}}
=============================================================================
