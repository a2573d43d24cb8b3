------------------------------- MODULE Config -------------------------------
(***************************************************************************)
(* loadConfig (infrastructure/config/config.ts): the configuration of a    *)
(* server from config.yaml and the environment.  A variable of the         *)
(* environment is always a string and is parsed by its binding; what the   *)
(* file says has the type YAML gives it.  What comes out is either a whole *)
(* configuration or a ConfigError.                                         *)
(*                                                                         *)
(* All numbers are counted in thousandths, so that "250ms" and a sampling  *)
(* of 0.25 have a value.  A string is a number in front, if there is one,  *)
(* and the rest; surrounding space and the case of units are left out.     *)
(***************************************************************************)
EXTENDS Integers, Sequences, TLC

Num(n) == [is |-> "number", value |-> n]
Bool(b) == [is |-> "boolean", value |-> b]
List(items) == [is |-> "list", items |-> items]
Str(number, rest) == [is |-> "string", number |-> number, rest |-> rest]
Commas(items) == [is |-> "string", items |-> items]     \* "a,b"
NaN == [is |-> "NaN"]
Null == [is |-> "null"]
Missing == [is |-> "undefined"]

Digits(n) == Str(<<1000 * n>>, "")
Text(word) == Str(<<>>, word)
Empty == Text("")

IsNumeric(s) == s.number # <<>> /\ s.number[1] >= 0

(* A number of the file is taken as it is, be it negative.                 *)
Unit == ("" :> 1) @@ ("s" :> 1) @@ ("m" :> 60) @@ ("h" :> 3600)

IsDuration(v) ==
    \/ v.is = "number"
    \/ v.is = "string" /\ IsNumeric(v) /\ v.rest \in DOMAIN Unit \cup {"ms"}

ParseDurationToSeconds(v) ==
    CASE v.is = "number" -> v.value
      [] v.is = "string" /\ v.rest = "ms" -> v.number[1] \div 1000
      [] OTHER -> v.number[1] * Unit[v.rest]

(* "G" is left out: TLC does not count that far.                          *)
Size == ("" :> 1) @@ ("K" :> 1024) @@ ("M" :> 1048576)

(* What is not a size is no limit. *)
ParseBodyLimitBytes(s) ==
    IF IsNumeric(s) /\ s.rest \in DOMAIN Size THEN s.number[1] * Size[s.rest] ELSE 0

----------------------------------------------------------------------------
(* The schema: what each leaf accepts, and its default.                    *)
Leaf(type, domain, default) == [type |-> type, domain |-> domain, default |-> default]
Required(leaf) == [leaf EXCEPT !.default = Missing]

AnyText(default) == Leaf("text", {}, Text(default))
Word(default) == Leaf("text", {Empty}, Text(default))     \* refused: the empty one
OneOf(words, default) == Leaf("enum", {Text(w) : w \in words}, Text(default))
Within(type, low, high, default) ==
    Leaf(type, <<1000 * low, 1000 * high>>, Num(1000 * default))
Whole(low, high, default) == Within("int", low, high, default)
Port(default) == Whole(1, 65535, default)
Unbounded == 2147483
Count(default) == Whole(1, Unbounded, default)
CountFrom0(default) == Whole(0, Unbounded, default)
Seconds(default) == Leaf("duration", {}, Num(1000 * default))
Flag == Leaf("flag", {}, Bool(TRUE))
Strings(default) == Leaf("strings", {}, List(default))

AppSchema == [
    name |-> Word("zercle-bun-template"),
    environment |-> OneOf({"development", "staging", "production", "test"}, "development"),
    host |-> Word("0.0.0.0"), port |-> Port(8080), shutdown_timeout |-> Seconds(15)]

HTTPSchema == [
    host |-> Word("0.0.0.0"), port |-> Port(8080),
    read_timeout |-> Seconds(15), write_timeout |-> Seconds(15), idle_timeout |-> Seconds(60),
    body_limit |-> Leaf("text", {Empty}, Str(<<1000>>, "M")),
    health_probe_timeout |-> Seconds(5),
    cors_allow_origins |-> Strings(<<>>),
    cors_allow_methods |-> Strings(<<"GET", "POST", "PUT", "PATCH", "DELETE", "OPTIONS">>),
    cors_allow_headers |-> Strings(<<"Authorization", "Content-Type", "X-Request-ID">>)]

DBSchema == [
    host |-> Required(Word("")), port |-> Required(Port(0)),
    name |-> Required(Word("")), user |-> Required(Word("")), password |-> Required(AnyText("")),
    ssl_mode |-> OneOf({"disable", "prefer", "require", "verify-ca", "verify-full"}, "disable"),
    max_conns |-> Count(10), min_conns |-> CountFrom0(2),
    max_conn_idle |-> Seconds(1800), max_conn_life |-> Seconds(3600),
    connect_timeout |-> Seconds(5)]

ValkeySchema == [
    host |-> Required(Word("")), port |-> Required(Port(0)),
    password |-> AnyText(""), db |-> CountFrom0(0),
    connect_timeout |-> Seconds(5), ttl |-> Seconds(30)]

OTelSchema == [
    exporter |-> OneOf({"otlp", "none"}, "none"), endpoint |-> AnyText(""),
    service_name |-> Word("zercle-bun-template"), sampling |-> Within("number", 0, 1, 1)]

LogSchema == [
    level |-> OneOf({"trace", "debug", "info", "warn", "error", "fatal"}, "info"),
    format |-> OneOf({"json", "console"}, "json")]

CatalogSchema == [
    enabled |-> Flag, default_page_size |-> Count(20), max_page_size |-> Count(100),
    max_name_length |-> Count(255)]

MachinesSchema == [
    enabled |-> Flag, default_page_size |-> Count(20), max_page_size |-> Count(100),
    max_label_length |-> Count(255)]

SalesSchema == [enabled |-> Flag]

ReportingSchema == [
    enabled |-> Flag, default_top_machines |-> Count(5), max_top_machines |-> Count(20)]

ConfigSchema == [
    app |-> AppSchema, http |-> HTTPSchema, db |-> DBSchema, valkey |-> ValkeySchema,
    otel |-> OTelSchema, log |-> LogSchema, catalog |-> CatalogSchema,
    machines |-> MachinesSchema, sales |-> SalesSchema, reporting |-> ReportingSchema]

Sections == DOMAIN ConfigSchema
Leaves(s) == DOMAIN ConfigSchema[s]

(* A default is not checked; null is not taken for a missing value.        *)
Fits(leaf, v) ==
    \/ v = Missing /\ leaf.default # Missing
    \/ leaf.type = "text" /\ v.is = "string" /\ v \notin leaf.domain
    \/ leaf.type = "enum" /\ v \in leaf.domain
    \/ leaf.type = "duration" /\ IsDuration(v)
    \/ leaf.type = "flag" /\ v.is = "boolean"
    \/ leaf.type = "strings" /\ v.is = "list"
    \/ /\ leaf.type \in {"int", "number"} /\ v.is = "number"
       /\ leaf.domain[1] <= v.value /\ v.value <= leaf.domain[2]
       /\ leaf.type = "int" => v.value % 1000 = 0

Stored(leaf, v) ==
    CASE v = Missing -> leaf.default
      [] v # Missing /\ leaf.type = "duration" -> Num(ParseDurationToSeconds(v))
      [] OTHER -> v

----------------------------------------------------------------------------
(* The environment.                                                        *)

(* Number(raw), of JavaScript: the empty string is 0.                      *)
ToNumber(raw) ==
    CASE raw = Empty -> Num(0)
      [] raw.rest = "" /\ raw.number # <<>> -> Num(raw.number[1])
      [] OTHER -> NaN

CommaSplit(raw) == List(SelectSeq(raw.items, LAMBDA word : word # ""))

(* Every leaf has a binding. *)
LeafBinding(leaf, raw) ==
    CASE leaf.type \in {"int", "number"} -> ToNumber(raw)
      [] leaf.type = "flag" -> Bool(raw \in {Text("true"), Digits(1)})
      [] leaf.type = "strings" -> CommaSplit(raw)
      [] OTHER -> raw

(* env is a function from pairs of a section and a leaf to strings.        *)
SetPaths(env, s) ==
    [l \in {l \in Leaves(s) : <<s, l>> \in DOMAIN env} |->
        LeafBinding(ConfigSchema[s][l], env[<<s, l>>])]

----------------------------------------------------------------------------
(* The file: how reading it went, and its sections.  A section need not be *)
(* a mapping: `db:` with nothing below it is null.                         *)
Mapping(leaves) == [shape |-> "mapping", leaves |-> leaves]
NullSection == [shape |-> "null"]

File(status, sections) == [status |-> status, sections |-> sections]

(* No file, or one without a document, is an empty one.  YAML that does    *)
(* not parse throws as well, if not a ConfigError.                         *)
Readable(file) == file.status \in {"mapping", "empty", "absent"}

Over(upper, lower) ==
    [l \in DOMAIN upper \cup DOMAIN lower |-> IF l \in DOMAIN upper THEN upper[l] ELSE lower[l]]

(* Variant: the file wins.                                                 *)
DeepMergeFileWins(base, overrides) ==
    IF DOMAIN overrides = {} THEN base
    ELSE Mapping(IF base.shape = "mapping" THEN Over(base.leaves, overrides) ELSE overrides)

(* What is not a mapping is replaced as a whole. *)
DeepMerge(base, overrides) ==
    IF DOMAIN overrides = {} THEN base
    ELSE Mapping(IF base.shape = "mapping" THEN Over(overrides, base.leaves) ELSE overrides)

Merged(file, env) ==
    [s \in Sections |->
        DeepMerge(IF s \in DOMAIN file.sections THEN file.sections[s] ELSE Mapping(<<>>),
                  SetPaths(env, s))]

At(section, l) == IF l \in DOMAIN section.leaves THEN section.leaves[l] ELSE Missing

Parses(merged) ==
    \A s \in Sections :
        /\ merged[s].shape = "mapping"
        /\ \A l \in Leaves(s) : Fits(ConfigSchema[s][l], At(merged[s], l))

Parsed(merged) ==
    [s \in Sections |-> [l \in Leaves(s) |-> Stored(ConfigSchema[s][l], At(merged[s], l))]]

(* What YAML and the environment give: a section that is a mapping maps    *)
(* leaves, numbers are numbers, and a variable is a string, which is       *)
(* looked at as a list where its leaf is one.                              *)
IsFileSection(section) ==
    section.shape = "mapping" =>
        LET leaves == section.leaves IN
        /\ section = Mapping([l \in DOMAIN leaves |-> leaves[l]])
        /\ \A l \in DOMAIN leaves : leaves[l].is = "number" => leaves[l].value \in Int

IsFile(file) ==
    /\ file = File(file.status, file.sections)
    /\ \A s \in DOMAIN file.sections : IsFileSection(file.sections[s])

IsVariable(leaf, raw) ==
    leaf.type # "strings" =>
        /\ raw = Str(raw.number, raw.rest)
        /\ raw.number # <<>> => raw.number[1] \in Int

IsEnv(env) ==
    /\ DOMAIN env \subseteq UNION {{<<s, l>> : l \in Leaves(s)} : s \in Sections}
    /\ \A s \in Sections : \A l \in Leaves(s) :
           <<s, l>> \in DOMAIN env => IsVariable(ConfigSchema[s][l], env[<<s, l>>])

----------------------------------------------------------------------------
Urls == {"http://localhost:4318", "http://collector:4318"}

(* Variant: the bounds of the reports are not compared.                    *)
CrossSectionPoolOnly(cfg) ==
    /\ cfg.otel.exporter = Text("otlp") => cfg.otel.endpoint.rest \in Urls
    /\ cfg.db.max_conns.value >= cfg.db.min_conns.value

ValidCrossSection(cfg) ==
    /\ cfg.otel.exporter = Text("otlp") => cfg.otel.endpoint.rest \in Urls
    /\ cfg.db.max_conns.value >= cfg.db.min_conns.value
    /\ cfg.reporting.enabled.value =>
           LET default == cfg.reporting.default_top_machines.value
               max == cfg.reporting.max_top_machines.value
           IN 1000 <= default /\ default <= max /\ max <= 100000

ConfigError == [error |-> "ConfigError"]

LoadConfig(file, env) ==
    LET merged == Merged(file, env)
        cfg == Parsed(merged)
    IN IF Readable(file) /\ Parses(merged) /\ ValidCrossSection(cfg) THEN cfg ELSE ConfigError
=============================================================================
