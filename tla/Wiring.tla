------------------------------- MODULE Wiring -------------------------------
(***************************************************************************)
(* What a server makes of its configuration: it loads it (Config), wires   *)
(* the features that are enabled, each with the sentinels of its errors    *)
(* (features.ts and the di.ts of each feature), and then answers requests  *)
(* one by one through the middleware and the error mapping (Errors).       *)
(*                                                                         *)
(* What a request meets in the database is a choice of the model: how      *)
(* requests interact there is the matter of Vending and Reads.  Here each  *)
(* is answered or refused with any of the errors its route can throw.      *)
(***************************************************************************)
EXTENDS Config, Errors

CONSTANTS
    Files,      \* the contents config.yaml may have
    Envs,       \* the environments the server may be started in
    Requests    \* the requests it may get

ASSUME FilesAssumption == \A f \in Files : IsFile(f)
ASSUME EnvsAssumption == \A e \in Envs : IsEnv(e)

VARIABLES
    file, env,
    phase,      \* "loading", "registering", "serving" or "exited"
    cfg,        \* the configuration once it is loaded
    next,       \* the feature that is registered next
    sentinels,  \* the entries of sentinel.ts, in the order of registration
    mounted,    \* the features whose routers are mounted
    request,    \* the last request
    result,     \* what its handler came to: NoError, or the chain of an error
    answer      \* the status it was answered with

vars == <<file, env, phase, cfg, next, sentinels, mounted, request, result, answer>>

Features == <<"catalog", "machines", "sales", "reporting">>

FeatureOf == [getProduct |-> "catalog", postProduct |-> "catalog",
              getMachine |-> "machines", postMachine |-> "machines",
              postBank |-> "machines", postPurchase |-> "sales", getSummary |-> "reporting"]

Routes == DOMAIN FeatureOf

(* A request: where it goes, the bytes of its body, and the leaderboard it *)
(* asks for.                                                               *)
Ask(route, size, top) == [route |-> route, size |-> size, top |-> top]

NoRequest == Ask("none", 0, 0)
NotHandled == <<Object("value", "none", "none")>>

Init ==
    /\ file \in Files /\ env \in Envs
    /\ phase = "loading" /\ cfg = ConfigError
    /\ next = 1 /\ sentinels = <<>> /\ mounted = {}
    /\ request = NoRequest /\ result = NotHandled /\ answer = 0

----------------------------------------------------------------------------
(* Startup. *)

(* Variant: the error is logged, and the startup goes on.                  *)
LoadAnyway ==
    /\ phase = "loading"
    /\ cfg' = LoadConfig(file, env)
    /\ phase' = IF cfg' = ConfigError THEN "serving" ELSE "registering"
    /\ UNCHANGED <<file, env, next, sentinels, mounted, request, result, answer>>

(* The first layer of the startup; its failure ends the process.           *)
Load ==
    /\ phase = "loading"
    /\ cfg' = LoadConfig(file, env)
    /\ phase' = IF cfg' = ConfigError THEN "exited" ELSE "registering"
    /\ UNCHANGED <<file, env, next, sentinels, mounted, request, result, answer>>

Sentinel(f, name) == Failure(name, f)
ToNotFound(f, name) == RegisterSentinel(Sentinel(f, name), ErrNotFound)
ToInvalidInput(f, name) == RegisterSentinel(Sentinel(f, name), ErrInvalidInput)
ToConflict(f, name) == RegisterSentinel(Sentinel(f, name), ErrConflict)

CatalogSentinels == <<
    ToNotFound("catalog", "ErrProductNotFound"),
    ToInvalidInput("catalog", "ErrInvalidID"),
    ToInvalidInput("catalog", "ErrInvalidProductName"),
    ToInvalidInput("catalog", "ErrInvalidPrice")>>

MachinesSentinels == <<
    ToNotFound("machines", "ErrMachineNotFound"),
    ToInvalidInput("machines", "ErrInvalidID"),
    ToInvalidInput("machines", "ErrInvalidMachineLabel"),
    ToInvalidInput("machines", "ErrUnsupportedCoin")>>

(* Variant: the errors that catalog and machines register already.         *)
SalesSentinelsShared == <<
    ToConflict("sales", "ErrOutOfStock"),
    ToInvalidInput("sales", "ErrInvalidID"),
    ToInvalidInput("sales", "ErrInsufficientPayment"),
    ToInvalidInput("sales", "ErrExactChangeRequired")>>

SalesSentinels == <<
    ToNotFound("sales", "ErrProductNotFound"),
    ToNotFound("sales", "ErrMachineNotFound"),
    ToConflict("sales", "ErrOutOfStock"),
    ToInvalidInput("sales", "ErrInvalidID"),
    ToInvalidInput("sales", "ErrUnsupportedCoin"),
    ToInvalidInput("sales", "ErrInsufficientPayment"),
    ToInvalidInput("sales", "ErrExactChangeRequired")>>

ReportingSentinels == <<ToInvalidInput("reporting", "ErrInvalidTopMachines")>>

SentinelsOf == [catalog |-> CatalogSentinels, machines |-> MachinesSentinels,
                sales |-> SalesSentinels, reporting |-> ReportingSentinels]

(* registerAll, one feature: one that is not enabled returns at once.      *)
Register ==
    LET f == Features[next] IN
    /\ phase = "registering" /\ next <= Len(Features)
    /\ \/ /\ cfg[f].enabled.value
          /\ sentinels' = sentinels \o SentinelsOf[f]
          /\ mounted' = mounted \cup {f}
       \/ /\ ~cfg[f].enabled.value
          /\ UNCHANGED <<sentinels, mounted>>
    /\ next' = next + 1
    /\ UNCHANGED <<file, env, phase, cfg, request, result, answer>>

Serve ==
    /\ phase = "registering" /\ next > Len(Features)
    /\ phase' = "serving"
    /\ UNCHANGED <<file, env, cfg, next, sentinels, mounted, request, result, answer>>

----------------------------------------------------------------------------
(* Requests. *)
BodyLimit == ParseBodyLimitBytes(cfg.http.body_limit)

(* bodyLimit: the declared size, and if it is within the limit or missing, *)
(* the measured one.                                                       *)
TooLarge(r) == BodyLimit > 0 /\ 1000 * r.size > BodyLimit

Bare(f, names) == {<<Sentinel(f, n)>> : n \in names}
Wrapped(f, name) == <<Failure("Error", f), Sentinel(f, name)>>

(* What each route refuses.  A body or a query that does not parse is      *)
(* answered with ErrInvalidInput by the handler itself, and an id by       *)
(* ErrInvalidID.                                                           *)
GetProductRefusals == Bare("catalog", {"ErrInvalidID", "ErrProductNotFound"})
PostProductRefusals == Bare("catalog", {"ErrInvalidProductName"}) \cup {<<ErrInvalidInput>>}
GetMachineRefusals == Bare("machines", {"ErrInvalidID", "ErrMachineNotFound"})
PostMachineRefusals ==
    Bare("machines", {"ErrInvalidMachineLabel"})
        \cup {Wrapped("machines", "ErrUnsupportedCoin"), <<ErrInvalidInput>>}
PostBankRefusals ==
    Bare("machines", {"ErrInvalidID", "ErrMachineNotFound"})
        \cup {Wrapped("machines", "ErrUnsupportedCoin"), <<ErrInvalidInput>>}
PostPurchaseRefusals ==
    Bare("sales", {"ErrInvalidID", "ErrProductNotFound", "ErrMachineNotFound",
                   "ErrOutOfStock", "ErrExactChangeRequired"})
        \cup {Wrapped("sales", "ErrUnsupportedCoin"),
              Wrapped("sales", "ErrInsufficientPayment"), <<ErrInvalidInput>>}
GetSummaryRefusals == {<<ErrInvalidInput>>}

Refusals == [getProduct |-> GetProductRefusals, postProduct |-> PostProductRefusals,
             getMachine |-> GetMachineRefusals, postMachine |-> PostMachineRefusals,
             postBank |-> PostBankRefusals, postPurchase |-> PostPurchaseRefusals,
             getSummary |-> GetSummaryRefusals]

DatabaseFails == <<Failure("Error", "drizzle"), Failure("PostgresError", "postgres")>>

(* The reporting usecase. *)
Leaderboard(top) == IF top <= 0 THEN cfg.reporting.default_top_machines.value \div 1000 ELSE top
TopRefused(r) ==
    r.route = "getSummary" /\ 1000 * Leaderboard(r.top) > cfg.reporting.max_top_machines.value

(* GET of a product that is not in the cache: SET ... EX takes a positive  *)
(* integer, and nothing else.                                              *)
TtlStorable == cfg.valkey.ttl.value > 0 /\ cfg.valkey.ttl.value % 1000 = 0
CacheRefuses == <<Failure("ReplyError", "valkey")>>

Results(r) ==
    IF TopRefused(r) THEN {<<Sentinel("reporting", "ErrInvalidTopMachines")>>}
    ELSE Refusals[r.route] \cup {DatabaseFails}
             \cup {IF r.route = "getProduct" /\ ~TtlStorable THEN CacheRefuses ELSE NoError}

Created == {"postProduct", "postMachine", "postPurchase"}

Handle(r) ==
    /\ phase = "serving" /\ request' = r
    /\ \/ /\ TooLarge(r)
          /\ result' = NotHandled /\ answer' = Recover(sentinels, BodyTooLargeError, "UNKNOWN")
       \/ /\ ~TooLarge(r)
          /\ ~(r.route \in Routes /\ FeatureOf[r.route] \in mounted)
          /\ result' = NotHandled
          /\ answer' = Recover(sentinels, <<Failure("NotFoundError", "elysia")>>, "NOT_FOUND")
       \/ /\ ~TooLarge(r)
          /\ r.route \in Routes /\ FeatureOf[r.route] \in mounted
          /\ result' \in Results(r)
          /\ answer' = IF result' = NoError /\ r.route \in Created THEN 201
                       ELSE HttpError(sentinels, result')
    /\ UNCHANGED <<file, env, phase, cfg, next, sentinels, mounted>>

Next == Load \/ Register \/ Serve \/ \E r \in Requests : Handle(r)

Spec == Init /\ [][Next]_vars

----------------------------------------------------------------------------
(***************************************************************************)
(* Properties.                                                             *)
(***************************************************************************)
FeatureNames == {Features[i] : i \in DOMAIN Features}

TypeOK ==
    /\ file \in Files /\ env \in Envs
    /\ phase \in {"loading", "registering", "serving", "exited"}
    /\ cfg = ConfigError <=> phase \in {"loading", "exited"}
    /\ cfg # ConfigError => DOMAIN cfg = Sections
    /\ next \in 1 .. Len(Features) + 1
    /\ mounted \subseteq FeatureNames
    /\ Len(sentinels) <= 16
    /\ request \in Requests \cup {NoRequest}
    /\ answer \in {0, 200, 201} \cup {400, 404, 409, 413, 500}

(* The file without what the environment sets. *)
WithoutSet(s) ==
    IF file.sections[s].shape # "mapping" THEN file.sections[s]
    ELSE Mapping([l \in {l \in DOMAIN file.sections[s].leaves : <<s, l>> \notin DOMAIN env} |->
                      file.sections[s].leaves[l]])

(* What the file says of a leaf that the environment sets makes no         *)
(* difference, be it another value, an invalid one, or one that breaks a   *)
(* rule between two leaves: the outcome is that of a file without it       *)
(* ("env wins over file", config.ts).                                      *)
EnvironmentWins ==
    phase \in {"registering", "exited"} =>
        cfg = LoadConfig(File(file.status, [s \in DOMAIN file.sections |-> WithoutSet(s)]), env)

(* A client that names no leaderboard is not refused for its size: the     *)
(* default of every configuration a server starts with is one that it      *)
(* accepts (validateCrossSection, and the reporting usecase).              *)
DefaultsAccepted ==
    request.top = 0 => result # <<Sentinel("reporting", "ErrInvalidTopMachines")>>

Meaning(object) ==
    CASE object.class = "AppError" -> StatusOf[object.name]
      [] object.class # "AppError" /\ object.owner \notin FeatureNames -> 500
      [] object.owner \in FeatureNames
             /\ object.name \in {"ErrProductNotFound", "ErrMachineNotFound"} -> 404
      [] object.owner \in FeatureNames /\ object.name = "ErrOutOfStock" -> 409
      [] OTHER -> 400

(* A refusal reaches the client with the status of what was refused, bare  *)
(* or wrapped, and whichever other features are enabled; a failure is a    *)
(* 500, and never passes for a refusal.                                    *)
RefusalsAnswered ==
    result \notin {NoError, NotHandled} => answer = Meaning(result[Len(result)])

(* A feature that is disabled leaves nothing behind: no route that answers *)
(* and no sentinel ("its providers, routes, and sentinel mappings are not  *)
(* registered at all", README.md:135).                                     *)
DisabledFeaturesAbsent ==
    phase = "serving" =>
        \A f \in {f \in FeatureNames : ~cfg[f].enabled.value} :
            /\ \A i \in DOMAIN sentinels : sentinels[i].sentinel.owner # f
            /\ request.route \in Routes /\ FeatureOf[request.route] = f => answer \in {404, 413}

(* Each feature answers, or is absent, as it is switched, whatever the     *)
(* others are.                                                             *)
FeaturesAsSwitched == RefusalsAnswered /\ DisabledFeaturesAbsent

(* A server that has started can serve a product that is not in the cache. *)
ColdReadsServed == result # CacheRefuses
=============================================================================
