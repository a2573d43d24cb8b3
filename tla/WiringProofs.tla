---------------------------- MODULE WiringProofs ----------------------------
(***************************************************************************)
(* What Wiring guarantees for every file, environment and request.         *)
(***************************************************************************)
EXTENDS Wiring, FiniteSetTheorems, WellFoundedInduction, TLAPS

----------------------------------------------------------------------------
(***************************************************************************)
(* The configuration.  A leaf that the environment sets is not looked up   *)
(* in the file.                                                            *)
(***************************************************************************)
SectionWithout(section, s, e) ==
    IF section.shape # "mapping" THEN section
    ELSE Mapping([l \in {l \in DOMAIN section.leaves : <<s, l>> \notin DOMAIN e} |->
                      section.leaves[l]])

FileWithout(f, e) ==
    File(f.status, [s \in DOMAIN f.sections |-> SectionWithout(f.sections[s], s, e)])

LEMMA EnvSetsLeaves ==
    ASSUME NEW e, IsEnv(e), NEW s \in Sections
    PROVE  \A l : l \in DOMAIN SetPaths(e, s) <=> <<s, l>> \in DOMAIN e
<1>1. \A l : <<s, l>> \in DOMAIN e => l \in Leaves(s)
  BY DEF IsEnv
<1> QED
  BY <1>1 DEF SetPaths

LEMMA SectionMerges ==
    ASSUME NEW e, IsEnv(e), NEW s \in Sections, NEW section, IsFileSection(section)
    PROVE  DeepMerge(section, SetPaths(e, s)) = DeepMerge(SectionWithout(section, s, e), SetPaths(e, s))
<1> DEFINE set == SetPaths(e, s)
           less == SectionWithout(section, s, e)
<1>1. CASE section.shape # "mapping"
  BY <1>1 DEF SectionWithout
<1>2. CASE section.shape = "mapping"
  <2> DEFINE rest == [l \in {l \in DOMAIN section.leaves : <<s, l>> \notin DOMAIN e} |->
                          section.leaves[l]]
  <2>1. less = Mapping(rest) /\ less.shape = "mapping" /\ less.leaves = rest
    BY <1>2 DEF SectionWithout, Mapping
  <2>2. \A l : l \in DOMAIN set <=> <<s, l>> \in DOMAIN e
    BY EnvSetsLeaves
  <2>3. CASE DOMAIN set = {}
    <3>1. rest = [l \in DOMAIN section.leaves |-> section.leaves[l]]
      BY <2>2, <2>3
    <3> QED
      BY <1>2, <2>1, <2>3, <3>1 DEF DeepMerge, IsFileSection
  <2>4. CASE DOMAIN set # {}
    <3>1. DOMAIN set \cup DOMAIN section.leaves = DOMAIN set \cup DOMAIN rest
      BY <2>2
    <3>2. \A l \in DOMAIN section.leaves : l \notin DOMAIN set => rest[l] = section.leaves[l]
      BY <2>2
    <3> HIDE DEF set, rest
    <3>3. Over(set, section.leaves) = Over(set, rest)
      BY <3>1, <3>2 DEF Over
    <3> QED
      BY <1>2, <2>1, <2>4, <3>3 DEF DeepMerge, set
  <2> QED
    BY <2>3, <2>4
<1> QED
  BY <1>1, <1>2

LEMMA EnvironmentHides ==
    ASSUME NEW f, IsFile(f), NEW e, IsEnv(e)
    PROVE  LoadConfig(f, e) = LoadConfig(FileWithout(f, e), e)
<1> DEFINE g == FileWithout(f, e)
<1>1. /\ g.status = f.status /\ DOMAIN g.sections = DOMAIN f.sections
      /\ \A s \in DOMAIN f.sections : g.sections[s] = SectionWithout(f.sections[s], s, e)
  BY DEF FileWithout, File
<1> HIDE DEF g
<1>2. ASSUME NEW s \in Sections
      PROVE  DeepMerge(IF s \in DOMAIN f.sections THEN f.sections[s] ELSE Mapping(<<>>), SetPaths(e, s))
             = DeepMerge(IF s \in DOMAIN g.sections THEN g.sections[s] ELSE Mapping(<<>>), SetPaths(e, s))
  <2>1. CASE s \in DOMAIN f.sections
    BY <1>1, <2>1, SectionMerges DEF IsFile
  <2>2. CASE s \notin DOMAIN f.sections
    BY <1>1, <2>2
  <2> QED
    BY <2>1, <2>2
<1>3. Merged(f, e) = Merged(g, e)
  BY <1>2 DEF Merged
<1> QED
  BY <1>1, <1>3 DEF LoadConfig, Readable, g

----------------------------------------------------------------------------
(* What comes out is a configuration or a ConfigError, and never both.     *)
LEMMA LoadedOrNot ==
    ASSUME NEW f, NEW e
    PROVE  /\ LoadConfig(f, e) = ConfigError \/ LoadConfig(f, e) = Parsed(Merged(f, e))
           /\ LoadConfig(f, e) # ConfigError =>
                  Parses(Merged(f, e)) /\ ValidCrossSection(LoadConfig(f, e))
  BY DEF LoadConfig

LEMMA ParsedIsNoError ==
    ASSUME NEW merged
    PROVE  DOMAIN Parsed(merged) = Sections /\ Parsed(merged) # ConfigError
<1>1. DOMAIN Parsed(merged) = Sections
  BY DEF Parsed
<1>2. "app" \in Sections /\ "app" \notin DOMAIN ConfigError
  BY DEF Sections, ConfigSchema, ConfigError
<1> QED
  BY <1>1, <1>2

(* A leaf that is a number in the schema comes out as a number.            *)
LEMMA BindingIsNumber ==
    ASSUME NEW leaf, leaf.type = "int", NEW raw, IsVariable(leaf, raw)
    PROVE  LeafBinding(leaf, raw).is = "number" => LeafBinding(leaf, raw).value \in Int
<1>1. LeafBinding(leaf, raw) = ToNumber(raw)
  BY DEF LeafBinding
<1>2. raw.number # <<>> => raw.number[1] \in Int
  BY DEF IsVariable
<1>3. \/ ToNumber(raw) = Num(0)
      \/ raw.number # <<>> /\ ToNumber(raw) = Num(raw.number[1])
      \/ ToNumber(raw) = NaN
  <2> DEFINE numeric == raw.rest = "" /\ raw.number # <<>>
  <2>1. CASE raw = Empty
    <3>1. ~numeric
      BY <2>1 DEF Empty, Text, Str
    <3> QED
      BY <2>1, <3>1 DEF ToNumber
  <2>2. CASE raw # Empty /\ numeric
    BY <2>2 DEF ToNumber
  <2>3. CASE raw # Empty /\ ~numeric
    BY <2>3 DEF ToNumber
  <2> QED
    BY <2>1, <2>2, <2>3
<1> QED
  BY <1>1, <1>2, <1>3 DEF Num, NaN

LEMMA MergedIsNumber ==
    ASSUME NEW f, IsFile(f), NEW e, IsEnv(e), NEW s \in Sections, NEW l \in Leaves(s),
           ConfigSchema[s][l].type = "int", Merged(f, e)[s].shape = "mapping",
           At(Merged(f, e)[s], l).is = "number"
    PROVE  At(Merged(f, e)[s], l).value \in Int
<1> DEFINE base == IF s \in DOMAIN f.sections THEN f.sections[s] ELSE Mapping(<<>>)
           set == SetPaths(e, s)
           v == At(Merged(f, e)[s], l)
<1>1. Merged(f, e)[s] = DeepMerge(base, set)
  BY DEF Merged
<1>2. \A k \in DOMAIN <<>> : FALSE
  OBVIOUS
<1>3. base.shape = "mapping" /\ l \in DOMAIN base.leaves /\ base.leaves[l].is = "number" =>
          base.leaves[l].value \in Int
  <2>1. CASE s \in DOMAIN f.sections
    BY <2>1 DEF IsFile, IsFileSection
  <2>2. CASE s \notin DOMAIN f.sections
    BY <1>2, <2>2 DEF Mapping
  <2> QED
    BY <2>1, <2>2
<1>4. l \in DOMAIN set => LeafBinding(ConfigSchema[s][l], e[<<s, l>>]) = set[l] /\ <<s, l>> \in DOMAIN e
  BY DEF SetPaths
<1>5. l \in DOMAIN set /\ set[l].is = "number" => set[l].value \in Int
  BY <1>4, BindingIsNumber DEF IsEnv
<1> HIDE DEF base, set
<1>6. Missing.is = "undefined"
  BY DEF Missing
<1>7. \/ base.shape = "mapping" /\ l \in DOMAIN base.leaves /\ v = base.leaves[l]
      \/ l \in DOMAIN set /\ v = set[l]
      \/ v = Missing
  <2>1. CASE DOMAIN set = {}
    BY <1>1, <2>1 DEF DeepMerge, At
  <2>2. CASE DOMAIN set # {} /\ base.shape # "mapping"
    BY <1>1, <2>2 DEF DeepMerge, Mapping, At
  <2>3. CASE DOMAIN set # {} /\ base.shape = "mapping"
    BY <1>1, <2>3 DEF DeepMerge, Mapping, At, Over
  <2> QED
    BY <2>1, <2>2, <2>3
<1> QED
  BY <1>3, <1>5, <1>6, <1>7

LEMMA LoadedIsNumber ==
    ASSUME NEW f, IsFile(f), NEW e, IsEnv(e), NEW s \in Sections, NEW l \in Leaves(s),
           ConfigSchema[s][l].type = "int", ConfigSchema[s][l].default.value \in Int,
           LoadConfig(f, e) # ConfigError
    PROVE  LoadConfig(f, e)[s][l].value \in Int
<1> DEFINE v == At(Merged(f, e)[s], l)
           leaf == ConfigSchema[s][l]
<1>1. /\ LoadConfig(f, e)[s][l] = Stored(leaf, v)
      /\ Merged(f, e)[s].shape = "mapping" /\ Fits(leaf, v)
  BY LoadedOrNot DEF Parsed, Parses
<1>2. CASE v = Missing
  BY <1>1, <1>2 DEF Stored
<1>3. CASE v # Missing
  <2>1. v.is = "number"
    BY <1>1, <1>3 DEF Fits
  <2>2. v.value \in Int
    BY <1>1, <2>1, MergedIsNumber
  <2>3. Stored(leaf, v) = v
    BY <1>3 DEF Stored
  <2> QED
    BY <1>1, <2>2, <2>3
<1> QED
  BY <1>2, <1>3

(* A client that names no length gets a leaderboard it is allowed.         *)
LEMMA DefaultTopFits ==
    ASSUME NEW f, IsFile(f), NEW e, IsEnv(e), LoadConfig(f, e) # ConfigError,
           LoadConfig(f, e).reporting.enabled.value
    PROVE  ~(1000 * (LoadConfig(f, e).reporting.default_top_machines.value \div 1000)
                 > LoadConfig(f, e).reporting.max_top_machines.value)
<1> DEFINE c == LoadConfig(f, e)
           default == c.reporting.default_top_machines.value
           max == c.reporting.max_top_machines.value
<1>1. /\ "reporting" \in Sections /\ ConfigSchema["reporting"] = ReportingSchema
      /\ {"default_top_machines", "max_top_machines"} \subseteq Leaves("reporting")
  BY DEF Sections, Leaves, ConfigSchema, ReportingSchema
<1>2. \A l \in {"default_top_machines", "max_top_machines"} :
          ReportingSchema[l].type = "int" /\ ReportingSchema[l].default.value \in Int
  BY DEF ReportingSchema, Count, Whole, Within, Leaf, Num
<1>3. default \in Int /\ max \in Int
  BY <1>1, <1>2, LoadedIsNumber
<1>4. default <= max
  BY LoadedOrNot DEF ValidCrossSection
<1> HIDE DEF default, max
<1>5. 1000 * (default \div 1000) <= default
  BY <1>3
<1>6. ~(1000 * (default \div 1000) > max)
  BY <1>3, <1>4, <1>5
<1> QED
  BY <1>6 DEF default, max

----------------------------------------------------------------------------
(***************************************************************************)
(* The errors.  Whatever features are registered, an entry says of its     *)
(* sentinel what the sentinel means.                                       *)
(***************************************************************************)
Entries(f) == {SentinelsOf[f][k] : k \in DOMAIN SentinelsOf[f]}

LEMMA FeatureNamesAre == FeatureNames = {"catalog", "machines", "sales", "reporting"}
<1>1. DOMAIN Features = 1 .. 4
  BY DEF Features
<1>2. 1 .. 4 = {1, 2, 3, 4}
  OBVIOUS
<1>3. /\ Features[1] = "catalog" /\ Features[2] = "machines"
      /\ Features[3] = "sales" /\ Features[4] = "reporting"
  BY DEF Features
<1> QED
  BY <1>1, <1>2, <1>3 DEF FeatureNames

LEMMA EntriesAre ==
    /\ \A f \in FeatureNames : SentinelsOf[f] \in Seq(Entries(f))
    /\ Len(SentinelsOf["catalog"]) = 4 /\ Len(SentinelsOf["machines"]) = 4
    /\ Len(SentinelsOf["sales"]) = 7 /\ Len(SentinelsOf["reporting"]) = 1
    /\ Entries("catalog") = {
           ToNotFound("catalog", "ErrProductNotFound"),
           ToInvalidInput("catalog", "ErrInvalidID"),
           ToInvalidInput("catalog", "ErrInvalidProductName"),
           ToInvalidInput("catalog", "ErrInvalidPrice")}
    /\ Entries("machines") = {
           ToNotFound("machines", "ErrMachineNotFound"),
           ToInvalidInput("machines", "ErrInvalidID"),
           ToInvalidInput("machines", "ErrInvalidMachineLabel"),
           ToInvalidInput("machines", "ErrUnsupportedCoin")}
    /\ Entries("sales") = {
           ToNotFound("sales", "ErrProductNotFound"),
           ToNotFound("sales", "ErrMachineNotFound"),
           ToConflict("sales", "ErrOutOfStock"),
           ToInvalidInput("sales", "ErrInvalidID"),
           ToInvalidInput("sales", "ErrUnsupportedCoin"),
           ToInvalidInput("sales", "ErrInsufficientPayment"),
           ToInvalidInput("sales", "ErrExactChangeRequired")}
    /\ Entries("reporting") = {ToInvalidInput("reporting", "ErrInvalidTopMachines")}
<1>1. /\ SentinelsOf["catalog"] = CatalogSentinels
      /\ SentinelsOf["machines"] = MachinesSentinels
      /\ SentinelsOf["sales"] = SalesSentinels
      /\ SentinelsOf["reporting"] = ReportingSentinels
  BY DEF SentinelsOf
<1>2. 1 .. 4 = {1, 2, 3, 4} /\ 1 .. 7 = {1, 2, 3, 4, 5, 6, 7} /\ 1 .. 1 = {1}
  OBVIOUS
<1>3. /\ DOMAIN CatalogSentinels = 1 .. 4 /\ DOMAIN MachinesSentinels = 1 .. 4
      /\ DOMAIN SalesSentinels = 1 .. 7 /\ DOMAIN ReportingSentinels = 1 .. 1
      /\ Len(CatalogSentinels) = 4 /\ Len(MachinesSentinels) = 4
      /\ Len(SalesSentinels) = 7 /\ Len(ReportingSentinels) = 1
  BY DEF CatalogSentinels, MachinesSentinels, SalesSentinels, ReportingSentinels
<1>4. \A f \in FeatureNames : SentinelsOf[f] \in Seq(Entries(f))
  <2>1. /\ CatalogSentinels \in Seq(Entries("catalog"))
        /\ MachinesSentinels \in Seq(Entries("machines"))
        /\ SalesSentinels \in Seq(Entries("sales"))
        /\ ReportingSentinels \in Seq(Entries("reporting"))
    BY <1>1, <1>2, <1>3
    DEF Entries, CatalogSentinels, MachinesSentinels, SalesSentinels, ReportingSentinels
  <2> QED
    BY <1>1, <2>1, FeatureNamesAre
<1>5. Entries("catalog") = {
           ToNotFound("catalog", "ErrProductNotFound"),
           ToInvalidInput("catalog", "ErrInvalidID"),
           ToInvalidInput("catalog", "ErrInvalidProductName"),
           ToInvalidInput("catalog", "ErrInvalidPrice")}
  BY <1>1, <1>2, <1>3 DEF Entries, CatalogSentinels
<1>6. Entries("machines") = {
           ToNotFound("machines", "ErrMachineNotFound"),
           ToInvalidInput("machines", "ErrInvalidID"),
           ToInvalidInput("machines", "ErrInvalidMachineLabel"),
           ToInvalidInput("machines", "ErrUnsupportedCoin")}
  BY <1>1, <1>2, <1>3 DEF Entries, MachinesSentinels
<1>7. Entries("sales") = {
           ToNotFound("sales", "ErrProductNotFound"),
           ToNotFound("sales", "ErrMachineNotFound"),
           ToConflict("sales", "ErrOutOfStock"),
           ToInvalidInput("sales", "ErrInvalidID"),
           ToInvalidInput("sales", "ErrUnsupportedCoin"),
           ToInvalidInput("sales", "ErrInsufficientPayment"),
           ToInvalidInput("sales", "ErrExactChangeRequired")}
  BY <1>1, <1>2, <1>3 DEF Entries, SalesSentinels
<1>8. Entries("reporting") = {ToInvalidInput("reporting", "ErrInvalidTopMachines")}
  BY <1>1, <1>2, <1>3 DEF Entries, ReportingSentinels
<1> QED
  BY <1>1, <1>3, <1>4, <1>5, <1>6, <1>7, <1>8

LEMMA EntriesMean ==
    ASSUME NEW f \in FeatureNames, NEW entry \in Entries(f)
    PROVE  /\ entry.sentinel = Sentinel(f, entry.sentinel.name)
           /\ entry.sentinel.name \notin {"Error", "NotFoundError", "PostgresError", "ReplyError"}
           /\ entry.sentinel.class = "Error" /\ entry.sentinel.owner = f
           /\ StatusOf[entry.app.name] = Meaning(entry.sentinel)
           /\ Meaning(entry.sentinel) \in {400, 404, 409}
<1> USE FeatureNamesAre
    DEF ToNotFound, ToInvalidInput, ToConflict, RegisterSentinel, Sentinel, Failure, Object
<1>1. CASE f = "catalog"
  <2> QED
    BY <1>1, EntriesAre DEF StatusOf, Meaning, ErrNotFound, ErrInvalidInput, ErrConflict, AppError
<1>2. CASE f = "machines"
  <2> QED
    BY <1>2, EntriesAre DEF StatusOf, Meaning, ErrNotFound, ErrInvalidInput, ErrConflict, AppError
<1>3. CASE f = "sales"
  <2> QED
    BY <1>3, EntriesAre DEF StatusOf, Meaning, ErrNotFound, ErrInvalidInput, ErrConflict, AppError
<1>4. CASE f = "reporting"
  <2> QED
    BY <1>4, EntriesAre DEF StatusOf, Meaning, ErrNotFound, ErrInvalidInput, ErrConflict, AppError
<1> QED
  BY <1>1, <1>2, <1>3, <1>4

(* Every refusal of a route ends in an object its own feature registers.   *)
RefusalChains(f) ==
    {<<entry.sentinel>> : entry \in Entries(f)}
        \cup {<<Failure("Error", f), entry.sentinel>> : entry \in Entries(f)}

LEMMA RefusalsAreRegistered ==
    ASSUME NEW route \in Routes
    PROVE  /\ FeatureOf[route] \in FeatureNames
           /\ FeatureOf[route] = "reporting" => Refusals[route] = {<<ErrInvalidInput>>}
           /\ Refusals[route] \subseteq RefusalChains(FeatureOf[route]) \cup {<<ErrInvalidInput>>}
<1>1. route \in {"getProduct", "postProduct", "getMachine", "postMachine", "postBank",
                 "postPurchase", "getSummary"}
  BY DEF Routes, FeatureOf
<1>2. FeatureOf[route] \in FeatureNames
  BY <1>1, FeatureNamesAre DEF FeatureOf
<1>3. /\ FeatureOf["getProduct"] = "catalog" /\ FeatureOf["postProduct"] = "catalog"
      /\ FeatureOf["getMachine"] = "machines" /\ FeatureOf["postMachine"] = "machines"
      /\ FeatureOf["postBank"] = "machines" /\ FeatureOf["postPurchase"] = "sales"
      /\ FeatureOf["getSummary"] = "reporting"
  BY DEF FeatureOf
<1>4. ASSUME NEW f, NEW name,
             \/ ToNotFound(f, name) \in Entries(f)
             \/ ToInvalidInput(f, name) \in Entries(f)
             \/ ToConflict(f, name) \in Entries(f)
      PROVE  <<Sentinel(f, name)>> \in RefusalChains(f) /\ Wrapped(f, name) \in RefusalChains(f)
  <2>1. PICK entry \in Entries(f) : entry.sentinel = Sentinel(f, name)
    BY <1>4 DEF ToNotFound, ToInvalidInput, ToConflict, RegisterSentinel
  <2> QED
    BY <2>1 DEF RefusalChains, Wrapped
<1>5. ASSUME NEW f, NEW names, \A name \in names : <<Sentinel(f, name)>> \in RefusalChains(f)
      PROVE  Bare(f, names) \subseteq RefusalChains(f)
  BY <1>5 DEF Bare
<1>6. Refusals["getProduct"] \subseteq RefusalChains("catalog")
  <2>1. Bare("catalog", {"ErrInvalidID", "ErrProductNotFound"})
           \subseteq RefusalChains("catalog")
    BY <1>4, <1>5, EntriesAre
  <2> QED
    BY <2>1 DEF Refusals, GetProductRefusals
<1>7. Refusals["postProduct"] \subseteq RefusalChains("catalog") \cup {<<ErrInvalidInput>>}
  <2>1. Bare("catalog", {"ErrInvalidProductName"})
           \subseteq RefusalChains("catalog")
    BY <1>4, <1>5, EntriesAre
  <2> QED
    BY <2>1 DEF Refusals, PostProductRefusals
<1>8. Refusals["getMachine"] \subseteq RefusalChains("machines")
  <2>1. Bare("machines", {"ErrInvalidID", "ErrMachineNotFound"})
           \subseteq RefusalChains("machines")
    BY <1>4, <1>5, EntriesAre
  <2> QED
    BY <2>1 DEF Refusals, GetMachineRefusals
<1>9. Refusals["postMachine"] \subseteq RefusalChains("machines") \cup {<<ErrInvalidInput>>}
  <2>1. Bare("machines", {"ErrInvalidMachineLabel"})
           \subseteq RefusalChains("machines")
    BY <1>4, <1>5, EntriesAre
  <2>2. Wrapped("machines", "ErrUnsupportedCoin") \in RefusalChains("machines")
    BY <1>4, EntriesAre
  <2> QED
    BY <2>1, <2>2 DEF Refusals, PostMachineRefusals
<1>10. Refusals["postBank"] \subseteq RefusalChains("machines") \cup {<<ErrInvalidInput>>}
  <2>1. Bare("machines", {"ErrInvalidID", "ErrMachineNotFound"})
           \subseteq RefusalChains("machines")
    BY <1>4, <1>5, EntriesAre
  <2>2. Wrapped("machines", "ErrUnsupportedCoin") \in RefusalChains("machines")
    BY <1>4, EntriesAre
  <2> QED
    BY <2>1, <2>2 DEF Refusals, PostBankRefusals
<1>11. Refusals["postPurchase"] \subseteq RefusalChains("sales") \cup {<<ErrInvalidInput>>}
  <2>1. Bare("sales", {"ErrInvalidID", "ErrProductNotFound", "ErrMachineNotFound", "ErrOutOfStock",
             "ErrExactChangeRequired"})
           \subseteq RefusalChains("sales")
    BY <1>4, <1>5, EntriesAre
  <2>2. Wrapped("sales", "ErrUnsupportedCoin") \in RefusalChains("sales")
    BY <1>4, EntriesAre
  <2>3. Wrapped("sales", "ErrInsufficientPayment") \in RefusalChains("sales")
    BY <1>4, EntriesAre
  <2> QED
    BY <2>1, <2>2, <2>3 DEF Refusals, PostPurchaseRefusals
<1>12. Refusals["getSummary"] = {<<ErrInvalidInput>>}
  BY DEF Refusals, GetSummaryRefusals
<1> QED
  BY <1>1, <1>2, <1>3, <1>6, <1>7, <1>8, <1>9, <1>10, <1>11, <1>12

LEMMA HasLeast ==
    ASSUME NEW S \in SUBSET Nat, S # {}
    PROVE  \E i \in S : \A j \in S : i <= j
<1> DEFINE R == OpToRel(<, Nat)
<1>1. IsWellFoundedOn(R, Nat)
  BY NatLessThanWellFounded
<1>2. \A i, j \in Nat : <<i, j>> \in R <=> i < j
  BY DEF OpToRel
<1> HIDE DEF R
<1>3. PICK i \in S : \A j \in S : <<j, i>> \notin R
  BY <1>1, WFMin
<1>4. \A j \in S : j \in Nat /\ i \in Nat /\ ~(j < i)
  BY <1>2, <1>3
<1>5. \A j \in S : i <= j
  BY <1>4
<1> QED
  BY <1>5

(* The registry: the entries of the features that are mounted.             *)
IsRegistry(registered, features) ==
    /\ registered \in Seq(UNION {Entries(f) : f \in features})
    /\ \A f \in features : \A entry \in Entries(f) :
           \E i \in DOMAIN registered : registered[i] = entry

LEMMA FirstIsFound ==
    ASSUME NEW features, NEW registered, IsRegistry(registered, features), NEW err
    PROVE  LET i == SentinelFor(registered, err)
           IN  \/ /\ i = NoSentinel
                  /\ \A k \in DOMAIN registered : ~OnChain(err, registered[k].sentinel)
               \/ /\ i # NoSentinel /\ i \in DOMAIN registered
                  /\ OnChain(err, registered[i].sentinel)
<1> DEFINE matches == {i \in DOMAIN registered : OnChain(err, registered[i].sentinel)}
<1>1. DOMAIN registered \subseteq Nat \ {0}
  BY DEF IsRegistry
<1>2. CASE matches = {}
  BY <1>2 DEF SentinelFor
<1>3. CASE matches # {}
  <2>1. matches \in SUBSET Nat
    BY <1>1
  <2>2. \E i \in matches : \A j \in matches : i <= j
    <3> HIDE DEF matches
    <3> QED
      BY <1>3, <2>1, HasLeast
  <2>3. SentinelFor(registered, err) = CHOOSE i \in matches : \A j \in matches : i <= j
    BY <1>3 DEF SentinelFor
  <2>4. SentinelFor(registered, err) \in matches
    <3> HIDE DEF matches
    <3> QED
      BY <2>2, <2>3
  <2> QED
    BY <1>1, <2>4 DEF NoSentinel
<1> QED
  BY <1>2, <1>3

(* What a feature that is mounted refuses is answered with what it means.  *)
LEMMA RefusalMeans ==
    ASSUME NEW features \in SUBSET FeatureNames,
           NEW registered, IsRegistry(registered, features),
           NEW f \in features, NEW err \in RefusalChains(f)
    PROVE  /\ HttpError(registered, err) = Meaning(err[Len(err)])
           /\ Meaning(err[Len(err)]) \in {400, 404, 409}
<1>1. PICK entry \in Entries(f) :
          err = <<entry.sentinel>> \/ err = <<Failure("Error", f), entry.sentinel>>
  BY DEF RefusalChains
<1> DEFINE object == entry.sentinel
           i == SentinelFor(registered, err)
<1>2. object.class = "Error" /\ object.name # "Error"
  BY EntriesMean
<1>3. Failure("Error", f).class = "Error" /\ Failure("Error", f).name = "Error"
  BY DEF Failure, Object
<1>4. /\ err # NoError /\ err[1].class = "Error" /\ err[Len(err)] = object
      /\ \A k \in DOMAIN err : err[k].class = "Error"
      /\ \A k \in DOMAIN err : err[k].name = "Error" \/ err[k] = object
      /\ DOMAIN err = 1 .. Len(err) /\ Len(err) \in Nat \ {0}
  <2>1. CASE err = <<object>>
    BY <1>2, <2>1 DEF NoError
  <2>2. CASE err = <<Failure("Error", f), object>>
    BY <1>2, <1>3, <2>2 DEF NoError
  <2> QED
    BY <1>1, <2>1, <2>2
<1>5. OnChain(err, object)
  BY <1>4 DEF OnChain
<1>6. PICK k \in DOMAIN registered : registered[k] = entry
  BY DEF IsRegistry
<1>7. i # NoSentinel /\ i \in DOMAIN registered /\ OnChain(err, registered[i].sentinel)
  BY <1>5, <1>6, FirstIsFound
<1>8. PICK g \in features : registered[i] \in Entries(g)
  BY <1>7 DEF IsRegistry
<1>9. registered[i].sentinel = object
  <2>1. registered[i].sentinel.name # "Error"
    BY <1>8, EntriesMean
  <2> QED
    BY <1>4, <1>7, <2>1 DEF OnChain
<1>10. HttpError(registered, err) = StatusOf[registered[i].app.name]
  BY <1>4, <1>7 DEF HttpError
<1>11. /\ StatusOf[registered[i].app.name] = Meaning(registered[i].sentinel)
       /\ Meaning(registered[i].sentinel) \in {400, 404, 409}
  BY <1>8, EntriesMean
<1> QED
  BY <1>4, <1>9, <1>10, <1>11

(* A failure is nobody's sentinel, and none of the errors that stand for a *)
(* timeout or an abort.                                                    *)
LEMMA FailureMeans ==
    ASSUME NEW features \in SUBSET FeatureNames,
           NEW registered, IsRegistry(registered, features),
           NEW err \in {DatabaseFails, CacheRefuses}
    PROVE  HttpError(registered, err) = 500 /\ Meaning(err[Len(err)]) = 500
<1>1. /\ err # NoError /\ err[1].class = "Error" /\ err[1].name \in {"Error", "ReplyError"}
      /\ \A k \in DOMAIN err : err[k].name \in {"Error", "PostgresError", "ReplyError"}
      /\ err[Len(err)].class = "Error" /\ err[Len(err)].name \in {"PostgresError", "ReplyError"}
      /\ err[Len(err)].owner \in {"postgres", "valkey"}
  <2>1. CASE err = DatabaseFails
    BY <2>1 DEF DatabaseFails, Failure, Object, NoError
  <2>2. CASE err = CacheRefuses
    BY <2>2 DEF CacheRefuses, Failure, Object, NoError
  <2> QED
    BY <2>1, <2>2
<1>2. SentinelFor(registered, err) = NoSentinel
  <2> SUFFICES ASSUME NEW k \in DOMAIN registered, OnChain(err, registered[k].sentinel)
               PROVE  FALSE
    BY FirstIsFound
  <2>1. PICK g \in features : registered[k] \in Entries(g)
    BY DEF IsRegistry
  <2>2. registered[k].sentinel.name \notin {"Error", "PostgresError", "ReplyError"}
    BY <2>1, EntriesMean
  <2> QED
    BY <1>1, <2>2 DEF OnChain
<1>3. HttpError(registered, err) = 500
  BY <1>1, <1>2 DEF HttpError
<1>4. Meaning(err[Len(err)]) = 500
  BY <1>1, FeatureNamesAre DEF Meaning
<1> QED
  BY <1>3, <1>4

----------------------------------------------------------------------------
(***************************************************************************)
(* The invariant.                                                          *)
(***************************************************************************)
Loaded ==
    /\ file \in Files /\ env \in Envs
    /\ phase \in {"loading", "registering", "serving", "exited"}
    /\ phase = "loading" => cfg = ConfigError /\ mounted = {}
    /\ phase # "loading" => cfg = LoadConfig(file, env)
    /\ cfg = ConfigError <=> phase \in {"loading", "exited"}

MostSentinels == <<0, 4, 8, 15, 16>>

(* The entries of the registry are those of the features that are mounted, *)
(* and these are enabled.                                                  *)
Wired ==
    /\ next \in 1 .. 5
    /\ mounted \subseteq FeatureNames
    /\ \A f \in mounted : cfg[f].enabled.value
    /\ IsRegistry(sentinels, mounted)
    /\ Len(sentinels) <= MostSentinels[next]

(* What was answered, and what the routes of the other features answer.    *)
Answered ==
    /\ request \in Requests \cup {NoRequest}
    /\ phase # "serving" => request = NoRequest
    /\ answer \in {0, 200, 201} \cup {400, 404, 409, 413, 500}
    /\ request.route \in Routes /\ FeatureOf[request.route] \notin mounted => answer \in {404, 413}
    /\ DefaultsAccepted /\ RefusalsAnswered

WiringInv == Loaded /\ Wired /\ Answered

LEMMA NoRequestHasNoRoute == NoRequest.route \notin Routes
  BY DEF NoRequest, Ask, Routes, FeatureOf

LEMMA NotHandledIsNoRefusal == NotHandled # <<Sentinel("reporting", "ErrInvalidTopMachines")>>
  BY DEF NotHandled, Sentinel, Failure, Object

LEMMA WiringInitially == Init => WiringInv
<1> SUFFICES ASSUME Init PROVE WiringInv
  OBVIOUS
<1> USE DEF Init
<1>1. Loaded
  BY DEF Loaded
<1>2. Wired
  <2>1. IsRegistry(sentinels, mounted)
    BY DEF IsRegistry
  <2>2. Len(sentinels) = 0 /\ MostSentinels[next] = 0
    BY DEF MostSentinels
  <2> QED
    BY <2>1, <2>2 DEF Wired
<1>3. Answered
  BY NoRequestHasNoRoute, NotHandledIsNoRefusal DEF Answered, DefaultsAccepted, RefusalsAnswered
<1> QED
  BY <1>1, <1>2, <1>3 DEF WiringInv

LEMMA LoadKeeps == WiringInv /\ Load => WiringInv'
<1> SUFFICES ASSUME WiringInv, Load PROVE WiringInv'
  OBVIOUS
<1> USE DEF WiringInv, Load
<1>1. Loaded'
  BY DEF Loaded
<1>2. Wired'
  BY DEF Loaded, Wired
<1>3. Answered'
  BY DEF Loaded, Answered, DefaultsAccepted, RefusalsAnswered
<1> QED
  BY <1>1, <1>2, <1>3

LEMMA RegistryGrows ==
    ASSUME NEW features \in SUBSET FeatureNames,
           NEW registered, IsRegistry(registered, features), NEW f \in FeatureNames
    PROVE  /\ IsRegistry(registered \o SentinelsOf[f], features \cup {f})
           /\ Len(registered \o SentinelsOf[f]) = Len(registered) + Len(SentinelsOf[f])
<1> DEFINE both == UNION {Entries(g) : g \in features \cup {f}}
           more == SentinelsOf[f]
           all == registered \o more
<1>1. registered \in Seq(both) /\ more \in Seq(both)
  BY EntriesAre DEF IsRegistry
<1>2. more \in Seq(Entries(f)) /\ Entries(f) = {more[k] : k \in DOMAIN more}
  BY EntriesAre DEF Entries
<1> HIDE DEF both, more
<1>3. /\ all \in Seq(both) /\ Len(all) = Len(registered) + Len(more)
      /\ \A i \in DOMAIN registered : i \in DOMAIN all /\ all[i] = registered[i]
      /\ \A k \in DOMAIN more : Len(registered) + k \in DOMAIN all /\ all[Len(registered) + k] = more[k]
  BY <1>1
<1>4. ASSUME NEW g \in features \cup {f}, NEW entry \in Entries(g)
      PROVE  \E i \in DOMAIN all : all[i] = entry
  <2>1. CASE g \in features
    BY <1>3, <2>1 DEF IsRegistry
  <2>2. CASE g = f
    BY <1>2, <1>3, <2>2
  <2> QED
    BY <2>1, <2>2
<1> QED
  BY <1>3, <1>4 DEF IsRegistry, both, more

LEMMA RegisterKeeps == WiringInv /\ Register => WiringInv'
<1> SUFFICES ASSUME WiringInv, Register PROVE WiringInv'
  OBVIOUS
<1> DEFINE f == Features[next]
<1>1. next \in 1 .. 4 /\ next' = next + 1 /\ f \in FeatureNames
  <2>1. Len(Features) = 4 /\ DOMAIN Features = 1 .. 4
    BY DEF Features
  <2> QED
    BY <2>1 DEF Register, WiringInv, Wired, FeatureNames
<1>2. Len(SentinelsOf[f]) + MostSentinels[next] = MostSentinels[next + 1]
      /\ MostSentinels[next] \in Nat /\ Len(SentinelsOf[f]) \in Nat
  <2>1. /\ MostSentinels[1] = 0 /\ MostSentinels[2] = 4 /\ MostSentinels[3] = 8
        /\ MostSentinels[4] = 15 /\ MostSentinels[5] = 16
    BY DEF MostSentinels
  <2>2. /\ Features[1] = "catalog" /\ Features[2] = "machines"
        /\ Features[3] = "sales" /\ Features[4] = "reporting"
    BY DEF Features
  <2>3. /\ Len(SentinelsOf["catalog"]) = 4 /\ Len(SentinelsOf["machines"]) = 4
        /\ Len(SentinelsOf["sales"]) = 7 /\ Len(SentinelsOf["reporting"]) = 1
    BY EntriesAre
  <2>4. CASE next = 1
    <3>1. Len(SentinelsOf[f]) = 4
      BY <2>2, <2>3, <2>4
    <3>2. MostSentinels[next] = 0 /\ MostSentinels[next + 1] = 4
      BY <2>1, <2>4
    <3> QED
      BY <3>1, <3>2
  <2>5. CASE next = 2
    <3>1. Len(SentinelsOf[f]) = 4
      BY <2>2, <2>3, <2>5
    <3>2. MostSentinels[next] = 4 /\ MostSentinels[next + 1] = 8
      BY <2>1, <2>5
    <3> QED
      BY <3>1, <3>2
  <2>6. CASE next = 3
    <3>1. Len(SentinelsOf[f]) = 7
      BY <2>2, <2>3, <2>6
    <3>2. MostSentinels[next] = 8 /\ MostSentinels[next + 1] = 15
      BY <2>1, <2>6
    <3> QED
      BY <3>1, <3>2
  <2>7. CASE next = 4
    <3>1. Len(SentinelsOf[f]) = 1
      BY <2>2, <2>3, <2>7
    <3>2. MostSentinels[next] = 15 /\ MostSentinels[next + 1] = 16
      BY <2>1, <2>7
    <3> QED
      BY <3>1, <3>2
  <2> QED
    BY <1>1, <2>4, <2>5, <2>6, <2>7
<1> HIDE DEF f
<1>3. Loaded' /\ phase = "registering"
  BY DEF Register, WiringInv, Loaded
<1>4. Answered'
  <2>1. request = NoRequest /\ UNCHANGED <<phase, request, result, answer>>
    BY <1>3 DEF Register, WiringInv, Answered
  <2> QED
    BY <2>1, NoRequestHasNoRoute
    DEF WiringInv, Answered, DefaultsAccepted, RefusalsAnswered
<1>5. Len(sentinels) \in Nat /\ Len(sentinels) <= MostSentinels[next]
  BY DEF WiringInv, Wired, IsRegistry
<1>6. Wired'
  <2>1. CASE /\ cfg[f].enabled.value
             /\ sentinels' = sentinels \o SentinelsOf[f]
             /\ mounted' = mounted \cup {f}
    <3>1. /\ IsRegistry(sentinels', mounted')
          /\ Len(sentinels') = Len(sentinels) + Len(SentinelsOf[f])
      BY <1>1, <2>1, RegistryGrows DEF WiringInv, Wired
    <3>2. Len(sentinels') <= MostSentinels[next']
      BY <1>1, <1>2, <1>5, <3>1
    <3>3. cfg' = cfg
      BY DEF Register
    <3> QED
      BY <1>1, <2>1, <3>1, <3>2, <3>3 DEF WiringInv, Wired
  <2>2. CASE UNCHANGED <<sentinels, mounted>>
    <3>1. Len(sentinels') <= MostSentinels[next']
      BY <1>1, <1>2, <1>5, <2>2
    <3>2. cfg' = cfg
      BY DEF Register
    <3> QED
      BY <1>1, <2>2, <3>1, <3>2 DEF WiringInv, Wired
  <2> QED
    BY <2>1, <2>2 DEF Register, f
<1> QED
  BY <1>3, <1>4, <1>6 DEF WiringInv

LEMMA ServeKeeps == WiringInv /\ Serve => WiringInv'
<1> SUFFICES ASSUME WiringInv, Serve PROVE WiringInv'
  OBVIOUS
<1> USE DEF WiringInv, Serve
<1>1. Loaded'
  BY DEF Loaded
<1>2. Wired'
  BY DEF Wired
<1>3. Answered'
  BY DEF Answered, DefaultsAccepted, RefusalsAnswered
<1> QED
  BY <1>1, <1>2, <1>3

(* What the handler of a mounted feature comes to.                         *)
LEMMA HandlerAnswers ==
    ASSUME WiringInv, phase = "serving", NEW r, r.route \in Routes,
           FeatureOf[r.route] \in mounted, NEW err \in Results(r)
    PROVE  /\ r.top = 0 => err # <<Sentinel("reporting", "ErrInvalidTopMachines")>>
           /\ err # NoError => HttpError(sentinels, err) = Meaning(err[Len(err)])
           /\ HttpError(sentinels, err) \in {200, 400, 404, 409, 500}
<1> DEFINE f == FeatureOf[r.route]
           tooMany == <<Sentinel("reporting", "ErrInvalidTopMachines")>>
<1>1. /\ mounted \in SUBSET FeatureNames /\ IsRegistry(sentinels, mounted)
      /\ cfg[f].enabled.value /\ cfg = LoadConfig(file, env) /\ cfg # ConfigError
      /\ IsFile(file) /\ IsEnv(env)
  BY FilesAssumption, EnvsAssumption DEF WiringInv, Loaded, Wired
<1>2. CASE TopRefused(r)
  <2>1. r.route = "getSummary" /\ f = "reporting" /\ err = tooMany
    BY <1>2 DEF TopRefused, Results, FeatureOf
  <2>2. tooMany \in RefusalChains("reporting")
    <3>1. ToInvalidInput("reporting", "ErrInvalidTopMachines") \in Entries("reporting")
      BY EntriesAre
    <3>2. PICK entry \in Entries("reporting") :
              entry.sentinel = Sentinel("reporting", "ErrInvalidTopMachines")
      BY <3>1 DEF ToInvalidInput, RegisterSentinel
    <3> QED
      BY <3>2 DEF RefusalChains
  <2>3. r.top # 0
    <3> SUFFICES ASSUME r.top = 0 PROVE FALSE
      OBVIOUS
    <3>1. Leaderboard(r.top) = cfg.reporting.default_top_machines.value \div 1000
      BY DEF Leaderboard
    <3> QED
      BY <1>1, <1>2, <2>1, <3>1, DefaultTopFits DEF TopRefused
  <2> QED
    BY <1>1, <2>1, <2>2, <2>3, RefusalMeans
<1>3. CASE ~TopRefused(r)
  <2>1. err \in Refusals[r.route] \cup {DatabaseFails, CacheRefuses, NoError}
    BY <1>3 DEF Results
  <2>2. CASE err \in RefusalChains(f) /\ f # "reporting"
    <3>1. err # tooMany
      <4>1. PICK entry \in Entries(f) :
                err = <<entry.sentinel>> \/ err = <<Failure("Error", f), entry.sentinel>>
        BY <2>2 DEF RefusalChains
      <4>2. entry.sentinel.owner = f
        BY <1>1, <4>1, EntriesMean
      <4>3. Sentinel("reporting", "ErrInvalidTopMachines").owner = "reporting"
        BY DEF Sentinel, Failure, Object
      <4> QED
        BY <2>2, <4>1, <4>2, <4>3
    <3> QED
      BY <1>1, <2>2, <3>1, RefusalMeans
  <2>3. CASE err = <<ErrInvalidInput>>
    <3>1. /\ err # NoError /\ err[Len(err)] = ErrInvalidInput /\ err[1] = ErrInvalidInput
          /\ ErrInvalidInput.class = "AppError" /\ ErrInvalidInput.name = "INVALID_INPUT"
      BY <2>3 DEF NoError, ErrInvalidInput, AppError, Object
    <3>2. HttpError(sentinels, err) = 400 /\ Meaning(ErrInvalidInput) = 400
      <4>1. StatusOf["INVALID_INPUT"] = 400
        BY DEF StatusOf
      <4>2. HttpError(sentinels, err) = StatusOf[err[1].name]
        BY <3>1 DEF HttpError
      <4>3. Meaning(ErrInvalidInput) = StatusOf[ErrInvalidInput.name]
        BY <3>1 DEF Meaning
      <4> QED
        BY <3>1, <4>1, <4>2, <4>3
    <3>3. err # tooMany
      BY <2>3, <3>1 DEF Sentinel, Failure, Object
    <3> QED
      BY <3>1, <3>2, <3>3
  <2>4. CASE err \in {DatabaseFails, CacheRefuses}
    <3>1. err # tooMany
      BY <2>4 DEF DatabaseFails, CacheRefuses, Sentinel, Failure, Object
    <3> QED
      BY <1>1, <2>4, <3>1, FailureMeans
  <2>5. CASE err = NoError
    BY <2>5 DEF NoError, HttpError
  <2> QED
    BY <2>1, <2>2, <2>3, <2>4, <2>5, RefusalsAreRegistered
<1> QED
  BY <1>2, <1>3

LEMMA HandleKeeps == ASSUME WiringInv, NEW r \in Requests, Handle(r) PROVE WiringInv'
<1>1. /\ phase = "serving" /\ request' = r
      /\ UNCHANGED <<file, env, phase, cfg, next, sentinels, mounted>>
  BY DEF Handle
<1>2. Loaded' /\ Wired'
  BY <1>1 DEF WiringInv, Loaded, Wired
<1>3. CASE /\ result' = NotHandled
           /\ answer' = Recover(sentinels, BodyTooLargeError, "UNKNOWN")
  <2>1. answer' = 413
    BY <1>3 DEF Recover
  <2> QED
    BY <1>1, <1>2, <1>3, <2>1, NotHandledIsNoRefusal
    DEF WiringInv, Answered, DefaultsAccepted, RefusalsAnswered
<1>4. CASE /\ result' = NotHandled
           /\ answer' = Recover(sentinels, <<Failure("NotFoundError", "elysia")>>, "NOT_FOUND")
  <2>1. <<Failure("NotFoundError", "elysia")>> # BodyTooLargeError
    BY DEF BodyTooLargeError, Failure, Object
  <2>2. HttpError(sentinels, <<ErrNotFound>>) = 404
    BY DEF HttpError, ErrNotFound, AppError, Object, StatusOf, NoError
  <2>3. answer' = 404
    BY <1>4, <2>1, <2>2 DEF Recover
  <2> QED
    BY <1>1, <1>2, <1>4, <2>3, NotHandledIsNoRefusal
    DEF WiringInv, Answered, DefaultsAccepted, RefusalsAnswered
<1>5. CASE /\ r.route \in Routes /\ FeatureOf[r.route] \in mounted
           /\ result' \in Results(r)
           /\ answer' = IF result' = NoError /\ r.route \in Created THEN 201
                        ELSE HttpError(sentinels, result')
  <2>1. /\ r.top = 0 => result' # <<Sentinel("reporting", "ErrInvalidTopMachines")>>
        /\ result' # NoError => HttpError(sentinels, result') = Meaning(result'[Len(result')])
        /\ HttpError(sentinels, result') \in {200, 400, 404, 409, 500}
    BY <1>1, <1>5, HandlerAnswers
  <2>2. DefaultsAccepted'
    BY <1>1, <2>1 DEF DefaultsAccepted
  <2>3. RefusalsAnswered'
    BY <1>5, <2>1 DEF RefusalsAnswered
  <2>4. answer' \in {200, 201, 400, 404, 409, 500}
    BY <1>5, <2>1
  <2> QED
    BY <1>1, <1>2, <1>5, <2>2, <2>3, <2>4 DEF WiringInv, Answered
<1> QED
  BY <1>3, <1>4, <1>5 DEF Handle

LEMMA WiringStep == WiringInv /\ [Next]_vars => WiringInv'
<1> SUFFICES ASSUME WiringInv, [Next]_vars PROVE WiringInv'
  OBVIOUS
<1>1. CASE UNCHANGED vars
  BY <1>1 DEF vars, WiringInv, Loaded, Wired, Answered, DefaultsAccepted, RefusalsAnswered
<1> QED
  BY <1>1, LoadKeeps, RegisterKeeps, ServeKeeps, HandleKeeps DEF Next

LEMMA WiringInvariant == Spec => []WiringInv
BY WiringInitially, WiringStep, PTL DEF Spec

(* Every variable stays in its range: what was loaded is a whole           *)
(* configuration or nothing, the registry has at most the 16 entries of    *)
(* all features, and a request is answered with one of eight statuses.     *)
THEOREM WiringTyped == Spec => []TypeOK
<1>1. ASSUME WiringInv PROVE TypeOK
  <2>1. cfg # ConfigError => DOMAIN cfg = Sections
    BY <1>1, LoadedOrNot, ParsedIsNoError DEF WiringInv, Loaded
  <2>2. next \in 1 .. Len(Features) + 1
    BY <1>1 DEF WiringInv, Wired, Features
  <2>3. Len(sentinels) <= 16
    <3>1. next \in {1, 2, 3, 4, 5} /\ Len(sentinels) \in Nat
      BY <1>1 DEF WiringInv, Wired, IsRegistry
    <3>2. MostSentinels[next] \in 0 .. 16
      BY <3>1 DEF MostSentinels
    <3> QED
      BY <1>1, <3>1, <3>2 DEF WiringInv, Wired
  <2> QED
    BY <1>1, <2>1, <2>2, <2>3 DEF WiringInv, Loaded, Wired, Answered, TypeOK
<1> QED
  BY <1>1, WiringInvariant, PTL

(* What the file says of a leaf that the environment sets makes no         *)
(* difference, for every file and environment (loadConfig: "env wins over  *)
(* file").                                                                 *)
THEOREM EnvironmentAlwaysWins == Spec => []EnvironmentWins
<1>1. ASSUME WiringInv PROVE EnvironmentWins
  <2>1. IsFile(file) /\ IsEnv(env)
    BY <1>1, FilesAssumption, EnvsAssumption DEF WiringInv, Loaded
  <2>2. FileWithout(file, env)
            = File(file.status, [s \in DOMAIN file.sections |-> WithoutSet(s)])
    BY DEF FileWithout, SectionWithout, WithoutSet
  <2> QED
    BY <1>1, <2>1, <2>2, EnvironmentHides DEF WiringInv, Loaded, EnvironmentWins
<1> QED
  BY <1>1, WiringInvariant, PTL

(* Whatever bounds a server was started with, it does not refuse the       *)
(* length it has chosen itself (validateCrossSection).                     *)
THEOREM DefaultsAreAccepted == Spec => []DefaultsAccepted
<1>1. WiringInv => DefaultsAccepted
  BY DEF WiringInv, Answered
<1> QED
  BY <1>1, WiringInvariant, PTL

(* Whichever features are enabled, bare or wrapped, a refusal keeps its    *)
(* status, and a failure is never taken for one (httpError).               *)
(* A feature that is disabled has no entry in the registry and no route    *)
(* that answers (registerAll).                                             *)
THEOREM FeaturesAreAsSwitched == Spec => []FeaturesAsSwitched
<1>1. ASSUME WiringInv PROVE DisabledFeaturesAbsent
  <2> SUFFICES ASSUME NEW f \in FeatureNames, f \notin mounted
               PROVE  /\ \A i \in DOMAIN sentinels : sentinels[i].sentinel.owner # f
                      /\ request.route \in Routes /\ FeatureOf[request.route] = f =>
                             answer \in {404, 413}
    BY <1>1 DEF DisabledFeaturesAbsent, WiringInv, Wired
  <2>1. ASSUME NEW i \in DOMAIN sentinels PROVE sentinels[i].sentinel.owner # f
    <3>1. PICK g \in mounted : sentinels[i] \in Entries(g)
      BY <1>1 DEF WiringInv, Wired, IsRegistry
    <3> QED
      BY <1>1, <3>1, EntriesMean DEF WiringInv, Wired
  <2> QED
    BY <1>1, <2>1 DEF WiringInv, Answered
<1>2. WiringInv => FeaturesAsSwitched
  BY <1>1 DEF WiringInv, Answered, FeaturesAsSwitched
<1> QED
  BY <1>2, WiringInvariant, PTL
=============================================================================
