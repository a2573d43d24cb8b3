# A verification project for zercle-bun-template

The service is a vending-machine backend on Bun: an HTTP server over PostgreSQL
and Valkey with four features (catalog, machines, sales, reporting), and a
migration runner. This directory holds TLA+ models of it, the TLC
configurations that check them, and theorems about them that TLAPS proves.

    tlc -workers 2 -config MCVendingRaces.cfg MCVending.tla
    tlapm VendingProofs.tla

Paths below are relative to the repository; `features/...` stands for
`src/features/...` and so on.

## 1. Inventory

| component | state it keeps | operations | interacts with |
|---|---|---|---|
| sales (`features/sales`) | rows of `sales_purchases`; writes the stock of products and the bank of machines, which it reaches through its own table references | `POST /purchases` | catalog and machines, only through the database |
| machines (`features/machines`) | rows of `machines`, with the coin bank as JSON | create, get, list, `POST /machines/:id/bank` (restock) | sales, through the row |
| catalog (`features/catalog`) | rows of `catalog_products`; cached products in Valkey | create, get (cached), list | sales, through the row; cache-aside store |
| cache-aside store (`infrastructure/messaging/cache-aside.ts`) | `inFlight`: one loader promise per key; entries in Valkey with a ttl | `get`, `del` (which nobody calls) | Valkey client, the loader |
| Valkey client (`infrastructure/messaging/valkey.ts`) | one connection, its queue of unanswered commands | connect, PING checker | Valkey |
| migration runner (`migrate.ts`) | `schema_migrations`, the schema | `up`, `down`, `status`, `help` | the database, other runners |
| reporting (`features/reporting`) | none | summary: two SELECTs | the tables of the other three |
| database (`infrastructure/db`) | a pool of `db.max_conns` connections | connect, end, checker | everything above |
| lifecycle (`app`, `infrastructure/server/application.ts`) | container, server, the `shuttingDown` flag | build, start, stop | everything |
| http server, probes (`infrastructure/server/http.ts`, `telemetry/health.ts`) | lists of checkers | `/healthz`, `/readyz`, `/metrics` | checkers |
| errors (`shared/errors`) | a list of sentinels, filled at startup | `httpError` | every handler |
| configuration (`infrastructure/config`) | none after loading | defaults, file, environment, validation | startup; every value reaches a feature or a client |
| middleware, logging, metrics, tracing | request-local | one hook each | every request |

What makes each correct:

* **sales, machines.** A unit is sold once. A purchase takes effect completely
  or not at all, and its answer says which. Change is exact, in coins the
  machine has. No update of a bank is lost. Nobody waits for ever.
* **catalog, cache, Valkey.** One load per miss, also when replies come late.
  Answers do not go back in time. A failure reaches everyone who waits and
  blocks nobody.
* **migrations.** The journal and the schema agree, versions are applied in
  order, a successful `up` leaves nothing pending, whatever runs at once.
* **reporting.** Totals and leaderboard describe one database.
* **lifecycle, probes.** Shutdown ends, starts once, and closes nothing that
  is in use. A probe answers in time, truthfully.
* **errors, configuration.** A refusal keeps its status through every wrapping
  and whichever features are enabled, and a failure never passes for one. What
  the environment sets hides what the file says, be that valid or not. A server
  that starts can serve with what it was given.

What is hard in it: the requests interleave at every `await`; a purchase
*decides before its transaction begins* and takes no lock on the machine; a
commit whose acknowledgement is lost is answered 500; the cache is never told
of a sale, nor one server of what another one caches; two migration runners
know nothing of each other; each feature has errors of its own, by the names the
others use, and none knows who else is enabled. `hazards` in
PROJECT.json lists each such point at its line with the properties that watch
it.

## 2. Plan

Done, in this order:

1. `Coins` (coins, change, the purchase decision), `Till`.
2. `Vending` (purchases and restocks over the database), `Shop` (what they
   promise), `VendingAsShop` (when the promise is kept).
3. `ProductCache` (cached reads on the ordered connections of one server or two).
4. `Migrate` (concurrent migration runners, every command).
5. `Health` (the probes and their timer), composed into `Lifecycle` (startup,
   signals, drain and closes, over requests and probes under way).
6. `Reads` (pages of products and machines while both are created, and the
   summary of reporting).
7. `Config` and `Errors` (the loading of a configuration, the status of an
   error), composed into `Wiring` (a server from its configuration to its
   answers).
8. The proofs: `CoinsProofs`, `TillProofs`, `VendingProofs` (with the refinement
   of `Shop`), `ProductCacheProofs`, `MigrateProofs`, `LifecycleProofs`,
   `ReadsProofs`, `WiringProofs`.

Every invariant, every action property and the refinement that a passing run
checks is now a theorem as well. What is left is liveness, which stays with
TLC (section 5 says why), and statements that no run makes yet: that two servers
over one Valkey never show a stock that no moment had, and that a purchase
answered 500 is on record only if its commit was reached.

## 3. Modules

**Coins** translates `features/sales/domain/coins.ts` and `purchase.ts`, and
`addCoins` of `features/machines/domain/machine.ts`. A list of coins and a bank
are both functions from a denomination to a count: the code never looks at the
order of coins, and reads missing keys as 0. One face value, 1, stands for all
positive integers that are not denominations. The loop of `makeChange` has five
rounds whatever its input and is written out, so that it can be reasoned about
without recursion.

**Till** is one machine that serves one customer at a time. `PayOut` is a
purchase as far as the bank goes (`GetMachineBank` and `ReplaceBank` of Vending
in one), `Restock` adds a coin. Its properties compare `makeChange` with an
enumeration of all ways to pay.

**Vending** has a step per `await` of `SalesUsecase.purchase`,
`DrizzleSalesRepository.commitPurchase`, `MachineUsecase.restockBank` and
`DrizzleMachineRepository.restockBank`:

| state of a request | code |
|---|---|
| `idle` to the first read | handler: body, contract, coins, before any read (`Arrive`) |
| `getProduct`, `getMachineBank` | the two reads outside of the transaction; the second decides the purchase |
| `beginSale` | `db.transaction` waits for a connection |
| `lockProduct`, `decrementStock`, `replaceBank`, `insertSale`, `commitSale` | the statements of `commitPurchase` and its COMMIT |
| `beginRestock`, `lockMachine`, `writeBank`, `commitRestock`, `reread` | the restock, and the read after it |

`stock`, `bank`, `sales` are the committed rows. The writes of an open
transaction are implied by where it is, and applied by its commit. This is
sound because whoever would touch a row written by an open transaction waits
for its lock (`ProductFree`, `MachineFree`), and plain reads see committed rows
(READ COMMITTED, the default, which the code does not change). `ConnectionFree`
is the pool. `Ahead` says whom a statement waits for: the holder of the row it
locks or writes, or, if it asks the pool (`PooledStatements`: everything that is
sent to the database and not to an open transaction), those who hold the
connections. A statement is executed when nobody is ahead (`Unhindered`). What
can go wrong: a failing statement (`StatementFails`), a commit
without acknowledgement, a crash of the server, a row deleted by hand (the
repository's 404 branches inside transactions are reachable only so; there are
no foreign keys). The variables of `ledger` are recorded for the properties and
read by no step of the code.

**Shop** says what a customer expects: a purchase and a restock happen at one
moment. **VendingAsShop** instantiates it with Vending's committed state. The
promise is kept when no two requests meet at a machine (`PrivateMachines`). That
is a condition of the theorem and nothing the code ensures; `vending_holdings`
shows what happens without it.

**ProductCache** is `CachedProductRepository.getById` over `CacheAside.get`, on
any number of server processes over one Valkey. `Deployments` says which readers
come to which server; `inFlight`, `pipe` and `replies` are per server. `pipe` and
`replies` are a Valkey connection: commands are executed and answered in order;
when the connection is lost, unanswered commands are executed again (ioredis
resends them, and `maxRetriesPerRequest: null` makes it never give up). Valkey
may answer any command with an error (`Execute`). A reader is `looking` (GET
sent), `waiting` (for another reader's promise), `loading`, `read` (SELECT
executed, row not yet here) or `storing` (SET sent). `Expire` covers the ttl,
eviction and a restart of Valkey. `Sell` is the only writer of stock and does
not touch the cache.

**Migrate** has a step per statement of `runUp`, `runDown` and `runStatus`, for
any set of processes; `Scenarios` says what each is asked for (also `help` and
an unknown command), which files the registered features have, and what is
applied already. `Versions`, `DownFiles` and `Ambiguous` are
`discoverMigrations`. A version's table stands for what its SQL creates. The
locks follow PostgreSQL: CREATE TABLE IF NOT EXISTS takes no lock on a table that
is there and waits for a transaction that is creating it; a CREATE INDEX locks
the table (`Indexed`: the sales migration has one); the primary key makes an
INSERT wait for an uncommitted INSERT or DELETE of its row. Where PostgreSQL
would raise an error after such a wait (a duplicate in `pg_type`, a table that
is gone) the model has `StatementFails`. An exited run may be started again
(`Rerun`).

**Health** is `/healthz` and `/readyz` over the health registry, as a component:
it has actions and no specification of its own. A dependency is up, down or
silent, and changes at any moment. `check` survives the answer of its probe, as
the code's promises do. `Liveness` is empty, because no register adds a liveness
checker. Settled promises are handled before timers, so the timer fires only
while a check is running.

**Lifecycle** extends Health by the server it belongs to, from `loadConfig` to
`process.exit`. The layers of `app.ts` and the feature registers are records:
what a layer resolves and throws without, what it looks up with `tryResolve` and
does without, what it registers. The last layer is `Application.start`, which is
followed by the installation of the signal handlers without an `await`. `Signal`
is the handler up to the first poll of `stopServer`; `DrainEnds`,
`DatabaseClosed`, `ValkeyClosed` and `TracerClosed` are what runs between the
awaits of `Application.stop`, and each signal has a stop of its own, so that the
guard `shuttingDown` is there to be tested. A request is in its handler or in a
transaction; a probe is racing its checks against its timer, and arrives, is
drained and is cut off like a request. Bun's `server.stop(false)` closes the
listener and leaves open connections alone, so a kept-alive connection
(`KeptAlive`) may bring a request during the drain and after it. `sql.end()`
lets open transactions and checks come to their end and rejects new statements;
`QUIT` is answered behind the PINGs before it (`Quiet`). A startup layer waits
for its dependency; a dependency that is silent lets a check, a transaction or a
close wait. The `if (!server) return` of the stop has no state in which it is
taken, because a signal before the start finds no handler. All features are
enabled; the switches are in Wiring.

**Reads** is what reads many rows while they change. `CreateProduct`,
`CreateMachine` and `InsertProduct`, `InsertMachine` are the two POSTs up to
their INSERT, and the INSERT itself: the time stamp is older than the row. A
walk is a client of `GET /products` or `GET /machines` that goes on by as many
rows as it got. A summary is the sequence of `Statements` of
`ReportingUsecase.summary`; each statement sees one state of the tables, and
`Purchases` and `Revenue` are the sums it selects. A sale
is one step here, which `ImplementsShop` justifies for sales that do not overlap
at one machine. What overlapping ones do to a bank is in Vending only: with it
`OverviewBalanced` would fail for the reason `vending_holdings` shows, and say
nothing of the summary.

**Config** translates `loadConfig` without state: the schema of every section as
a record of leaves (type, bounds, default), the bindings of the environment, the
merge, the parse and the cross-section rules. Numbers are counted in
thousandths, so that `"250ms"` and a sampling of 0.25 have a value; a string is
the number in front and the rest. The file may be absent, empty, unreadable, no
mapping, or have a section that is null. `IsFile` and `IsEnv` say what YAML and
the environment can give at all: any value in a file, strings in the environment.

**Errors** is `httpError` with the registry of sentinels, and the error hook of
the server. An error is the sequence of the objects of its cause chain.

**Wiring** composes both: a server loads its configuration, registers the
features that are enabled one after the other with their sentinels, and answers
requests. What a request meets is a choice of the model (`Results`: any refusal
of its route, each with the shape in which the code throws it, a failure of the
database, or none), because how requests interact is the matter of the other
modules; what the configuration decides (body limit, leaderboard, ttl, switches)
is not. Its routes (`FeatureOf`) leave out the two lists, which refuse nothing a
configuration decides and whose limits are in Reads.

The definitions marked as a *Variant* in the modules are not part of any
specification: each is a plausible slip in the definition that follows it, and
PROJECT.json names the property that finds it.

## 4. Runs

| run | instance | what it shows |
|---|---|---|
| `till` | banks up to (5:2, 10:5, 25:3, 50:2, 100:1), every multiple of 5 up to 310 | change is exact and minimal; a machine with one 5 never refuses wrongly |
| `till_greedy` (violation) | the same | a machine without a 5 may refuse 30 cents with 10+10+10 in it |
| `vending_races` | 2 purchases, 2 restocks, 1 machine, 2 products, pool of 2 | stock, books and answers under every interleaving, failure and crash; nobody waits in a circle |
| `vending_holdings` (violation) | 2 purchases, 1 machine | one quarter is paid out twice |
| `vending_as_shop` | 3 requests at 3 machines, shared products, pool of 2; a product, the machine of a purchase and the machine of a restock may be deleted | refinement of Shop, so that an aborted transaction leaves nothing; refusals stay right; everything is answered |
| `product_cache` | 3 readers at one server, or 2 at one each; 1 product, stock 2, one lost connection | single flight and monotonic reads of a lone server; exact cold reads, an answer for everyone and a cache that comes to agree, also with two |
| `lifecycle` | 2 requests and a probe, one of each over a kept-alive connection; signals at any time; 2 dependencies that come, go and fall silent | the layers' order, who is cut off, the order of the closes, truthful readiness; probes are answered, shutdown ends |
| `reads` | 2 products and 2 machines, one more of each created, 1 client that walks or asks for a summary, limits and leaderboards below and above the maximum | pages lose nothing; totals are of one state; the leaderboard is not behind |
| `migrate` | 7 scenarios of 3 runs over 3 versions | journal, order, completeness, termination; no change that no command asks for |
| `migrate_overlap` (violation) | 2 ups, 1 down | a row without its table |
| `wiring` | 18 files, 96 environments, 11 requests | what wins, what starts, what is registered, with which status every refusal is answered |
| `wiring_ttl` (violation) | the same | a server that is ready and fails every read of a product |

Why the bounds are enough. The till's bank allows every way in which small
coins replace a larger one (5+10+10 for 25, 5x10 for 50, 2x25 for 50, and so
on); larger banks repeat them. In `vending_races` the two purchases compete for
the last unit of one product and share the other, and change of 30 cents uses
the only quarter; two restocks compete with each other and with them. In
`vending_as_shop` three requests share a pool of two: two that hold a connection
and one that waits, which is where a statement that asks the pool from within a
transaction would wait for ever (two requests hold both connections). Its bodies
are few, because what they decide has been explored by `vending_races`.

Three readers are a loader, one that waits for it, and one whose reply is late;
a stock of two makes three different values to confuse. Two readers on two
servers are enough for one to overwrite the entry of the other with an older one.

The migrations have the repository's three versions. The scenarios are three
`up`, from nothing and after version 1; two `up` and a `status`; an `up` and a
`down` over a version that is no longer registered (0) and one without a down
file (2); two `down`; a `status` beside a `down`; and two files that claim one
version. Three runs are the fewest that break the journal. A bookkeeping table is
missing exactly in the scenarios with nothing applied.

In `lifecycle` a request may be answered, hang, or be cut off; one comes over a
kept-alive connection, so that it may come during the drain and after it, and
the other does not, so that both kinds meet in one behaviour. One probe suffices,
because probes share nothing but the dependencies; it takes both paths. Signals
are not counted, because a guarded handler drops all but the first.

In `reads` a clock of two values lets a row appear under a time stamp that is
older than this moment, and tie with the rows that are there, between whose ids
its own lies; the prices make revenue and number of purchases rank the machines
differently. The default page size lies above the maximum on purpose (loadConfig
does not compare them).

In `wiring` the files and environments hold each kind of value that the parsing
tells apart, and each pair of leaves of a cross-section rule from each side: a
default of the leaderboard from the environment against a maximum from the file,
and the other way round; a pool bound of either. The switches are written in the
ways that mean true and in the ways that do not. Each route meets every refusal
it can throw. Sizes in "G" are left out, because TLC does not count that far.

`CHECK_DEADLOCK FALSE` is set where the system may stop: in the Vending
configurations when all requests are done (that they get there is
`EveryRequestAnswered`), in `lifecycle` when the process has exited
(`ShutdownEnds`), in `reads` when there is nothing left to sell or to ask, and in
`wiring` when the configuration was refused and the process has exited.
No run uses symmetry.

`BankBalanced` excludes the machines in `overwritten`, where a sale replaced a
bank that had changed since it was read: that is the defect
`vending_holdings` shows, and the ledger tells exactly where it has struck.
`BankBacked` holds for these machines too; `BooksHold` is both.

### Fairness

`Vending`: weak fairness for the steps of each request. A row lock and a
connection are granted in turn by PostgreSQL and by the pool, no request can
take either for ever (there are finitely many requests, each goes through once),
and an `await` resumes. Arrivals, failures, crashes and deletions are not fair.

`ProductCache`: weak fairness for Valkey's execution of commands, the delivery
of replies, the loader's statement, and the expiry of each entry, because every
SET carries a ttl (with one that Valkey refuses nothing is stored at all). A
connection that is lost for ever (more than `MaxDrops` losses) is outside of the
liveness claim; the client would then wait without limit, which the hazard list
records.

`Lifecycle`: weak fairness for the deadline (time passes), for the steps of a
shutdown (polls go on; the exporter answers a close), for the end of a
transaction and for what a probe waits for (its timer, its settled checks). A
step that needs a dependency is not enabled while that one is silent, and a
dependency may be silent for ever. Nothing is assumed of handlers: they may hang.
`ShutdownEnds` is therefore stated for behaviours in which the dependencies are
not silent in the end; nothing in the code bounds a close, and the hazard list
says so. `ProbesAnswered` needs no such condition.

`Reads` and `Wiring` state no liveness and have no fairness.

`Migrate`: strong fairness for the steps of each run, because a lock may be
taken and released by others again and again; PostgreSQL's lock queue is first
come, first served. Failures and reruns are not fair.

### Disagreements between code and comments

1. `coins.ts:64-67` claims the greedy pass always finds change if there is any.
   That holds for unlimited coins. For a bank it needs a 5 cent coin
   (`NickelSuffices`).
2. `coins.ts:61-62` demands that a machine that cannot pay exactly refuses. A
   sale pays from a bank read before its transaction, and overwrites whatever
   others have written since: `commitPurchase` locks the product, not the
   machine. Two sales of different products pay out one coin twice; a restock
   between the read and the commit disappears.
3. `migrate.ts:101` promises a row per applied version. Two `up` and a `down`
   leave a row whose table was dropped. No lock is held across a run.
4. `config.ts:36` names "250ms" among the accepted durations and `config.ts:161`
   says how long the ttl keeps an entry valid. A ttl that is not a positive whole
   number of seconds is accepted at startup and refused by Valkey in every
   `SET ... EX`: the server reports itself ready and answers 500 for every product
   that is not in the cache.

## 5. Proofs

The theorems hold for every value of the constants that the named assumptions
allow: any number of requests, machines, products, readers, servers, runs,
probes and pages, any files and environments. Each invariant below was checked
by TLC on the instance of the run before it was proved. The assumptions are
those of the modules (`ASSUME`), which TLC evaluates in every run; a condition
that the code does not ensure is a hypothesis of the theorem that needs it, and
named there.

| module | theorems |
|---|---|
| `CoinsProofs` | `MakeChangeExact`, `PurchaseSound`, `ChangeIsFewest`, `NickelIsEnough` |
| `TillProofs` | `TillPaysExactly`, `TillPaysFewest`, `TillNickelSuffices` |
| `VendingProofs` | `TypeCorrect`, `StockIsConserved`, `BooksBalance`, `RestocksAdd`, `AnswersAreTruthful`, `NobodyWaitsInACircle`, `RefusalsStayRight`, `VendingImplementsShop`, `PrivateMachinesPayFromHoldings` |
| `ProductCacheProofs` | `CacheTypesHold`, `ColdReadsStayFresh`, `ReadsAreMonotonic`, `LoadsOnlyAfterRealMisses` |
| `MigrateProofs` | `MigrateTyped`, `JournalIsTheSchema`, `UpsLeaveNoGaps`, `UpsComplete`, `OnlyWhatWasAsked` |
| `LifecycleProofs` | `LifecycleTyped`, `LayersFind`, `DrainProtects`, `TransactionsEnd`, `ClosesAreInOrder`, `ReadyIsSound` |
| `ReadsProofs` | `ReadsTyped`, `WalksShowEverything`, `OverviewsBalance`, `LeaderboardsKeepUp` |
| `WiringProofs` | `WiringTyped`, `EnvironmentAlwaysWins`, `DefaultsAreAccepted`, `FeaturesAreAsSwitched` |

**CoinsProofs.** For every bank and amount, what `makeChange` pays is the amount,
no denomination is overdrawn, and change and rest make up the bank. The argument
goes round by round: a round takes at most what the bank has and at most what
fits, so what is owed stays nonnegative, and after five rounds the sum of what
was taken and what is owed is the amount. `ChangeIsFewest`: if the greedy pass
pays at all, nothing pays with fewer coins. `NickelIsEnough`: with one 5 in the
bank it refuses only what cannot be paid. Both compare the pass with an
arbitrary other choice, from the largest denomination down. The comment of
`coins.ts` claims the second without the 5.

**TillProofs** (`TillAssumption`) carries these to every payout of a till: its
invariant says that the last payout is `MakeChange` of the bank it was made from.

**VendingProofs** (`RequestsAssumption`, `SeedAssumption`, `PoolAssumption`:
finitely many requests, purchases and restocks disjoint, bodies within the
contract, positive prices, a pool of at least one). Four invariants, each on
the ones before.

* `StateInv`. `TypeCorrect` needs, beyond `TypeOK`, that a request that is under
  way has a body of its kind (`BodiesKnown`). `StockConserved` is not inductive
  by itself: a commit must find a unit to take and a request must not be on
  record already. Hence `SalesDone` (a sale on record belongs to a request that
  is done), `ProductHolders` (at most one transaction is past the lock of a
  product) and `UnitReserved` (a transaction past its decrement finds stock,
  committed, above 0). The lock is what makes the last one inductive: nobody
  else can commit a sale of this product meanwhile.
* `BooksInv`. What a restock will write is what the row holds plus its coins
  (`ComputedFromBank`), because at most one transaction is past the lock of a
  machine (`MachineHolders`). What a sale will write and the change it pays make
  up, together, the bank *it read* (the coins of the payment are not put into
  it). `DecisionKnown` says of this sum that it is the committed bank, as long as
  nobody has written that since the read, and that it never has a coin which was
  not put in. No lock keeps the bank as it was read, which is why `BankBalanced`
  excludes the machines in `overwritten`; `BankBacked` does not need to.
  `RestocksAdd` is a step property and follows from both.
* `AnswersInv`. A reply is given at the end (`RepliesAtEnd`), and what a purchase
  saw of the stock is never below what is there (`StockSeen`), because nothing
  adds stock. So a refusal decided on a stale read stays right.
* `NoCircularWait` needs no invariant: it follows from the points
  at which the code takes its locks. Requests wait in one order: for a connection,
  for a product, for a machine, for nothing. Whoever is ahead of a request that
  waits is past the point at which that one waits, so that of any requests the one
  furthest in this order waits for none of the others. Taking the locks in another
  order, or asking the pool from within a transaction, breaks it.
* `ShopInv`, under the hypothesis `PrivateMachines`. What a purchase has decided
  is what it would decide at its commit (`DecisionFits`): nobody else writes this
  bank, the price does not change, and the decrement has made sure of the unit.
  Then the commit is the sale of `Shop`, a restock's commit is its restock, and
  every other step leaves `Shop` alone, whether a statement fails, a connection
  breaks or an acknowledgement is lost.

`StateStep`, `BooksStep`, `AnswersStep` and `ShopStep` go through the actions,
each by a lemma; a step that commits nothing shares one lemma with all others
of its kind.

**ProductCacheProofs** (`StockAssumption`, `DeploymentsAssumption`,
`NullsAssumption`, `MaxDropsAssumption`).

* `CacheTyped`: replies answer the oldest commands of the pipe, each command is
  awaited by the request that sent it, and a reader has one command under way
  (`Orderly`); a loader that runs is in the map of its server, and everyone who
  waits there for its product waits for it (`Flights`).
* `Fresh`, for any number of servers: nothing that may still be shown of a
  product to a reader who began with nothing cached or in flight is above the
  stock at its beginning. It has to speak of stock, entry, loaded rows and
  replies on their way at once (`Below`), since each feeds the next.
* `InOrder`, for a lone server: what was shown, what is on its way (oldest
  first), what is stored and what is in stock never increase from left to right
  (`Falling`). It rests on the order of the connection and on single flight; with
  two servers it fails, as the hazard list says. `LateMisses`: if a miss is on
  its way while something is stored, the SET that stored it is answered behind
  that miss, so its loader is still in the map when the miss arrives. That is
  why nobody loads again.

**MigrateProofs** (`ScenariosAssumption`).

* `RunsInv`: an up that works has its lowest pending version as its target
  (`Roles`), and the journal is finite, so that a down finds a highest one.
* `JournalInv`, under the hypothesis `KeepApart` of each scenario: only ups, only
  downs, or one of each. An up that did not create its table finds it there
  (`UpsCreate`); an up and a down never work on the same version (`UpsAddNew`,
  `DownsTakeOld`); what a down found is still so, and only one has dropped a
  table (`DownsDrop`, `OneDropper`). The hypothesis is needed: `migrate_overlap`
  has two ups and a down.
* `UpsLeaveNoGaps`, under the hypothesis `FoundWithoutGaps` (no version is left
  out at the beginning): while nothing is reverted, whatever is not pending for
  an up is applied (`UpsCover`), and an up takes the lowest pending version.
  `UpsComplete` follows from `UpsCover` alone.
* `OnlyWhatWasAsked`: a run that has come to its transactions found every version
  claimed once, its command is `up` or `down`, and a down works on a version
  whose down file is there (`Permitted`). That is what the checks of
  `discoverMigrations` and `runDown` are for, and why `status`, `help`, an unknown
  command and files in conflict change nothing.

**LifecycleProofs** (`LifecycleAssumption`). `LifeInv` describes the stop that
runs: there is none or exactly one, whose place tells what is closed and what
has ended (`OneStop`, which holds only because of the guard `shuttingDown`);
layers built so far have registered their keys (`Booted`); who came early and in
time is not refused (`EarlyServed`); Valkey is closed after the last transaction
(`TransactionsOver`). `ProbesSound` speaks of each check that may still be
counted: a probe that was racing when the closing began has lost its connection,
and one that came later is rejected by the closed database.

**ReadsProofs** (`IdsAssumption`, `MoneyAssumption`, `BoundsAssumption`). The first
part is about sums over finite sets (`SumWithout`, `SumAfterUpdate`,
`SumAfterAdding`, `PartOfSum`, `SumOfTheRest`) and about ranks in an order
(`RanksDiffer`, `FewHaveLowRanks`, `RanksHaveNoGaps`, `ShortListsAreWhole`).
`TotalsKept`: stock and purchases make up what was put in, and so do coins and
revenue. `SummariesKept`: what the first statement found agrees with itself and
is not above what is sold now, as nothing sold is taken back. `WalksKept`: a row
that the walk has not shown ranks at or behind its offset; a row that appears
while it walks can only push others back.

**WiringProofs** (`FilesAssumption`, `EnvsAssumption`). `EnvironmentHides`: the merge
of a file with the environment does not depend on what the file says of a leaf
that the environment sets. `DefaultTopFits`: an accepted configuration has its
default leaderboard within the maximum. `EntriesMean` and `RefusalsAreRegistered`:
an entry of the registry maps a sentinel to the status its feature gave it, and
the features a server mounted have registered every refusal their routes can
throw. `FirstIsFound` and `RefusalMeans` follow the walk of `httpError` down the
chain to the first entry that matches; `FailureMeans`: a failure matches none.
`WiringInv` (`Loaded`, `Wired`, `Answered`) follows a server from its file to its
answers.

**Only model-checked.** `EveryRequestAnswered`, `EveryReadAnswered`, `CacheConverges`,
`RunsEnd`, `ShutdownEnds` and `ProbesAnswered` are liveness under fairness, which
rests on ENABLED and is out of the provers' reach. So is induction with an
operator as a parameter; where an argument needs a least or a largest element
(the lowest pending version, the first entry that matches, a subset on which a
sum goes wrong), it is taken as a minimum of a given set. The properties of the
four violation runs are refuted there; `JournalMatchesSchema` and
`PaidFromHoldings` among them hold under the hypotheses above.

## 6. Not modelled

* Cyclic cause chains (no code builds one; the walk visits each object once).
* The strings that are built from a configuration (`dbConnString`, `httpAddr`,
  `valkeyAddr`), and sizes in "G".
* Request ids, the access log, spans and CORS headers, `/metrics`, logging and
  the exporters: they change no state that requests share and no status.
* The life time of pooled connections, TLS, and the login at Valkey.
* `CacheAside.del`, which has no caller.
* What the migration runner prints, and how it finds its directory.
* The published contract, `index.ts`, test support and deployment files: no
  behaviour of the running service.
* The width of integer columns: a value that does not fit is a failing statement.
* Time, but for the clock of `Reads`: the cache's ttl is an expiry at any moment,
  the drain's deadline and the probe's timer are steps that happen some time.
