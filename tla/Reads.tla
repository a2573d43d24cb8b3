------------------------------- MODULE Reads -------------------------------
(***************************************************************************)
(* The reads that span many rows, while products and machines are created  *)
(* and products are sold: a client that walks through the pages of GET     *)
(* /products or GET /machines, and GET /reports/summary, which composes an *)
(* answer of two statements.  A sale is one step here, which VendingAsShop *)
(* justifies for sales that do not overlap at one machine; what overlapping *)
(* ones do to its bank is the matter of Vending.                           *)
(***************************************************************************)
EXTENDS Integers, FiniteSets, FiniteSetsExt

CONSTANTS
    Products, Machines,     \* ids
    Created,                \* the ones among them that are created meanwhile
    Clients,                \* clients that walk through pages or ask for a summary
    Price,                  \* the price of each product
    Stock,                  \* what each product is created with
    Coins,                  \* the cents each machine is created with
    Limits,                 \* the limits clients ask for; 0: none
    DefaultPageSize, MaxPageSize,
    Tops,                   \* the leaderboards clients ask for; 0: no length given
    DefaultTopMachines, MaxTopMachines,
    MaxTime                 \* bound on the clock

Ids == Products \cup Machines

(* Ids are numbers, because they are compared; reporting's bounds are those *)
(* that loadConfig checks, and the tables check prices and stocks.         *)
ASSUME IdsAssumption ==
    /\ Ids \subseteq Nat /\ IsFiniteSet(Ids)
    /\ Products \cap Machines = {} /\ Created \subseteq Ids
ASSUME MoneyAssumption == Price \in [Products -> Nat] /\ Stock \in Nat /\ Coins \in Nat
ASSUME BoundsAssumption ==
    /\ MaxTime \in Nat
    /\ Limits \cup Tops \subseteq Nat
    /\ {DefaultPageSize, MaxPageSize, MaxTopMachines} \subseteq Nat \ {0}
    /\ DefaultTopMachines \in 1 .. MaxTopMachines

VARIABLES
    clock,          \* the time of the server
    rows,           \* the products and machines that are in the tables
    createdAt, updatedAt, stock,
    bank,           \* the cents in each machine
    sold,           \* how many of each product each machine has sold
    creation,       \* where each POST /products and POST /machines is
    asks,           \* what each client asks for; none of them changes anything
    walk,           \* the limit, the offset and what was seen, of each client
    summary         \* the statement each summary is at, and what it has read

table == <<rows, createdAt, updatedAt, stock, bank, sold>>
vars == <<clock, table, creation, asks, walk, summary>>

NoOverview ==
    [products |-> 0, stock |-> 0, machines |-> 0, bank |-> 0, purchases |-> 0, revenue |-> 0]

Init ==
    /\ clock = 0
    /\ rows = Ids \ Created
    /\ createdAt = [i \in Ids |-> 0] /\ updatedAt = [i \in Ids |-> 0]
    /\ stock = [p \in Products |-> IF p \in Created THEN 0 ELSE Stock]
    /\ bank = [m \in Machines |-> IF m \in Created THEN 0 ELSE Coins]
    /\ sold = [m \in Machines |-> [p \in Products |-> 0]]
    /\ creation = [c \in Created |-> "idle"]
    /\ asks \in [Clients -> {"products", "machines", "summary"}]
    /\ walk = [w \in Clients |-> [at |-> "idle", limit |-> 0, offset |-> 0,
                                  expected |-> {}, seen |-> {}]]
    /\ summary = [s \in Clients |-> [at |-> 0, top |-> 0, overview |-> NoOverview,
                                     leaders |-> 0, purchases |-> 0, revenue |-> 0]]

Tick ==
    /\ clock < MaxTime /\ clock' = clock + 1
    /\ UNCHANGED <<table, creation, asks, walk, summary>>

----------------------------------------------------------------------------
(* POST /products, POST /machines, and a sale. *)

CreationAt(c, to) == creation' = [creation EXCEPT ![c] = to]

(* What is wrong with the body is refused before the row is stamped. *)
Stamp(c) ==
    /\ creation[c] = "idle"
    /\ \/ CreationAt(c, "BadRequest") /\ UNCHANGED <<createdAt, updatedAt>>
       \/ /\ CreationAt(c, "inserting")
          /\ createdAt' = [createdAt EXCEPT ![c] = clock]
          /\ updatedAt' = [updatedAt EXCEPT ![c] = clock]
    /\ UNCHANGED <<clock, rows, stock, bank, sold, asks, walk, summary>>

CreateProduct(c) == c \in Products /\ Stamp(c)
CreateMachine(c) == c \in Machines /\ Stamp(c)

(* The INSERT may fail, and its acknowledgement may be lost. *)
Inserted(c) ==
    \E answer \in {"Created", "Internal"} : CreationAt(c, answer) /\ rows' = rows \cup {c}
NotInserted(c) == CreationAt(c, "Internal") /\ UNCHANGED <<rows, stock, bank>>

(* The row appears under the time it was stamped with, however late that   *)
(* is.                                                                     *)
InsertProduct(c) ==
    /\ c \in Products /\ creation[c] = "inserting"
    /\ \/ NotInserted(c)
       \/ Inserted(c) /\ stock' = [stock EXCEPT ![c] = Stock] /\ UNCHANGED bank
    /\ UNCHANGED <<clock, createdAt, updatedAt, sold, asks, walk, summary>>

InsertMachine(c) ==
    /\ c \in Machines /\ creation[c] = "inserting"
    /\ \/ NotInserted(c)
       \/ Inserted(c) /\ bank' = [bank EXCEPT ![c] = Coins] /\ UNCHANGED stock
    /\ UNCHANGED <<clock, createdAt, updatedAt, sold, asks, walk, summary>>

Sell(m, p) ==
    /\ {m, p} \subseteq rows /\ stock[p] > 0
    /\ stock' = [stock EXCEPT ![p] = @ - 1]
    /\ bank' = [bank EXCEPT ![m] = @ + Price[p]]
    /\ updatedAt' = [updatedAt EXCEPT ![p] = clock, ![m] = clock]
    /\ sold' = [sold EXCEPT ![m][p] = @ + 1]
    /\ UNCHANGED <<clock, rows, createdAt, creation, asks, walk, summary>>

----------------------------------------------------------------------------
(* GET /products and GET /machines. *)

(* Variant: what changed last comes first.                                 *)
BeforeByUpdate(i, j) ==
    \/ updatedAt[i] > updatedAt[j]
    \/ updatedAt[i] = updatedAt[j] /\ i > j

(* ORDER BY created_at DESC, id DESC. *)
Before(i, j) ==
    \/ createdAt[i] > createdAt[j]
    \/ createdAt[i] = createdAt[j] /\ i > j

Page(listed, limit, offset) ==
    {i \in listed : Cardinality({j \in listed : Before(j, i)}) \in offset .. offset + limit - 1}

Limit(asked) ==
    LET limit == IF asked <= 0 THEN DefaultPageSize ELSE asked
    IN  IF limit > MaxPageSize THEN MaxPageSize ELSE limit

StartWalk(w, listed) ==
    /\ walk[w].at = "idle"
    /\ \E limit \in Limits :
           walk' = [walk EXCEPT ![w].at = "walking", ![w].limit = limit, ![w].expected = listed]
    /\ UNCHANGED <<clock, table, creation, asks, summary>>

(* The client goes on by as many rows as it got, until it gets none. *)
NextPage(w, listed) ==
    /\ walk[w].at = "walking"
    /\ LET page == Page(listed, Limit(walk[w].limit), walk[w].offset) IN
           walk' = [walk EXCEPT
               ![w].at = IF page = {} THEN "done" ELSE "walking",
               ![w].offset = @ + Cardinality(page),
               ![w].seen = @ \cup page]
    /\ UNCHANGED <<clock, table, creation, asks, summary>>

Walks(w, what, listed) == asks[w] = what /\ (StartWalk(w, listed) \/ NextPage(w, listed))

ListProducts(w) == Walks(w, "products", rows \cap Products)
ListMachines(w) == Walks(w, "machines", rows \cap Machines)

----------------------------------------------------------------------------
(* GET /reports/summary. *)

PurchasesAt(m) == SumFunctionOnSet(sold[m], Products)
RevenueAt(m) == SumFunctionOnSet([p \in Products |-> sold[m][p] * Price[p]], Products)

Purchases(machines) == SumFunctionOnSet([m \in machines |-> PurchasesAt(m)], machines)
Revenue(machines) == SumFunctionOnSet([m \in machines |-> RevenueAt(m)], machines)

(* ORDER BY revenue_cents DESC, purchase_count DESC, m.id *)
Leads(m, n) ==
    \/ RevenueAt(m) > RevenueAt(n)
    \/ RevenueAt(m) = RevenueAt(n) /\ PurchasesAt(m) > PurchasesAt(n)
    \/ RevenueAt(m) = RevenueAt(n) /\ PurchasesAt(m) = PurchasesAt(n) /\ m < n

(* An inner join: a machine without sales is not there. *)
Leaders(top) ==
    LET selling == {m \in Machines : PurchasesAt(m) > 0}
    IN  {m \in selling : Cardinality({n \in selling : Leads(n, m)}) < top}

(* Variant: the leaderboard is read before the totals.                     *)
StatementsSwapped == <<"top", "overview">>

Statements == <<"overview", "top">>

(* Variant: the default length is used unchecked, and one that is too      *)
(* large is only noticed.                                                  *)
AskUnchecked(s) ==
    /\ asks[s] = "summary" /\ summary[s].at = 0
    /\ \E asked \in Tops :
           summary' = [summary EXCEPT ![s].at = 1,
                           ![s].top = IF asked <= 0 THEN DefaultTopMachines ELSE asked]
    /\ UNCHANGED <<clock, table, creation, asks, walk>>

(* A length that is too large is refused before anything is read. *)
Ask(s) ==
    /\ asks[s] = "summary" /\ summary[s].at = 0
    /\ \E asked \in Tops :
           LET top == IF asked <= 0 THEN DefaultTopMachines ELSE asked IN
           \/ top > MaxTopMachines /\ summary' = [summary EXCEPT ![s].at = 3]
           \/ top <= MaxTopMachines /\ summary' = [summary EXCEPT ![s].at = 1, ![s].top = top]
    /\ UNCHANGED <<clock, table, creation, asks, walk>>

StatementIs(s, what) ==
    summary[s].at \in DOMAIN Statements /\ Statements[summary[s].at] = what

(* Variant: the catalog and the rest are totalled by a statement each.     *)
GetOverviewPiecewise(s) ==
    /\ StatementIs(s, "overview")
    /\ \/ /\ summary[s].overview = NoOverview
          /\ summary' = [summary EXCEPT
                 ![s].overview.products = Cardinality(rows \cap Products),
                 ![s].overview.stock = SumFunctionOnSet(stock, rows \cap Products)]
       \/ /\ summary[s].overview # NoOverview
          /\ summary' = [summary EXCEPT
                 ![s].at = @ + 1,
                 ![s].overview.machines = Cardinality(rows \cap Machines),
                 ![s].overview.bank = SumFunctionOnSet(bank, rows \cap Machines),
                 ![s].overview.purchases = Purchases(Machines),
                 ![s].overview.revenue = Revenue(Machines)]
    /\ UNCHANGED <<clock, table, creation, asks, walk>>

(* One statement with a subquery for each total. *)
GetOverview(s) ==
    /\ StatementIs(s, "overview")
    /\ summary' = [summary EXCEPT
           ![s].at = @ + 1,
           ![s].overview = [
               products  |-> Cardinality(rows \cap Products),
               stock     |-> SumFunctionOnSet(stock, rows \cap Products),
               machines  |-> Cardinality(rows \cap Machines),
               bank      |-> SumFunctionOnSet(bank, rows \cap Machines),
               purchases |-> Purchases(Machines),
               revenue   |-> Revenue(Machines)]]
    /\ UNCHANGED <<clock, table, creation, asks, walk>>

GetTopMachines(s) ==
    /\ StatementIs(s, "top")
    /\ LET leaders == Leaders(summary[s].top) IN
           summary' = [summary EXCEPT
               ![s].at = @ + 1,
               ![s].leaders = Cardinality(leaders),
               ![s].purchases = Purchases(leaders),
               ![s].revenue = Revenue(leaders)]
    /\ UNCHANGED <<clock, table, creation, asks, walk>>

Next ==
    \/ Tick
    \/ \E c \in Created :
           CreateProduct(c) \/ CreateMachine(c) \/ InsertProduct(c) \/ InsertMachine(c)
    \/ \E m \in Machines : \E p \in Products : Sell(m, p)
    \/ \E w \in Clients : ListProducts(w) \/ ListMachines(w)
    \/ \E s \in Clients : Ask(s) \/ GetOverview(s) \/ GetTopMachines(s)

Spec == Init /\ [][Next]_vars

----------------------------------------------------------------------------
(***************************************************************************)
(* Properties.                                                             *)
(***************************************************************************)
TypeOK ==
    /\ clock \in 0 .. MaxTime
    /\ rows \subseteq Ids
    /\ createdAt \in [Ids -> 0 .. clock] /\ updatedAt \in [Ids -> 0 .. clock]
    /\ stock \in [Products -> 0 .. Stock]
    /\ bank \in [Machines -> Nat]
    /\ sold \in [Machines -> [Products -> 0 .. Stock]]
    /\ creation \in [Created -> {"idle", "inserting", "Created", "BadRequest", "Internal"}]
    /\ \A w \in Clients :
          /\ walk[w].at \in {"idle", "walking", "done"} /\ walk[w].limit \in Limits \cup {0}
          /\ walk[w].offset \in Nat
          /\ walk[w].expected \subseteq rows /\ walk[w].seen \subseteq rows
    /\ \A s \in Clients :
          /\ summary[s].at \in 0 .. 3 /\ summary[s].top \in 0 .. MaxTopMachines
          /\ summary[s].overview \in [DOMAIN NoOverview -> Nat]
          /\ {summary[s].leaders, summary[s].purchases, summary[s].revenue} \subseteq Nat

(* A client that walks through the pages, with any limit, to the first     *)
(* empty one sees every product, or machine, that was there when it began, *)
(* however many are created, also with an earlier time stamp, and sold     *)
(* meanwhile (repository.ts: "to keep order stable across pages").         *)
WalkMissesNothing ==
    \A w \in Clients : walk[w].at = "done" => walk[w].expected \subseteq walk[w].seen

Read(s, what) ==
    \E i \in DOMAIN Statements : Statements[i] = what /\ summary[s].at > i

(* The totals of a summary describe one state of the database, although    *)
(* sales go on: every unit of the products it counts is in its stock or    *)
(* among its purchases, and every cent of its revenue in its banks         *)
(* (getOverview: "a single statement over the three tables").              *)
OverviewBalanced ==
    \A s \in Clients :
        LET o == summary[s].overview IN
        Read(s, "overview") =>
            /\ o.stock + o.purchases = Stock * o.products
            /\ o.bank = Coins * o.machines + o.revenue

(* The leaderboard is read later than the totals and never behind them: if *)
(* it is long enough for all machines, its sales are at least those of the *)
(* totals (ReportingUsecase.summary).                                      *)
LeaderboardNotBehind ==
    \A s \in Clients :
        Read(s, "overview") /\ Read(s, "top") /\ summary[s].leaders < summary[s].top =>
            /\ summary[s].purchases >= summary[s].overview.purchases
            /\ summary[s].revenue >= summary[s].overview.revenue
=============================================================================
