------------------------------ MODULE Vending ------------------------------
(***************************************************************************)
(* Purchases and restocks, running concurrently against one database.      *)
(*                                                                         *)
(* A purchase (SalesUsecase.purchase) reads the product, reads the bank of *)
(* the machine, decides on what it read, and only then opens a transaction *)
(* (DrizzleSalesRepository.commitPurchase) that locks the product row,     *)
(* takes one unit, overwrites the machine's bank with the bank it computed *)
(* and inserts the sale.  A restock (MachineUsecase.restockBank) locks the *)
(* machine row, adds the coins, commits, and reads the machine again.      *)
(*                                                                         *)
(* A step is what happens up to the next await of a request: one statement *)
(* of the database, at its READ COMMITTED default, and the code that runs  *)
(* on its result.  The writes of a transaction stay in the request's view  *)
(* until its commit applies them; the rows it has locked follow from how   *)
(* far it has got.  Requests share nothing in the server but the pool of   *)
(* database connections.                                                   *)
(***************************************************************************)
EXTENDS Coins, FiniteSets

CONSTANTS
    Products, Machines,     \* the ids of products and machines
    Purchases, Restocks,    \* the requests: POST /purchases, POST /machines/:id/bank
    Bodies,                 \* the bodies each request may carry
    NoBody,                 \* a body the wire contract rejects
    Price,                  \* price_cents of each product, which no operation changes
    InitStock, InitBank,    \* what products and machines were created with
    MaxConns,               \* db.max_conns, the size of the connection pool
    Removable               \* rows somebody may delete by hand while the service runs

Requests == Purchases \cup Restocks

PurchaseBody == [machine : Machines, product : Products, coins : Inserted]
RestockBody == [machine : Machines, coins : Inserted]

ASSUME RequestsAssumption ==
    /\ IsFiniteSet(Requests)
    /\ Purchases \cap Restocks = {}
    /\ NoBody \notin PurchaseBody \cup RestockBody
    /\ \A p \in Purchases : Bodies[p] \subseteq PurchaseBody \cup {NoBody}
    /\ \A r \in Restocks : Bodies[r] \subseteq RestockBody \cup {NoBody}

(* CHECK (price_cents > 0) and CHECK (stock >= 0) of the products table.   *)
ASSUME SeedAssumption ==
    /\ Price \in [Products -> Nat \ {0}]
    /\ InitStock \in [Products -> Nat]
    /\ InitBank \in [Machines -> CoinBank]

ASSUME PoolAssumption == MaxConns \in Nat \ {0}

VARIABLES
    products, machines,     \* the rows that exist
    stock,                  \* committed stock of each product
    bank,                   \* committed coin_bank of each machine
    sales,                  \* the rows of sales_purchases
    pc,                     \* where each request is
    req,                    \* the body of each request
    view,                   \* what each request has read and computed
    reply                   \* the answer to each request

database == <<products, machines, stock, bank, sales>>
request == <<pc, req, view, reply>>

(* Recorded for the properties, never read by a step of the code.          *)
VARIABLES
    restocked,              \* coins the committed restocks put into each machine
    paid,                   \* coins the committed sales paid out of each machine
    version,                \* how many transactions have changed each machine's bank
    overwritten             \* machines where a sale replaced a bank it had not read

ledger == <<restocked, paid, version, overwritten>>

vars == <<database, request, ledger>>

----------------------------------------------------------------------------
(* The points where a request stands still, waiting for the database.      *)
SaleTxStates == {"lockProduct", "decrementStock", "replaceBank", "insertSale", "commitSale"}
RestockTxStates == {"lockMachine", "writeBank", "commitRestock"}
TxStates == SaleTxStates \cup RestockTxStates

PurchaseStates == {"getProduct", "getMachineBank", "beginSale"} \cup SaleTxStates
RestockStates == {"beginRestock", "reread"} \cup RestockTxStates
BusyStates == PurchaseStates \cup RestockStates

(* ... and those at which its transaction holds a row.                     *)
ProductHeld == {"decrementStock", "replaceBank", "insertSale", "commitSale"}
MachineHeld == {"insertSale", "commitSale", "writeBank", "commitRestock"}

HoldsProduct(r, product) == pc[r] \in ProductHeld /\ req[r].product = product
HoldsMachine(r, machine) == pc[r] \in MachineHeld /\ req[r].machine = machine

ProductFree(product) == \A r \in Purchases : ~HoldsProduct(r, product)
MachineFree(machine) == \A r \in Requests : ~HoldsMachine(r, machine)

(* A transaction keeps one connection from BEGIN to its end; any other     *)
(* statement needs one for itself.                                         *)
ConnectionFree == Cardinality({r \in Requests : pc[r] \in TxStates}) < MaxConns

(* Variant: the statements inside a sale's transaction ask the pool too.   *)
PooledStatementsAll ==
    {"getProduct", "getMachineBank", "beginSale", "beginRestock", "reread", "lockProduct"}

(* The statements that ask the pool for a connection, BEGIN among them.    *)
PooledStatements == {"getProduct", "getMachineBank", "beginSale", "beginRestock", "reread"}

(* The requests that r waits for, with the statement it has sent.          *)
Ahead(r) ==
    {q \in Requests :
        \/ pc[r] \in PooledStatements /\ ~ConnectionFree /\ pc[q] \in TxStates
        \/ pc[r] = "lockProduct" /\ HoldsProduct(q, req[r].product)
        \/ pc[r] \in {"replaceBank", "lockMachine"} /\ HoldsMachine(q, req[r].machine)}

Unhindered(r) == Ahead(r) = {}

Refusals == {"BadRequest", "UnsupportedCoin", "ProductNotFound", "MachineNotFound",
             "InsufficientPayment", "OutOfStock", "ExactChangeRequired"}
Replies == Refusals \cup {"None", "Sold", "Restocked", "Internal", "ConnectionLost"}

EmptyView == [price |-> 0, stock |-> 0, change |-> NoCoins, after |-> NoCoins, version |-> 0]

Sale == [request : Purchases, machine : Machines, product : Products, price : Nat,
         inserted : Nat, changeCents : Nat, change : CoinBank]

Init ==
    /\ products = Products /\ machines = Machines
    /\ stock = InitStock /\ bank = InitBank /\ sales = {}
    /\ pc = [r \in Requests |-> "idle"]
    /\ req = [r \in Requests |-> NoBody]
    /\ view = [r \in Requests |-> EmptyView]
    /\ reply = [r \in Requests |-> "None"]
    /\ restocked = [m \in Machines |-> NoCoins]
    /\ paid = [m \in Machines |-> NoCoins]
    /\ version = [m \in Machines |-> 0]
    /\ overwritten = {}

----------------------------------------------------------------------------
Goto(r, to) == pc' = [pc EXCEPT ![r] = to]

(* The request is over: its transaction, if it has one, is closed and the  *)
(* rows and the connection it held are free.                               *)
Finish(r, answer) ==
    /\ Goto(r, "done")
    /\ reply' = [reply EXCEPT ![r] = answer]
    /\ view' = [view EXCEPT ![r] = EmptyView]

Answer(r, answer) == Finish(r, answer) /\ UNCHANGED <<req, database, ledger>>

(* The next await, nothing else changing but what the request knows.       *)
Proceed(r, to) == Goto(r, to) /\ UNCHANGED <<req, reply, database, ledger>>

(* Both handlers parse the body, check it against the wire contract, and   *)
(* validate the coins before they touch the database.                      *)
Arrive(r, first) ==
    /\ pc[r] = "idle"
    /\ \E body \in Bodies[r] :
        /\ req' = [req EXCEPT ![r] = body]
        /\ UNCHANGED <<database, ledger>>
        /\ \/ body = NoBody /\ Finish(r, "BadRequest")
           \/ /\ body # NoBody /\ ~ValidateCoins(body.coins)
              /\ Finish(r, "UnsupportedCoin")
           \/ /\ body # NoBody /\ ValidateCoins(body.coins)
              /\ Goto(r, first) /\ UNCHANGED <<view, reply>>

----------------------------------------------------------------------------
(* POST /purchases. *)

ArrivePurchase(p) == Arrive(p, "getProduct")

GetProduct(p) ==
    LET product == req[p].product IN
    /\ pc[p] = "getProduct" /\ Unhindered(p)
    /\ \/ product \notin products /\ Answer(p, "ProductNotFound")
       \/ /\ product \in products
          /\ Proceed(p, "getMachineBank")
          /\ view' = [view EXCEPT ![p].price = Price[product], ![p].stock = stock[product]]

(* The bank is read, and with it the purchase is decided: no await lies    *)
(* between the two.                                                        *)
GetMachineBank(p) ==
    LET machine == req[p].machine IN
    /\ pc[p] = "getMachineBank" /\ Unhindered(p)
    /\ \/ machine \notin machines /\ Answer(p, "MachineNotFound")
       \/ /\ machine \in machines
          /\ \E decision \in {Purchase(view[p].price, view[p].stock, bank[machine], req[p].coins)} :
                \/ decision.outcome # "Sold" /\ Answer(p, decision.outcome)
                \/ /\ decision.outcome = "Sold"
                   /\ Proceed(p, "beginSale")
                   /\ view' = [view EXCEPT ![p].change = decision.change,
                                           ![p].after = decision.remaining,
                                           ![p].version = version[machine]]

BeginSale(p) ==
    /\ pc[p] = "beginSale" /\ Unhindered(p)
    /\ Proceed(p, "lockProduct") /\ UNCHANGED view

(* Variant: FOR UPDATE SKIP LOCKED, which finds no row when one is locked. *)
LockProductSkipLocked(p) ==
    LET product == req[p].product IN
    /\ pc[p] = "lockProduct"
    /\ \/ /\ product \notin products \/ ~ProductFree(product)
          /\ Answer(p, "ProductNotFound")
       \/ /\ product \in products /\ ProductFree(product)
          /\ Proceed(p, "decrementStock") /\ UNCHANGED view

(* Variant: the SELECT inside the transaction goes through the pool.       *)
LockProductThroughPool(p) ==
    LET product == req[p].product IN
    /\ pc[p] = "lockProduct" /\ ConnectionFree
    /\ \/ product \notin products /\ Answer(p, "ProductNotFound")
       \/ /\ product \in products /\ ProductFree(product)
          /\ Proceed(p, "decrementStock") /\ UNCHANGED view

(* SELECT ... FOR UPDATE waits for whoever holds the row.                  *)
LockProduct(p) ==
    LET product == req[p].product IN
    /\ pc[p] = "lockProduct"
    /\ \/ product \notin products /\ Answer(p, "ProductNotFound")
       \/ /\ product \in products /\ Unhindered(p)
          /\ Proceed(p, "decrementStock") /\ UNCHANGED view

(* Variant: no WHERE stock > 0.                                            *)
DecrementStockUnguarded(p) ==
    pc[p] = "decrementStock" /\ Proceed(p, "replaceBank") /\ UNCHANGED view

(* UPDATE ... SET stock = stock - 1 WHERE stock > 0.                       *)
DecrementStock(p) ==
    LET product == req[p].product IN
    /\ pc[p] = "decrementStock"
    /\ \/ stock[product] = 0 /\ Answer(p, "OutOfStock")
       \/ stock[product] > 0 /\ Proceed(p, "replaceBank") /\ UNCHANGED view

(* Variant: the stock is decremented outside of the transaction, and stays *)
(* decremented when the machine turns out to be missing.                   *)
ReplaceBankKeepsDecrement(p) ==
    LET machine == req[p].machine IN
    /\ pc[p] = "replaceBank"
    /\ \/ /\ machine \notin machines /\ Finish(p, "MachineNotFound")
          /\ stock' = [stock EXCEPT ![req[p].product] = @ - 1]
          /\ UNCHANGED <<products, machines, bank, sales, req, ledger>>
       \/ /\ machine \in machines /\ MachineFree(machine)
          /\ Proceed(p, "insertSale") /\ UNCHANGED view

(* UPDATE machines SET coin_bank = bankAfter takes the machine's row.      *)
ReplaceBank(p) ==
    LET machine == req[p].machine IN
    /\ pc[p] = "replaceBank"
    /\ \/ machine \notin machines /\ Answer(p, "MachineNotFound")
       \/ /\ machine \in machines /\ Unhindered(p)
          /\ Proceed(p, "insertSale") /\ UNCHANGED view

(* Variant: the transaction is not awaited before the purchase is answered. *)
InsertSaleNotAwaited(p) == pc[p] = "insertSale" /\ Answer(p, "Sold")

InsertSale(p) ==
    pc[p] = "insertSale" /\ Proceed(p, "commitSale") /\ UNCHANGED view

SaleRecord(p) ==
    [request |-> p, machine |-> req[p].machine, product |-> req[p].product,
     price |-> view[p].price, inserted |-> SumCoins(req[p].coins),
     changeCents |-> SumCoins(view[p].change), change |-> view[p].change]

(* Variant: the stock written is computed from the stock that was read.    *)
ApplySaleFromReadStock(p) ==
    LET machine == req[p].machine IN
    /\ stock' = [stock EXCEPT ![req[p].product] = view[p].stock - 1]
    /\ bank' = [bank EXCEPT ![machine] = view[p].after]
    /\ sales' = sales \cup {SaleRecord(p)}
    /\ paid' = [paid EXCEPT ![machine] = AddCoins(@, view[p].change)]
    /\ version' = [version EXCEPT ![machine] = @ + 1]
    /\ overwritten' = overwritten \cup
            {m \in {machine} : view[p].version # version[m]}
    /\ UNCHANGED <<products, machines, restocked, req>>

(* Variant: the inserted coins are added to the bank on top.               *)
ApplySaleKeepsPayment(p) ==
    LET machine == req[p].machine IN
    /\ stock' = [stock EXCEPT ![req[p].product] = @ - 1]
    /\ bank' = [bank EXCEPT ![machine] = AddCoins(view[p].after, req[p].coins)]
    /\ sales' = sales \cup {SaleRecord(p)}
    /\ paid' = [paid EXCEPT ![machine] = AddCoins(@, view[p].change)]
    /\ version' = [version EXCEPT ![machine] = @ + 1]
    /\ overwritten' = overwritten \cup
            {m \in {machine} : view[p].version # version[m]}
    /\ UNCHANGED <<products, machines, restocked, req>>

(* What the commit makes visible.                                          *)
ApplySale(p) ==
    LET machine == req[p].machine
        product == req[p].product
    IN
    /\ stock' = [stock EXCEPT ![product] = @ - 1]
    /\ bank' = [bank EXCEPT ![machine] = view[p].after]
    /\ sales' = sales \cup {SaleRecord(p)}
    /\ paid' = [paid EXCEPT ![machine] = AddCoins(@, view[p].change)]
    /\ version' = [version EXCEPT ![machine] = @ + 1]
    /\ overwritten' = overwritten \cup
            {m \in {machine} : view[p].version # version[m]}
    /\ UNCHANGED <<products, machines, restocked, req>>

CommitSale(p) == pc[p] = "commitSale" /\ Finish(p, "Sold") /\ ApplySale(p)

(* The commit happens but nobody hears of it: the database connection is   *)
(* lost and the handler answers 500, or the server dies meanwhile.         *)
CommitSaleUnacknowledged(p) ==
    /\ pc[p] = "commitSale"
    /\ \E answer \in {"Internal", "ConnectionLost"} : Finish(p, answer)
    /\ ApplySale(p)

----------------------------------------------------------------------------
(* POST /machines/:id/bank. *)

ArriveRestock(r) == Arrive(r, "beginRestock")

BeginRestock(r) ==
    /\ pc[r] = "beginRestock" /\ Unhindered(r)
    /\ Proceed(r, "lockMachine") /\ UNCHANGED view

(* Variant: SELECT without FOR UPDATE.                                     *)
LockMachineUnlocked(r) ==
    LET machine == req[r].machine IN
    /\ pc[r] = "lockMachine"
    /\ \/ machine \notin machines /\ Answer(r, "MachineNotFound")
       \/ /\ machine \in machines
          /\ Proceed(r, "writeBank")
          /\ view' = [view EXCEPT ![r].after = AddCoins(bank[machine], req[r].coins),
                                  ![r].version = version[machine]]

(* SELECT ... FOR UPDATE, and the new bank computed from the locked row.   *)
LockMachine(r) ==
    LET machine == req[r].machine IN
    /\ pc[r] = "lockMachine"
    /\ \/ machine \notin machines /\ Answer(r, "MachineNotFound")
       \/ /\ machine \in machines /\ Unhindered(r)
          /\ Proceed(r, "writeBank")
          /\ view' = [view EXCEPT ![r].after = AddCoins(bank[machine], req[r].coins),
                                  ![r].version = version[machine]]

WriteBank(r) ==
    pc[r] = "writeBank" /\ Proceed(r, "commitRestock") /\ UNCHANGED view

ApplyRestock(r) ==
    LET machine == req[r].machine IN
    /\ bank' = [bank EXCEPT ![machine] = view[r].after]
    /\ restocked' = [restocked EXCEPT ![machine] = AddCoins(@, req[r].coins)]
    /\ version' = [version EXCEPT ![machine] = @ + 1]
    /\ UNCHANGED <<products, machines, stock, sales, paid, overwritten, req>>

CommitRestock(r) ==
    /\ pc[r] = "commitRestock" /\ Goto(r, "reread")
    /\ ApplyRestock(r) /\ UNCHANGED <<view, reply>>

CommitRestockUnacknowledged(r) ==
    /\ pc[r] = "commitRestock"
    /\ \E answer \in {"Internal", "ConnectionLost"} : Finish(r, answer)
    /\ ApplyRestock(r)

(* The answer carries a bank read after the commit, outside of it.         *)
Reread(r) ==
    /\ pc[r] = "reread" /\ Unhindered(r)
    /\ \/ req[r].machine \notin machines /\ Answer(r, "MachineNotFound")
       \/ req[r].machine \in machines /\ Answer(r, "Restocked")

----------------------------------------------------------------------------
(* What can go wrong around the requests.                                  *)

(* A statement fails (lost connection, overflow of an integer column, ...):*)
(* the transaction is rolled back and the handler answers 500.             *)
StatementFails(r) == pc[r] \in BusyStates /\ Answer(r, "Internal")

(* The server dies and is started again: the database rolls back every     *)
(* open transaction, and the clients see their connection close.           *)
Crash ==
    LET busy == {r \in Requests : pc[r] \in BusyStates} IN
    /\ busy # {}
    /\ pc' = [r \in Requests |-> IF r \in busy THEN "done" ELSE pc[r]]
    /\ reply' = [r \in Requests |-> IF r \in busy THEN "ConnectionLost" ELSE reply[r]]
    /\ view' = [r \in Requests |-> IF r \in busy THEN EmptyView ELSE view[r]]
    /\ UNCHANGED <<req, database, ledger>>

(* No operation of the service deletes a row; DELETE by hand waits for the *)
(* row like any other writer.                                              *)
RemoveProduct(product) ==
    /\ product \in products \cap Removable /\ ProductFree(product)
    /\ products' = products \ {product}
    /\ UNCHANGED <<machines, stock, bank, sales, request, ledger>>

RemoveMachine(machine) ==
    /\ machine \in machines \cap Removable /\ MachineFree(machine)
    /\ machines' = machines \ {machine}
    /\ UNCHANGED <<products, stock, bank, sales, request, ledger>>

----------------------------------------------------------------------------
AdvancePurchase(p) ==
    \/ GetProduct(p) \/ GetMachineBank(p) \/ BeginSale(p) \/ LockProduct(p)
    \/ DecrementStock(p) \/ ReplaceBank(p) \/ InsertSale(p) \/ CommitSale(p)

AdvanceRestock(r) ==
    BeginRestock(r) \/ LockMachine(r) \/ WriteBank(r) \/ CommitRestock(r) \/ Reread(r)

Next ==
    \/ \E p \in Purchases :
           ArrivePurchase(p) \/ AdvancePurchase(p) \/ CommitSaleUnacknowledged(p)
    \/ \E r \in Restocks :
           ArriveRestock(r) \/ AdvanceRestock(r) \/ CommitRestockUnacknowledged(r)
    \/ \E r \in Requests : StatementFails(r)
    \/ Crash
    \/ \E product \in Products : RemoveProduct(product)
    \/ \E machine \in Machines : RemoveMachine(machine)

(* The database answers every statement and grants its row locks and the   *)
(* pool its connections in turn; nothing has to arrive, fail or be deleted.*)
Fairness ==
    /\ \A p \in Purchases : WF_vars(AdvancePurchase(p))
    /\ \A r \in Restocks : WF_vars(AdvanceRestock(r))

Spec == Init /\ [][Next]_vars /\ Fairness

----------------------------------------------------------------------------
(***************************************************************************)
(* Properties.                                                             *)
(***************************************************************************)
TypeOK ==
    /\ products \subseteq Products /\ machines \subseteq Machines
    /\ stock \in [Products -> Nat]
    /\ bank \in [Machines -> CoinBank]
    /\ sales \subseteq Sale
    /\ pc \in [Requests -> BusyStates \cup {"idle", "done"}]
    /\ req \in [Requests -> PurchaseBody \cup RestockBody \cup {NoBody}]
    /\ view \in [Requests -> [price : Nat, stock : Nat, change : CoinBank,
                              after : CoinBank, version : Nat]]
    /\ reply \in [Requests -> Replies]
    /\ restocked \in [Machines -> CoinBank] /\ paid \in [Machines -> CoinBank]
    /\ version \in [Machines -> Nat] /\ overwritten \subseteq Machines

SalesOf(product) == {s \in sales : s.product = product}

(* However the purchases of a product overlap, fail and crash, each unit   *)
(* it was created with is in stock or in exactly one sale: no unit is sold *)
(* twice and none is lost (commitPurchase: "two concurrent buyers of the   *)
(* last unit cannot both pass the stock check").                           *)
StockConserved ==
    \A product \in Products :
        stock[product] + Cardinality(SalesOf(product)) = InitStock[product]

(* The bank of a machine is what it was created with, plus what restocks   *)
(* added, minus what sales paid out -- as long as no sale has overwritten  *)
(* a bank that changed since the sale read it.  A sale that overlaps no    *)
(* other writer of its machine, and any restock, keeps the books           *)
(* (commitPurchase, restockBank).                                          *)
BankBalanced ==
    \A m \in Machines \ overwritten : \A d \in Denominations :
        bank[m][d] + paid[m][d] = InitBank[m][d] + restocked[m][d]

(* Overwritten or not, a bank never claims a coin that was not put into    *)
(* the machine by its creation or a restock: no lost update invents coins. *)
BankBacked ==
    \A m \in Machines : \A d \in Denominations :
        bank[m][d] <= InitBank[m][d] + restocked[m][d]

(* Coins are never lost but by an overwriting sale, and never invented.    *)
BooksHold == BankBalanced /\ BankBacked

SalesBy(p) == {s \in sales : s.request = p}

(* A purchase answered 201 is on record exactly once, for what was asked   *)
(* for; one that is still under way, or was refused, is not on record.     *)
(* Only a request that ended in a 500 or a lost connection leaves the      *)
(* client in doubt (commitPurchase: "a failure anywhere rolls back the     *)
(* whole purchase").                                                       *)
AnswersTruthful ==
    \A p \in Purchases :
        /\ reply[p] = "Sold" =>
               \E s \in sales : /\ SalesBy(p) = {s}
                                /\ s.machine = req[p].machine
                                /\ s.product = req[p].product
                                /\ s.inserted = SumCoins(req[p].coins)
        /\ pc[p] # "done" \/ reply[p] \in Refusals => SalesBy(p) = {}

(* A refusal stays right after it was given, although it is decided on     *)
(* reads that may be stale by the time it is answered: a product refused   *)
(* as out of stock has none left, an id refused as unknown has no row.     *)
RefusalsFinal ==
    /\ \A p \in Purchases :
          /\ reply[p] = "OutOfStock" => stock[req[p].product] = 0
          /\ reply[p] = "ProductNotFound" => req[p].product \notin products
    /\ \A r \in Requests :
          reply[r] = "MachineNotFound" => req[r].machine \notin machines

(* A restock adds exactly its coins to the bank that is committed at that  *)
(* moment, whoever wrote it (machines/usecase.ts: "concurrent restocks     *)
(* cannot lose an update").                                                *)
RestockAddsItsCoins ==
    [][\A r \in Restocks :
          CommitRestock(r) \/ CommitRestockUnacknowledged(r) =>
              bank' = [bank EXCEPT ![req[r].machine] = AddCoins(@, req[r].coins)]]_vars

(* Whatever requests are under way, a moment comes when all have been      *)
(* answered, with any size of the connection pool: rows and connections    *)
(* are never waited for in a circle.                                       *)
EveryRequestAnswered ==
    (\E r \in Requests : pc[r] \in BusyStates) ~>
        (\A r \in Requests : pc[r] \notin BusyStates)

(* Requests never wait for each other in a circle, nor one for itself:     *)
(* among any that are under way there is one that waits for none of the    *)
(* others, for a row or for a connection, whatever they share              *)
(* (commitPurchase locks the product before the machine, restockBank only  *)
(* the machine, and no statement of a transaction asks the pool).          *)
NoCircularWait ==
    \A R \in SUBSET {r \in Requests : pc[r] \in BusyStates} :
        R # {} => \E r \in R : Ahead(r) \cap R = {}

(* The comment of makeChange: "a machine that cannot pay out exactly must  *)
(* refuse the sale".  The coins a machine pays out are coins it had.       *)
PaidFromHoldings ==
    \A m \in Machines : \A d \in Denominations :
        paid[m][d] <= InitBank[m][d] + restocked[m][d]
=============================================================================
