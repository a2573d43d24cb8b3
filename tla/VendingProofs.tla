--------------------------- MODULE VendingProofs ---------------------------
(***************************************************************************)
(* What Vending guarantees for any number of products, machines and        *)
(* requests, any bodies, any pool and any deletions by hand: its types and *)
(* its stock; its books; its answers; and, when requests do not share a    *)
(* machine, that it implements the atomic shop.                            *)
(***************************************************************************)
EXTENDS VendingAsShop, CoinsProofs, FiniteSetTheorems

(* A request is at a point of its own handler, and from its first await    *)
(* until its answer it has the body of such a request.                     *)
BodiesKnown ==
    /\ \A p \in Purchases : /\ pc[p] \in PurchaseStates \cup {"idle", "done"}
                            /\ pc[p] \in PurchaseStates => req[p] \in PurchaseBody
    /\ \A r \in Restocks : /\ pc[r] \in RestockStates \cup {"idle", "done"}
                           /\ pc[r] \in RestockStates => req[r] \in RestockBody

TypeInv == TypeOK /\ BodiesKnown

LEMMA NoCoinsType == NoCoins \in CoinBank /\ \A d \in Denominations : NoCoins[d] = 0
  BY DEF NoCoins, CoinBank

LEMMA AddCoinsType ==
    ASSUME NEW bank0 \in CoinBank, NEW coins, coins \in CoinBank \/ coins \in Inserted
    PROVE  AddCoins(bank0, coins) \in CoinBank
  BY DEF AddCoins, CoinBank, Inserted, Faces

LEMMA SumCoinsType ==
    ASSUME NEW coins, coins \in CoinBank \/ coins \in Inserted
    PROVE  SumCoins(coins) \in Nat
  BY DEF SumCoins, CoinBank, Inserted, Faces, Denominations

(* Who waits for nobody has the row it asks for to itself. *)
LEMMA RowIsFree ==
    ASSUME NEW r \in Requests, Unhindered(r)
    PROVE  /\ pc[r] = "lockProduct" => ProductFree(req[r].product)
           /\ pc[r] \in {"replaceBank", "lockMachine"} => MachineFree(req[r].machine)
  BY DEF Unhindered, Ahead, ProductFree, MachineFree, Requests

LEMMA TypeInit == Init => TypeInv
<1> SUFFICES ASSUME Init PROVE TypeInv
  OBVIOUS
<1>1. EmptyView \in [price : Nat, stock : Nat, change : CoinBank, after : CoinBank, version : Nat]
  BY NoCoinsType DEF EmptyView
<1>2. TypeOK
  BY <1>1, NoCoinsType, SeedAssumption DEF Init, TypeOK, Replies
<1>3. BodiesKnown
  BY RequestsAssumption DEF Init, BodiesKnown, Requests, PurchaseStates, RestockStates,
     SaleTxStates, RestockTxStates
<1> QED
  BY <1>2, <1>3 DEF TypeInv

----------------------------------------------------------------------------
(* What a request may do to its own state, whatever it does to the         *)
(* database.                                                               *)
LEMMA FinishType ==
    ASSUME TypeInv, NEW r \in Requests, NEW answer \in Replies, Finish(r, answer), UNCHANGED req
    PROVE  /\ pc' \in [Requests -> BusyStates \cup {"idle", "done"}]
           /\ view' \in [Requests -> [price : Nat, stock : Nat, change : CoinBank,
                                      after : CoinBank, version : Nat]]
           /\ reply' \in [Requests -> Replies]
           /\ BodiesKnown'
<1>1. EmptyView \in [price : Nat, stock : Nat, change : CoinBank, after : CoinBank, version : Nat]
  BY NoCoinsType DEF EmptyView
<1>2. pc' = [pc EXCEPT ![r] = "done"]
  BY DEF Finish, Goto
<1>3. BodiesKnown'
  <2>1. "done" \notin PurchaseStates /\ "done" \notin RestockStates
    BY DEF PurchaseStates, RestockStates, SaleTxStates, RestockTxStates
  <2> QED
    BY <1>2, <2>1 DEF TypeInv, TypeOK, BodiesKnown
<1> QED
  BY <1>1, <1>2, <1>3 DEF Finish, TypeInv, TypeOK

LEMMA AnswerType ==
    ASSUME TypeInv, NEW r \in Requests, NEW answer \in Replies, Answer(r, answer)
    PROVE  TypeInv'
  BY FinishType DEF Answer, TypeInv, TypeOK, database, ledger

LEMMA ProceedType ==
    ASSUME TypeInv, NEW r \in Requests, NEW to, Proceed(r, to),
           \/ r \in Purchases /\ pc[r] \in PurchaseStates /\ to \in PurchaseStates
           \/ r \in Restocks /\ pc[r] \in RestockStates /\ to \in RestockStates,
           view' \in [Requests -> [price : Nat, stock : Nat, change : CoinBank,
                                   after : CoinBank, version : Nat]]
    PROVE  TypeInv'
<1>1. pc' = [pc EXCEPT ![r] = to]
  BY DEF Proceed, Goto
<1>2. TypeOK'
  BY <1>1 DEF Proceed, TypeInv, TypeOK, database, ledger, BusyStates
<1>3. BodiesKnown'
  BY <1>1, RequestsAssumption DEF Proceed, TypeInv, TypeOK, BodiesKnown, Requests
<1> QED
  BY <1>2, <1>3 DEF TypeInv

(* The bodies requests may carry are bodies of their kind.                 *)
LEMMA ArriveType ==
    ASSUME TypeInv, NEW r \in Requests, NEW first \in BusyStates, Arrive(r, first),
           r \in Purchases => first \in PurchaseStates,
           r \in Restocks => first \in RestockStates
    PROVE  TypeInv'
<1>1. PICK body \in Bodies[r] :
          /\ req' = [req EXCEPT ![r] = body]
          /\ UNCHANGED <<database, ledger>>
          /\ \/ body = NoBody /\ Finish(r, "BadRequest")
             \/ body # NoBody /\ Finish(r, "UnsupportedCoin")
             \/ body # NoBody /\ Goto(r, first) /\ UNCHANGED <<view, reply>>
  BY DEF Arrive
<1>2. /\ r \in Purchases /\ body # NoBody => body \in PurchaseBody
      /\ r \in Restocks /\ body # NoBody => body \in RestockBody
  BY RequestsAssumption
<1>3. req' \in [Requests -> PurchaseBody \cup RestockBody \cup {NoBody}]
  BY <1>1, <1>2 DEF TypeInv, TypeOK, Requests
<1>4. UNCHANGED <<products, machines, stock, bank, sales, restocked, paid, version, overwritten>>
  BY <1>1 DEF database, ledger
<1>5. CASE pc' = [pc EXCEPT ![r] = "done"] /\ view' = [view EXCEPT ![r] = EmptyView]
           /\ \E answer \in Replies : reply' = [reply EXCEPT ![r] = answer]
  <2>1. TypeOK'
    <3>1. EmptyView \in [price : Nat, stock : Nat, change : CoinBank,
                         after : CoinBank, version : Nat]
      BY NoCoinsType DEF EmptyView
    <3> QED
      BY <1>3, <1>4, <1>5, <3>1 DEF TypeInv, TypeOK
  <2>2. BodiesKnown'
    <3>1. "done" \notin PurchaseStates /\ "done" \notin RestockStates
      BY DEF PurchaseStates, RestockStates, SaleTxStates, RestockTxStates
    <3> QED
      BY <1>1, <1>5, <3>1 DEF TypeInv, TypeOK, BodiesKnown
  <2> QED
    BY <2>1, <2>2 DEF TypeInv
<1>6. CASE body # NoBody /\ Goto(r, first) /\ UNCHANGED <<view, reply>>
  <2>1. TypeOK'
    BY <1>3, <1>4, <1>6 DEF TypeInv, TypeOK, Goto, BusyStates
  <2>2. BodiesKnown'
    BY <1>1, <1>2, <1>6, RequestsAssumption DEF TypeInv, TypeOK, BodiesKnown, Goto, Requests
  <2> QED
    BY <2>1, <2>2 DEF TypeInv
<1>7. "BadRequest" \in Replies /\ "UnsupportedCoin" \in Replies
  BY DEF Replies, Refusals
<1> QED
  BY <1>1, <1>5, <1>6, <1>7 DEF Finish, Goto

(* What a commit writes.                                                   *)
LEMMA ApplySaleType ==
    ASSUME TypeInv, NEW p \in Purchases, pc[p] = "commitSale", stock[req[p].product] > 0,
           ApplySale(p), NEW answer \in Replies, Finish(p, answer)
    PROVE  TypeInv'
<1> DEFINE machine == req[p].machine
           product == req[p].product
<1>1. p \in Requests /\ req[p] \in PurchaseBody
  BY DEF TypeInv, BodiesKnown, Requests, PurchaseStates, SaleTxStates
<1>2. machine \in Machines /\ product \in Products /\ req[p].coins \in Inserted
  BY <1>1 DEF PurchaseBody
<1>3. /\ view[p].price \in Nat /\ view[p].change \in CoinBank /\ view[p].after \in CoinBank
  BY <1>1 DEF TypeInv, TypeOK
<1>4. SaleRecord(p) \in Sale
  BY <1>2, <1>3, SumCoinsType DEF SaleRecord, Sale
<1>5. UNCHANGED <<products, machines, restocked, req>>
  BY DEF ApplySale
<1>6. pc' \in [Requests -> BusyStates \cup {"idle", "done"}]
      /\ view' \in [Requests -> [price : Nat, stock : Nat, change : CoinBank,
                                 after : CoinBank, version : Nat]]
      /\ reply' \in [Requests -> Replies] /\ BodiesKnown'
  BY <1>1, <1>5, FinishType
<1>7. sales' \subseteq Sale
  BY <1>4 DEF ApplySale, TypeInv, TypeOK
<1>8. bank' \in [Machines -> CoinBank] /\ version' \in [Machines -> Nat]
      /\ overwritten' \subseteq Machines /\ stock' \in [Products -> Nat]
  BY <1>2, <1>3 DEF ApplySale, TypeInv, TypeOK
<1>9. paid' \in [Machines -> CoinBank]
  BY <1>2, <1>3, AddCoinsType DEF ApplySale, TypeInv, TypeOK
<1> QED
  BY <1>5, <1>6, <1>7, <1>8, <1>9 DEF TypeInv, TypeOK

LEMMA ApplyRestockType ==
    ASSUME TypeInv, NEW r \in Restocks, pc[r] = "commitRestock", ApplyRestock(r),
           \/ \E answer \in Replies : Finish(r, answer)
           \/ Goto(r, "reread") /\ UNCHANGED <<view, reply>>
    PROVE  TypeInv'
<1> DEFINE machine == req[r].machine
<1>1. r \in Requests /\ req[r] \in RestockBody
  BY DEF TypeInv, BodiesKnown, Requests, RestockStates, RestockTxStates
<1>2. machine \in Machines /\ req[r].coins \in Inserted /\ view[r].after \in CoinBank
  BY <1>1 DEF RestockBody, TypeInv, TypeOK
<1>3. bank' \in [Machines -> CoinBank] /\ version' \in [Machines -> Nat]
  BY <1>2 DEF ApplyRestock, TypeInv, TypeOK
<1>4. restocked' \in [Machines -> CoinBank]
  BY <1>2, AddCoinsType DEF ApplyRestock, TypeInv, TypeOK
<1>5. UNCHANGED <<products, machines, stock, sales, paid, overwritten, req>>
  BY DEF ApplyRestock
<1>6. CASE \E answer \in Replies : Finish(r, answer)
  BY <1>1, <1>3, <1>4, <1>5, <1>6, FinishType DEF TypeInv, TypeOK
<1>7. CASE Goto(r, "reread") /\ UNCHANGED <<view, reply>>
  <2>1. TypeOK'
    BY <1>3, <1>4, <1>5, <1>7 DEF TypeInv, TypeOK, Goto, BusyStates, RestockStates
  <2>2. BodiesKnown'
    BY <1>1, <1>5, <1>7, RequestsAssumption
    DEF TypeInv, TypeOK, BodiesKnown, Goto, RestockStates
  <2> QED
    BY <2>1, <2>2 DEF TypeInv
<1> QED
  BY <1>6, <1>7

----------------------------------------------------------------------------
(***************************************************************************)
(* The stock.  What makes StockConserved inductive: a request that is not  *)
(* answered yet has no sale, at most one transaction holds a product row,  *)
(* and between its decrement and its commit the unit it takes is there.    *)
(***************************************************************************)
SaleStates == {"replaceBank", "insertSale", "commitSale"}

SalesDone == \A s \in sales : pc[s.request] = "done"

ProductHolders ==
    \A p, q \in Purchases :
        pc[p] \in ProductHeld /\ pc[q] \in ProductHeld /\ req[p].product = req[q].product
            => p = q

UnitReserved == \A p \in Purchases : pc[p] \in SaleStates => stock[req[p].product] > 0

StockInv ==
    IsFiniteSet(sales) /\ SalesDone /\ ProductHolders /\ UnitReserved /\ StockConserved

LEMMA StockInit == Init => StockInv
<1> SUFFICES ASSUME Init PROVE StockInv
  OBVIOUS
<1>1. \A p \in Purchases : pc[p] = "idle"
  BY DEF Init, Requests
<1>2. sales = {} /\ stock = InitStock
  BY DEF Init
<1>3. \A product \in Products : SalesOf(product) = {}
  BY <1>2 DEF SalesOf
<1>4. StockConserved
  <2> SUFFICES ASSUME NEW product \in Products
               PROVE  stock[product] + Cardinality(SalesOf(product)) = InitStock[product]
    BY DEF StockConserved
  <2>1. Cardinality(SalesOf(product)) = 0
    BY <1>3, FS_EmptySet
  <2>2. stock[product] = InitStock[product] /\ InitStock[product] \in Nat
    BY <1>2, SeedAssumption
  <2> QED
    BY <2>1, <2>2
<1>5. ProductHolders /\ UnitReserved
  BY <1>1 DEF ProductHolders, UnitReserved, ProductHeld, SaleStates
<1> QED
  BY <1>2, <1>4, <1>5, FS_EmptySet DEF StockInv, SalesDone

(* A step of one request that touches neither stock nor sales keeps the    *)
(* stock invariant if it enters the transaction's inner states properly:   *)
(* it finds the row free, or it already holds the row.                     *)
LEMMA StockQuietStep ==
    ASSUME TypeInv, StockInv, NEW r \in Requests, NEW to,
           pc[r] # "done", pc' = [pc EXCEPT ![r] = to],
           \A q \in Requests : q # r => req'[q] = req[q],
           UNCHANGED <<stock, sales>>,
           \/ to \notin ProductHeld
           \/ /\ to = "decrementStock" /\ req' = req /\ ProductFree(req[r].product)
           \/ /\ to \in SaleStates /\ req' = req /\ pc[r] \in ProductHeld
              /\ stock[req[r].product] > 0
    PROVE  StockInv'
<1>1. \A q \in Requests : pc'[q] = IF q = r THEN to ELSE pc[q]
  BY DEF TypeInv, TypeOK
<1>2. IsFiniteSet(sales)' /\ StockConserved'
  BY DEF StockInv, StockConserved, SalesOf
<1>3. SalesDone'
  <2>1. \A s \in sales : s.request \in Requests
    BY DEF TypeInv, TypeOK, Sale, Requests
  <2> QED
    BY <1>1, <2>1 DEF StockInv, SalesDone
<1>4. SaleStates \subseteq ProductHeld /\ "decrementStock" \notin SaleStates
  BY DEF SaleStates, ProductHeld
<1>5. \A p \in Purchases : p \in Requests
  BY DEF Requests
<1>6. ProductHolders'
  <2>1. CASE to \notin ProductHeld
    BY <1>1, <1>5, <2>1 DEF StockInv, ProductHolders
  <2>2. CASE req' = req /\ ProductFree(req[r].product)
    BY <1>1, <1>5, <2>2 DEF StockInv, ProductHolders, ProductFree, HoldsProduct
  <2>3. CASE req' = req /\ pc[r] \in ProductHeld
    BY <1>1, <1>5, <2>3 DEF StockInv, ProductHolders
  <2> QED
    BY <2>1, <2>2, <2>3
<1>7. UnitReserved'
  BY <1>1, <1>4, <1>5 DEF StockInv, UnitReserved
<1> QED
  BY <1>2, <1>3, <1>6, <1>7 DEF StockInv

(* The commit of a sale: the unit that was reserved leaves the stock and   *)
(* enters the sales, and nobody else holds the product.                    *)
LEMMA StockCommitStep ==
    ASSUME TypeInv, StockInv, NEW p \in Purchases, pc[p] = "commitSale", ApplySale(p),
           NEW answer, Finish(p, answer)
    PROVE  StockInv'
<1> DEFINE product == req[p].product
           record == SaleRecord(p)
<1>1. p \in Requests /\ product \in Products
  BY DEF TypeInv, BodiesKnown, Requests, PurchaseStates, SaleTxStates, PurchaseBody
<1>2. pc' = [pc EXCEPT ![p] = "done"] /\ req' = req
  BY DEF Finish, Goto, ApplySale
<1>3. sales' = sales \cup {record} /\ stock' = [stock EXCEPT ![product] = @ - 1]
  BY DEF ApplySale
<1>4. record.request = p /\ record.product = product
  BY DEF SaleRecord
<1>5. record \notin sales
  BY <1>4 DEF StockInv, SalesDone
<1>6. IsFiniteSet(sales)'
  BY <1>3, FS_AddElement DEF StockInv
<1>7. SalesDone'
  <2>1. \A s \in sales : s.request \in Requests
    BY DEF TypeInv, TypeOK, Sale, Requests
  <2> QED
    BY <1>1, <1>2, <1>3, <1>4, <2>1 DEF StockInv, SalesDone, TypeInv, TypeOK
<1>8. ProductHolders'
  BY <1>1, <1>2 DEF StockInv, ProductHolders, TypeInv, TypeOK, ProductHeld, Requests
<1>9. UnitReserved'
  <2> SUFFICES ASSUME NEW q \in Purchases, pc'[q] \in SaleStates
               PROVE  stock'[req'[q].product] > 0
    BY DEF UnitReserved
  <2>1. q # p /\ pc[q] \in SaleStates
    BY <1>1, <1>2 DEF TypeInv, TypeOK, SaleStates, Requests
  <2>2. req[q].product # product
    BY <2>1 DEF StockInv, ProductHolders, SaleStates, ProductHeld
  <2>3. req[q].product \in Products
    <3>1. req[q] \in PurchaseBody
      BY <2>1 DEF TypeInv, BodiesKnown, PurchaseStates, SaleTxStates, SaleStates
    <3> QED
      BY <3>1 DEF PurchaseBody
  <2>4. stock[req[q].product] > 0
    BY <2>1 DEF StockInv, UnitReserved
  <2> QED
    BY <1>2, <1>3, <2>2, <2>3, <2>4 DEF TypeInv, TypeOK
<1>10. StockConserved'
  <2> SUFFICES ASSUME NEW other \in Products
               PROVE  stock'[other] + Cardinality(SalesOf(other)') = InitStock[other]
    BY DEF StockConserved, SalesOf
  <2>1. stock[other] + Cardinality(SalesOf(other)) = InitStock[other]
    BY DEF StockInv, StockConserved
  <2>2. IsFiniteSet(SalesOf(other))
    BY FS_Subset DEF StockInv, SalesOf
  <2>3. Cardinality(SalesOf(other)) \in Nat /\ stock[other] \in Nat
    BY <2>2, FS_CardinalityType DEF TypeInv, TypeOK
  <2>4. CASE other = product
    <3>1. SalesOf(other)' = SalesOf(other) \cup {record}
      BY <1>3, <1>4, <2>4 DEF SalesOf
    <3>2. record \notin SalesOf(other)
      BY <1>5 DEF SalesOf
    <3>3. Cardinality(SalesOf(other)') = Cardinality(SalesOf(other)) + 1
      BY <2>2, <3>1, <3>2, FS_AddElement
    <3>4. stock'[other] = stock[other] - 1
      BY <1>1, <1>3, <2>4 DEF TypeInv, TypeOK
    <3> QED
      BY <2>1, <2>3, <3>3, <3>4
  <2>5. CASE other # product
    <3>1. SalesOf(other)' = SalesOf(other)
      BY <1>3, <1>4, <2>5 DEF SalesOf
    <3>2. stock'[other] = stock[other]
      BY <1>3, <2>5 DEF TypeInv, TypeOK
    <3> QED
      BY <2>1, <3>1, <3>2
  <2> QED
    BY <2>4, <2>5
<1> QED
  BY <1>6, <1>7, <1>8, <1>9, <1>10 DEF StockInv

----------------------------------------------------------------------------
(***************************************************************************)
(* Every step.                                                             *)
(***************************************************************************)
StateInv == TypeInv /\ StockInv

(* A request that is answered without a commit.                            *)
LEMMA AnswerStep ==
    ASSUME StateInv, NEW r \in Requests, NEW answer \in Replies, pc[r] # "done",
           Answer(r, answer)
    PROVE  StateInv'
<1>1. TypeInv'
  BY AnswerType DEF StateInv
<1>2. "done" \notin ProductHeld
  BY DEF ProductHeld
<1>3. pc' = [pc EXCEPT ![r] = "done"] /\ UNCHANGED <<req, stock, sales>>
  BY DEF Answer, Finish, Goto, database
<1>4. StockInv'
  BY <1>2, <1>3, StockQuietStep DEF StateInv
<1> QED
  BY <1>1, <1>4 DEF StateInv

(* A request that goes on to its next statement.                           *)
LEMMA ProceedStep ==
    ASSUME StateInv, NEW r \in Requests, NEW to, Proceed(r, to),
           \/ r \in Purchases /\ pc[r] \in PurchaseStates /\ to \in PurchaseStates
           \/ r \in Restocks /\ pc[r] \in RestockStates /\ to \in RestockStates,
           view' \in [Requests -> [price : Nat, stock : Nat, change : CoinBank,
                                   after : CoinBank, version : Nat]],
           \/ to \notin ProductHeld
           \/ to = "decrementStock" /\ ProductFree(req[r].product)
           \/ to \in SaleStates /\ pc[r] \in ProductHeld /\ stock[req[r].product] > 0
    PROVE  StateInv'
<1>1. TypeInv'
  BY ProceedType DEF StateInv
<1>2. pc' = [pc EXCEPT ![r] = to] /\ UNCHANGED <<req, stock, sales>>
  BY DEF Proceed, Goto, database
<1>3. pc[r] # "done"
  BY DEF PurchaseStates, RestockStates, SaleTxStates, RestockTxStates
<1>4. StockInv'
  BY <1>2, <1>3, StockQuietStep DEF StateInv
<1> QED
  BY <1>1, <1>4 DEF StateInv

LEMMA ArriveStep ==
    ASSUME StateInv, NEW r \in Requests, NEW first \in BusyStates, Arrive(r, first), first \notin ProductHeld,
           r \in Purchases => first \in PurchaseStates,
           r \in Restocks => first \in RestockStates
    PROVE  StateInv'
<1>1. TypeInv'
  BY ArriveType DEF StateInv
<1>2. PICK to : /\ pc' = [pc EXCEPT ![r] = to]
                /\ to \notin ProductHeld
  BY DEF Arrive, Finish, Goto, ProductHeld
<1>3. /\ \A q \in Requests : q # r => req'[q] = req[q]
      /\ UNCHANGED <<stock, sales>> /\ pc[r] # "done"
  BY DEF Arrive, StateInv, TypeInv, TypeOK, database
<1>4. StockInv'
  BY <1>2, <1>3, StockQuietStep DEF StateInv
<1> QED
  BY <1>1, <1>4 DEF StateInv

LEMMA ArrivePurchaseStep ==
    ASSUME StateInv, NEW p \in Purchases, ArrivePurchase(p)
    PROVE  StateInv'
<1>1. /\ p \in Requests /\ p \notin Restocks
      /\ "getProduct" \in PurchaseStates /\ "getProduct" \in BusyStates
      /\ "getProduct" \notin ProductHeld
  BY RequestsAssumption DEF Requests, PurchaseStates, BusyStates, ProductHeld
<1> QED
  BY <1>1, ArriveStep DEF ArrivePurchase

LEMMA ArriveRestockStep ==
    ASSUME StateInv, NEW r \in Restocks, ArriveRestock(r)
    PROVE  StateInv'
<1>1. /\ r \in Requests /\ r \notin Purchases
      /\ "beginRestock" \in RestockStates /\ "beginRestock" \in BusyStates
      /\ "beginRestock" \notin ProductHeld
  BY RequestsAssumption DEF Requests, RestockStates, BusyStates, ProductHeld
<1> QED
  BY <1>1, ArriveStep DEF ArriveRestock

LEMMA PurchaseStep ==
    ASSUME StateInv, NEW p \in Purchases,
           ArrivePurchase(p) \/ AdvancePurchase(p) \/ CommitSaleUnacknowledged(p)
    PROVE  StateInv'
<1> DEFINE ViewType == [price : Nat, stock : Nat, change : CoinBank,
                        after : CoinBank, version : Nat]
<1>1. p \in Requests /\ view[p] \in ViewType /\ view \in [Requests -> ViewType]
  BY DEF Requests, StateInv, TypeInv, TypeOK
<1>2. /\ {"getProduct", "getMachineBank", "beginSale", "lockProduct", "decrementStock",
           "replaceBank", "insertSale", "commitSale"} \subseteq PurchaseStates
      /\ {"getProduct", "getMachineBank", "beginSale", "lockProduct"} \cap ProductHeld = {}
      /\ {"replaceBank", "insertSale", "commitSale"} \subseteq SaleStates
      /\ {"decrementStock", "replaceBank", "insertSale"} \subseteq ProductHeld
      /\ "done" \notin PurchaseStates
  BY DEF PurchaseStates, SaleTxStates, ProductHeld, SaleStates
<1>3. pc[p] \in PurchaseStates =>
          /\ req[p].machine \in Machines /\ req[p].product \in Products
          /\ req[p].coins \in Inserted
  BY DEF StateInv, TypeInv, BodiesKnown, PurchaseBody
<1>4. {"ProductNotFound", "MachineNotFound", "OutOfStock", "Sold", "Internal",
       "ConnectionLost", "UnsupportedCoin", "InsufficientPayment",
       "ExactChangeRequired"} \subseteq Replies
  BY DEF Replies, Refusals
<1>5. CASE ArrivePurchase(p)
  BY <1>5, ArrivePurchaseStep
<1>6. CASE GetProduct(p)
  <2>1. CASE Answer(p, "ProductNotFound")
    BY <1>1, <1>2, <1>4, <1>6, <2>1, AnswerStep DEF GetProduct
  <2>2. CASE /\ Proceed(p, "getMachineBank")
             /\ view' = [view EXCEPT ![p].price = Price[req[p].product],
                                     ![p].stock = stock[req[p].product]]
    <3>1. Price[req[p].product] \in Nat /\ stock[req[p].product] \in Nat
      BY <1>2, <1>3, <1>6, SeedAssumption DEF GetProduct, StateInv, TypeInv, TypeOK
    <3>2. view' \in [Requests -> ViewType]
      BY <1>1, <2>2, <3>1
    <3> QED
      BY <1>1, <1>2, <1>6, <2>2, <3>2, ProceedStep DEF GetProduct
  <2> QED
    BY <1>6, <2>1, <2>2 DEF GetProduct
<1>7. CASE GetMachineBank(p)
  <2> DEFINE decision == Purchase(view[p].price, view[p].stock, bank[req[p].machine], req[p].coins)
  <2>1. CASE Answer(p, "MachineNotFound")
    BY <1>1, <1>2, <1>4, <1>7, <2>1, AnswerStep DEF GetMachineBank
  <2>2. /\ decision.change \in CoinBank /\ decision.remaining \in CoinBank
        /\ decision.outcome \in {"UnsupportedCoin", "InsufficientPayment", "OutOfStock",
                                 "ExactChangeRequired", "Sold"}
    <3>1. bank[req[p].machine] \in CoinBank
      BY <1>2, <1>3, <1>7 DEF GetMachineBank, StateInv, TypeInv, TypeOK
    <3>2. view[p].price \in Nat /\ view[p].stock \in Nat
      BY <1>1
    <3> QED
      BY <1>2, <1>3, <1>7, <3>1, <3>2, PurchaseSound DEF GetMachineBank
  <2>3. CASE Answer(p, decision.outcome)
    <3>1. decision.outcome \in Replies
      BY <1>4, <2>2
    <3> HIDE DEF decision
    <3> QED
      BY <1>1, <1>2, <1>7, <2>3, <3>1, AnswerStep DEF GetMachineBank
  <2>4. CASE /\ Proceed(p, "beginSale")
             /\ view' = [view EXCEPT ![p].change = decision.change,
                                     ![p].after = decision.remaining,
                                     ![p].version = version[req[p].machine]]
    <3>1. version[req[p].machine] \in Nat
      BY <1>2, <1>3, <1>7 DEF GetMachineBank, StateInv, TypeInv, TypeOK
    <3> HIDE DEF decision
    <3>2. view' \in [Requests -> ViewType]
      BY <1>1, <2>2, <2>4, <3>1
    <3>3. /\ p \in Purchases /\ p \in Requests /\ Proceed(p, "beginSale")
          /\ pc[p] \in PurchaseStates
          /\ "beginSale" \in PurchaseStates /\ "beginSale" \notin ProductHeld
      BY <1>1, <1>2, <1>7, <2>4 DEF GetMachineBank
    <3> QED
      BY <3>2, <3>3, ProceedStep
  <2> QED
    BY <1>7, <2>1, <2>3, <2>4 DEF GetMachineBank
<1>8. CASE BeginSale(p)
  BY <1>1, <1>2, <1>8, ProceedStep DEF BeginSale
<1>9. CASE LockProduct(p)
  <2>1. CASE Answer(p, "ProductNotFound")
    BY <1>1, <1>2, <1>4, <1>9, <2>1, AnswerStep DEF LockProduct
  <2>2. CASE /\ ProductFree(req[p].product)
             /\ Proceed(p, "decrementStock") /\ UNCHANGED view
    BY <1>1, <1>2, <1>9, <2>2, ProceedStep DEF LockProduct
  <2> QED
    BY <1>1, <1>9, <2>1, <2>2, RowIsFree DEF LockProduct
<1>10. CASE DecrementStock(p)
  <2>1. CASE Answer(p, "OutOfStock")
    BY <1>1, <1>2, <1>4, <1>10, <2>1, AnswerStep DEF DecrementStock
  <2>2. CASE stock[req[p].product] > 0 /\ Proceed(p, "replaceBank") /\ UNCHANGED view
    BY <1>1, <1>2, <1>10, <2>2, ProceedStep DEF DecrementStock
  <2> QED
    BY <1>10, <2>1, <2>2 DEF DecrementStock
<1>11. pc[p] \in SaleStates => stock[req[p].product] > 0
  BY DEF StateInv, StockInv, UnitReserved
<1>12. CASE ReplaceBank(p)
  <2>1. CASE Answer(p, "MachineNotFound")
    BY <1>1, <1>2, <1>4, <1>12, <2>1, AnswerStep DEF ReplaceBank
  <2>2. CASE Proceed(p, "insertSale") /\ UNCHANGED view
    BY <1>1, <1>2, <1>11, <1>12, <2>2, ProceedStep DEF ReplaceBank
  <2> QED
    BY <1>12, <2>1, <2>2 DEF ReplaceBank
<1>13. CASE InsertSale(p)
  BY <1>1, <1>2, <1>11, <1>13, ProceedStep DEF InsertSale
<1>14. CASE CommitSale(p) \/ CommitSaleUnacknowledged(p)
  <2>1. PICK answer \in Replies : Finish(p, answer)
    BY <1>4, <1>14 DEF CommitSale, CommitSaleUnacknowledged
  <2>2. pc[p] = "commitSale" /\ ApplySale(p)
    BY <1>14 DEF CommitSale, CommitSaleUnacknowledged
  <2>3. stock[req[p].product] > 0
    BY <1>2, <1>11, <2>2
  <2> QED
    BY <2>1, <2>2, <2>3, ApplySaleType, StockCommitStep DEF StateInv
<1> QED
  BY <1>5, <1>6, <1>7, <1>8, <1>9, <1>10, <1>12, <1>13, <1>14 DEF AdvancePurchase

LEMMA RestockStep ==
    ASSUME StateInv, NEW r \in Restocks,
           ArriveRestock(r) \/ AdvanceRestock(r) \/ CommitRestockUnacknowledged(r)
    PROVE  StateInv'
<1> DEFINE ViewType == [price : Nat, stock : Nat, change : CoinBank,
                        after : CoinBank, version : Nat]
<1>1. r \in Requests /\ view[r] \in ViewType /\ view \in [Requests -> ViewType]
  BY DEF Requests, StateInv, TypeInv, TypeOK
<1>2. /\ {"beginRestock", "lockMachine", "writeBank", "commitRestock", "reread"}
             \subseteq RestockStates \ ProductHeld
      /\ "done" \notin RestockStates \cup ProductHeld
  BY DEF RestockStates, RestockTxStates, ProductHeld
<1>3. pc[r] \in RestockStates => req[r].machine \in Machines /\ req[r].coins \in Inserted
  BY DEF StateInv, TypeInv, BodiesKnown, RestockBody
<1>4. {"MachineNotFound", "Restocked", "Internal", "ConnectionLost"} \subseteq Replies
  BY DEF Replies, Refusals
<1>5. CASE ArriveRestock(r)
  BY <1>5, ArriveRestockStep
<1>6. CASE BeginRestock(r)
  BY <1>1, <1>2, <1>6, ProceedStep DEF BeginRestock
<1>7. CASE LockMachine(r)
  <2> DEFINE after == AddCoins(bank[req[r].machine], req[r].coins)
  <2>1. CASE Answer(r, "MachineNotFound")
    BY <1>1, <1>2, <1>4, <1>7, <2>1, AnswerStep DEF LockMachine
  <2>2. CASE /\ Proceed(r, "writeBank")
             /\ view' = [view EXCEPT ![r].after = after, ![r].version = version[req[r].machine]]
    <3>1. after \in CoinBank /\ version[req[r].machine] \in Nat
      <4>1. bank[req[r].machine] \in CoinBank /\ req[r].coins \in Inserted
        BY <1>2, <1>3, <1>7 DEF LockMachine, StateInv, TypeInv, TypeOK
      <4>2. version[req[r].machine] \in Nat
        BY <1>2, <1>3, <1>7 DEF LockMachine, StateInv, TypeInv, TypeOK
      <4> QED
        BY <4>1, <4>2, AddCoinsType
    <3> HIDE DEF after
    <3>2. view' \in [Requests -> ViewType]
      BY <1>1, <2>2, <3>1
    <3> QED
      BY <1>1, <1>2, <1>7, <2>2, <3>2, ProceedStep DEF LockMachine
  <2> QED
    BY <1>7, <2>1, <2>2 DEF LockMachine
<1>8. CASE WriteBank(r)
  BY <1>1, <1>2, <1>8, ProceedStep DEF WriteBank
<1>9. CASE CommitRestock(r) \/ CommitRestockUnacknowledged(r)
  <2>1. pc[r] = "commitRestock" /\ ApplyRestock(r)
    BY <1>9 DEF CommitRestock, CommitRestockUnacknowledged
  <2>2. \/ \E answer \in Replies : Finish(r, answer)
        \/ Goto(r, "reread") /\ UNCHANGED <<view, reply>>
    BY <1>4, <1>9 DEF CommitRestock, CommitRestockUnacknowledged
  <2>3. TypeInv'
    BY <2>1, <2>2, ApplyRestockType DEF StateInv
  <2>4. PICK to : pc' = [pc EXCEPT ![r] = to] /\ to \notin ProductHeld
    BY <1>2, <2>2 DEF Finish, Goto
  <2>5. StockInv'
    BY <1>1, <2>1, <2>4, StockQuietStep DEF StateInv, ApplyRestock
  <2> QED
    BY <2>3, <2>5 DEF StateInv
<1>10. CASE Reread(r)
  BY <1>1, <1>2, <1>4, <1>10, AnswerStep DEF Reread
<1> QED
  BY <1>5, <1>6, <1>7, <1>8, <1>9, <1>10 DEF AdvanceRestock

LEMMA CrashStep == StateInv /\ Crash => StateInv'
<1> SUFFICES ASSUME StateInv, Crash PROVE StateInv'
  OBVIOUS
<1>1. \A r \in Requests : pc'[r] = pc[r] \/ pc'[r] = "done"
  BY DEF Crash
<1>2. UNCHANGED <<req, products, machines, stock, bank, sales, restocked, paid, version, overwritten>>
  BY DEF Crash, database, ledger
<1>3. \A r \in Requests : pc[r] = "done" => pc'[r] = "done"
  BY DEF Crash
<1>4. "done" \notin PurchaseStates \cup RestockStates \cup ProductHeld \cup SaleStates
  BY DEF PurchaseStates, RestockStates, SaleTxStates, RestockTxStates, ProductHeld, SaleStates
<1>5. TypeOK'
  <2>1. EmptyView \in [price : Nat, stock : Nat, change : CoinBank, after : CoinBank, version : Nat]
    BY NoCoinsType DEF EmptyView
  <2>2. "ConnectionLost" \in Replies
    BY DEF Replies
  <2> QED
    BY <1>2, <2>1, <2>2 DEF Crash, StateInv, TypeInv, TypeOK
<1>6. BodiesKnown'
  BY <1>1, <1>2, <1>4 DEF StateInv, TypeInv, BodiesKnown, Requests
<1>7. StockConserved' /\ IsFiniteSet(sales)'
  BY <1>2 DEF StateInv, StockInv, StockConserved, SalesOf
<1>8. SalesDone'
  <2>1. \A s \in sales : s.request \in Requests
    BY DEF StateInv, TypeInv, TypeOK, Sale, Requests
  <2> QED
    BY <1>2, <1>3, <2>1 DEF StateInv, StockInv, SalesDone
<1>9. ProductHolders' /\ UnitReserved'
  BY <1>1, <1>2, <1>4 DEF StateInv, StockInv, ProductHolders, UnitReserved, Requests
<1> QED
  BY <1>5, <1>6, <1>7, <1>8, <1>9 DEF StateInv, TypeInv, StockInv

(* Deletions by hand, and steps that change nothing.                       *)
LEMMA RequestsUnchangedStep ==
    ASSUME StateInv, UNCHANGED <<stock, bank, sales, request, ledger>>,
           products' \subseteq products, machines' \subseteq machines
    PROVE  StateInv'
<1>1. UNCHANGED <<pc, req, view, reply, restocked, paid, version, overwritten>>
  BY DEF request, ledger
<1>2. TypeOK' /\ BodiesKnown'
  BY <1>1 DEF StateInv, TypeInv, TypeOK, BodiesKnown
<1>3. StockInv'
  BY <1>1 DEF StateInv, StockInv, SalesDone, ProductHolders, UnitReserved, StockConserved, SalesOf
<1> QED
  BY <1>2, <1>3 DEF StateInv, TypeInv

LEMMA StateStep == StateInv /\ [Next]_vars => StateInv'
<1> SUFFICES ASSUME StateInv, [Next]_vars PROVE StateInv'
  OBVIOUS
<1>1. ASSUME NEW p \in Purchases,
             ArrivePurchase(p) \/ AdvancePurchase(p) \/ CommitSaleUnacknowledged(p)
      PROVE  StateInv'
  BY <1>1, PurchaseStep
<1>2. ASSUME NEW r \in Restocks,
             ArriveRestock(r) \/ AdvanceRestock(r) \/ CommitRestockUnacknowledged(r)
      PROVE  StateInv'
  BY <1>2, RestockStep
<1>3. ASSUME NEW r \in Requests, StatementFails(r) PROVE StateInv'
  <2>1. "Internal" \in Replies /\ pc[r] # "done"
    BY <1>3 DEF Replies, StatementFails, BusyStates, PurchaseStates, RestockStates,
                SaleTxStates, RestockTxStates
  <2> QED
    BY <1>3, <2>1, AnswerStep DEF StatementFails
<1>4. CASE Crash
  BY <1>4, CrashStep
<1>5. ASSUME NEW product \in Products, RemoveProduct(product) PROVE StateInv'
  BY <1>5, RequestsUnchangedStep DEF RemoveProduct
<1>6. ASSUME NEW machine \in Machines, RemoveMachine(machine) PROVE StateInv'
  BY <1>6, RequestsUnchangedStep DEF RemoveMachine
<1>7. CASE UNCHANGED vars
  BY <1>7, RequestsUnchangedStep DEF vars, database
<1> QED
  BY <1>1, <1>2, <1>3, <1>4, <1>5, <1>6, <1>7 DEF Next

LEMMA StateInvariant == Spec => []StateInv
<1>1. Init => StateInv
  BY TypeInit, StockInit DEF StateInv
<1> QED
  BY <1>1, StateStep, PTL DEF Spec

(* Every variable keeps its type; that the stock stays a natural number    *)
(* rests on the guard of DecrementStock and on the lock of the product row *)
(* that protects it until the commit (commitPurchase).                     *)
THEOREM TypeCorrect == Spec => []TypeOK
<1>1. StateInv => TypeOK
  BY DEF StateInv, TypeInv
<1> QED
  BY <1>1, StateInvariant, PTL

(* However purchases overlap, fail and crash, every unit of a product is   *)
(* in stock or in exactly one sale (commitPurchase).                       *)
THEOREM StockIsConserved == Spec => []StockConserved
<1>1. StateInv => StockConserved
  BY DEF StateInv, StockInv
<1> QED
  BY <1>1, StateInvariant, PTL

(* Whoever is waited for is further than who waits: in its transaction, or *)
(* past the lock of the product, or past the lock of the machine.  So who  *)
(* is furthest among any requests waits for none of them (the order of the *)
(* statements of commitPurchase and restockBank).                          *)
THEOREM NobodyWaitsInACircle == Spec => []NoCircularWait
<1>1. ASSUME NEW R \in SUBSET {r \in Requests : pc[r] \in BusyStates}, R # {}
      PROVE  \E r \in R : Ahead(r) \cap R = {}
  <2> DEFINE At(points) == \E r \in R : pc[r] \in points
             LastPoints == MachineHeld \cup {"decrementStock"}
             ForMachine == {"replaceBank", "lockMachine"}
             ForProduct == {"lockProduct"}
  <2>1. \A r \in R : pc[r] \in LastPoints \cup ForMachine \cup ForProduct \cup PooledStatements
    BY DEF BusyStates, PurchaseStates, RestockStates, SaleTxStates, RestockTxStates,
           MachineHeld, PooledStatements
  <2>2. CASE At(LastPoints)
    <3>1. PICK r \in R : pc[r] \in LastPoints
      BY <2>2
    <3>2. Ahead(r) = {}
      BY <3>1 DEF Ahead, MachineHeld, PooledStatements
    <3> QED
      BY <3>2
  <2>3. CASE ~At(LastPoints) /\ At(ForMachine)
    <3>1. PICK r \in R : pc[r] \in ForMachine
      BY <2>3
    <3>2. \A q \in Ahead(r) : pc[q] \in LastPoints
      BY <3>1 DEF Ahead, HoldsMachine, PooledStatements
    <3> QED
      BY <2>3, <3>2
  <2>4. CASE ~At(LastPoints) /\ ~At(ForMachine) /\ At(ForProduct)
    <3>1. PICK r \in R : pc[r] = "lockProduct"
      BY <2>4
    <3>2. \A q \in Ahead(r) : pc[q] \in LastPoints \cup ForMachine
      BY <3>1 DEF Ahead, HoldsProduct, ProductHeld, MachineHeld, PooledStatements
    <3> QED
      BY <2>4, <3>2
  <2>5. CASE ~At(LastPoints) /\ ~At(ForMachine) /\ ~At(ForProduct)
    <3>1. PICK r \in R : pc[r] \in PooledStatements
      BY <1>1, <2>1, <2>5
    <3>2. \A q \in Ahead(r) : pc[q] \in TxStates
      BY <3>1 DEF Ahead, PooledStatements
    <3>3. TxStates \cap PooledStatements = {}
      BY DEF TxStates, SaleTxStates, RestockTxStates, PooledStatements
    <3>4. \A q \in R : pc[q] \in PooledStatements
      BY <2>1, <2>5
    <3> QED
      BY <3>2, <3>3, <3>4
  <2> QED
    BY <2>2, <2>3, <2>4, <2>5
<1>2. NoCircularWait
  BY <1>1 DEF NoCircularWait
<1> QED
  BY <1>2, PTL

----------------------------------------------------------------------------
(***************************************************************************)
(* The books: what the banks of the machines add up to, and what a restock *)
(* adds.                                                                   *)
(***************************************************************************)

(* A purchase that has decided, and a restock that has computed its bank.  *)
DecidedStates == {"beginSale"} \cup SaleTxStates
ComputedStates == {"writeBank", "commitRestock"}

(* At most one transaction holds the row of a machine. *)
MachineHolders ==
    \A q, r \in Requests :
        pc[q] \in MachineHeld /\ pc[r] \in MachineHeld /\ req[q].machine = req[r].machine
            => q = r

(* What a purchase has decided was right for the bank it read: the bank of *)
(* the machine as long as nobody has written it, and a bank made of coins  *)
(* that were in the machine even if somebody has.                          *)
DecisionKnown(r) ==
    pc[r] \in DecidedStates =>
        LET m == req[r].machine
            read == AddCoins(view[r].after, view[r].change)
        IN  /\ view[r].version <= version[m]
            /\ view[r].version = version[m] => bank[m] = read
            /\ \A d \in Denominations : read[d] <= InitBank[m][d] + restocked[m][d]

(* What a restock has computed is right, because it holds the row. *)
ComputedFromBank(r) ==
    pc[r] \in ComputedStates =>
        view[r].after = AddCoins(bank[req[r].machine], req[r].coins)

BooksInv ==
    /\ MachineHolders
    /\ \A r \in Requests : DecisionKnown(r) /\ ComputedFromBank(r)
    /\ BankBalanced /\ BankBacked

LEMMA BodyOf ==
    ASSUME TypeInv, NEW r \in Requests, pc[r] \in BusyStates
    PROVE  /\ req[r].machine \in Machines /\ req[r].coins \in Inserted
           /\ r \in Purchases => req[r].product \in Products
           /\ r \in Purchases <=> pc[r] \in PurchaseStates
<1>1. PurchaseStates \cap RestockStates = {}
      /\ {"idle", "done"} \cap (PurchaseStates \cup RestockStates) = {}
  BY DEF PurchaseStates, RestockStates, SaleTxStates, RestockTxStates
<1>2. CASE r \in Purchases
  <2>1. pc[r] \in PurchaseStates /\ req[r] \in PurchaseBody
    BY <1>1, <1>2 DEF TypeInv, BodiesKnown, BusyStates
  <2> QED
    BY <1>2, <2>1 DEF PurchaseBody
<1>3. CASE r \in Restocks
  <2>1. pc[r] \in RestockStates /\ req[r] \in RestockBody /\ r \notin Purchases
    BY <1>1, <1>3, RequestsAssumption DEF TypeInv, BodiesKnown, BusyStates
  <2> QED
    BY <1>1, <2>1 DEF RestockBody
<1> QED
  BY <1>2, <1>3 DEF Requests

LEMMA StatesInOrder ==
    /\ DecidedStates \subseteq PurchaseStates /\ ComputedStates \subseteq RestockStates
    /\ PurchaseStates \cup RestockStates = BusyStates
    /\ MachineHeld \subseteq BusyStates /\ ComputedStates \subseteq MachineHeld
    /\ "done" \notin BusyStates /\ "idle" \notin BusyStates
    /\ {"getProduct", "getMachineBank", "beginRestock", "lockMachine", "reread", "done", "idle"}
           \cap (DecidedStates \cup ComputedStates \cup MachineHeld) = {}
  BY DEF DecidedStates, ComputedStates, PurchaseStates, RestockStates, BusyStates,
         MachineHeld, SaleTxStates, RestockTxStates

LEMMA BooksInit == Init => BooksInv
<1> SUFFICES ASSUME Init PROVE BooksInv
  OBVIOUS
<1>1. \A r \in Requests : pc[r] = "idle"
  BY DEF Init
<1>2. MachineHolders /\ \A r \in Requests : DecisionKnown(r) /\ ComputedFromBank(r)
  BY <1>1, StatesInOrder DEF MachineHolders, DecisionKnown, ComputedFromBank
<1>3. ASSUME NEW m \in Machines, NEW d \in Denominations
      PROVE  /\ bank[m][d] + paid[m][d] = InitBank[m][d] + restocked[m][d]
             /\ bank[m][d] <= InitBank[m][d] + restocked[m][d]
  <2>1. bank[m][d] = InitBank[m][d] /\ paid[m][d] = 0 /\ restocked[m][d] = 0
    BY NoCoinsType DEF Init
  <2>2. InitBank[m][d] \in Nat
    BY SeedAssumption DEF CoinBank
  <2> QED
    BY <2>1, <2>2
<1> QED
  BY <1>2, <1>3 DEF BooksInv, BankBalanced, BankBacked

(* A step of one request that writes no bank. *)
LEMMA BooksQuietStep ==
    ASSUME StateInv, BooksInv, NEW r \in Requests, NEW to,
           pc' = [pc EXCEPT ![r] = to],
           \A q \in Requests : q # r => req'[q] = req[q] /\ view'[q] = view[q],
           UNCHANGED <<bank, restocked, paid, version, overwritten>>,
           \/ to \notin MachineHeld
           \/ req' = req /\ (pc[r] \in MachineHeld \/ MachineFree(req[r].machine)),
           DecisionKnown(r)', ComputedFromBank(r)'
    PROVE  BooksInv'
<1>1. \A q \in Requests : pc'[q] = IF q = r THEN to ELSE pc[q]
  BY DEF StateInv, TypeInv, TypeOK
<1>2. BankBalanced' /\ BankBacked'
  BY DEF BooksInv, BankBalanced, BankBacked
<1>3. MachineHolders'
  <2>1. CASE to \notin MachineHeld
    BY <1>1, <2>1 DEF BooksInv, MachineHolders
  <2>2. CASE req' = req /\ pc[r] \in MachineHeld
    BY <1>1, <2>2 DEF BooksInv, MachineHolders
  <2>3. CASE req' = req /\ MachineFree(req[r].machine)
    BY <1>1, <2>3 DEF BooksInv, MachineHolders, MachineFree, HoldsMachine
  <2> QED
    BY <2>1, <2>2, <2>3
<1>4. ASSUME NEW q \in Requests, q # r PROVE DecisionKnown(q)' /\ ComputedFromBank(q)'
  BY <1>1, <1>4 DEF BooksInv, DecisionKnown, ComputedFromBank
<1> QED
  BY <1>2, <1>3, <1>4 DEF BooksInv

(* A commit changes the bank of a machine that no other transaction holds, *)
(* and leaves every purchase that has read this bank with an old version.  *)
LEMMA BooksCommitStep ==
    ASSUME StateInv, BooksInv, NEW r \in Requests, pc[r] \in MachineHeld,
           NEW to, to \notin MachineHeld \cup DecidedStates,
           pc' = [pc EXCEPT ![r] = to], req' = req,
           \A q \in Requests : q # r => view'[q] = view[q],
           NEW after, bank' = [bank EXCEPT ![req[r].machine] = after],
           version' = [version EXCEPT ![req[r].machine] = @ + 1],
           restocked' \in [Machines -> CoinBank],
           \A m \in Machines : \A d \in Denominations : restocked[m][d] <= restocked'[m][d]
    PROVE  MachineHolders' /\ \A q \in Requests : DecisionKnown(q)' /\ ComputedFromBank(q)'
<1>1. \A q \in Requests : pc'[q] = IF q = r THEN to ELSE pc[q]
  BY DEF StateInv, TypeInv, TypeOK
<1>2. /\ bank \in [Machines -> CoinBank] /\ version \in [Machines -> Nat]
      /\ restocked \in [Machines -> CoinBank]
  BY DEF StateInv, TypeInv, TypeOK
<1>3. MachineHolders'
  BY <1>1 DEF BooksInv, MachineHolders
<1>4. ASSUME NEW q \in Requests PROVE DecisionKnown(q)'
  <2> SUFFICES ASSUME pc'[q] \in DecidedStates PROVE DecisionKnown(q)'
    BY DEF DecisionKnown
  <2> DEFINE m == req[q].machine
             read == AddCoins(view[q].after, view[q].change)
  <2>1. q # r /\ pc[q] \in DecidedStates /\ view'[q] = view[q]
    BY <1>1
  <2>2. m \in Machines /\ view[q].version \in Nat /\ read \in CoinBank
    <3>1. m \in Machines
      BY <2>1, StatesInOrder, BodyOf DEF StateInv
    <3>2. view[q].after \in CoinBank /\ view[q].change \in CoinBank /\ view[q].version \in Nat
      BY DEF StateInv, TypeInv, TypeOK
    <3> QED
      BY <3>1, <3>2, AddCoinsType
  <2>3. /\ view[q].version <= version[m]
        /\ view[q].version = version[m] => bank[m] = read
        /\ \A d \in Denominations : read[d] <= InitBank[m][d] + restocked[m][d]
    BY <2>1 DEF BooksInv, DecisionKnown
  <2>4. \A d \in Denominations : read[d] <= InitBank[m][d] + restocked'[m][d]
    <3> SUFFICES ASSUME NEW d \in Denominations
                 PROVE  read[d] <= InitBank[m][d] + restocked'[m][d]
      OBVIOUS
    <3>1. /\ InitBank[m][d] \in Nat /\ restocked[m][d] \in Nat /\ restocked'[m][d] \in Nat
          /\ read[d] \in Nat
      BY <1>2, <2>2, SeedAssumption DEF CoinBank
    <3> HIDE DEF read
    <3>2. read[d] <= InitBank[m][d] + restocked[m][d] /\ restocked[m][d] <= restocked'[m][d]
      BY <2>2, <2>3
    <3> QED
      BY <3>1, <3>2
  <2>5. CASE m = req[r].machine
    <3>1. version'[m] = version[m] + 1
      BY <1>2, <2>2, <2>5
    <3>2. view[q].version <= version'[m] /\ view[q].version # version'[m]
      BY <1>2, <2>2, <2>3, <3>1
    <3> QED
      BY <2>1, <2>4, <3>2 DEF DecisionKnown
  <2>6. CASE m # req[r].machine
    <3>1. version'[m] = version[m] /\ bank'[m] = bank[m]
      BY <1>2, <2>2, <2>6
    <3> QED
      BY <2>1, <2>3, <2>4, <3>1 DEF DecisionKnown
  <2> QED
    BY <2>5, <2>6
<1>5. ASSUME NEW q \in Requests PROVE ComputedFromBank(q)'
  <2> SUFFICES ASSUME pc'[q] \in ComputedStates PROVE ComputedFromBank(q)'
    BY DEF ComputedFromBank
  <2>1. q # r /\ pc[q] \in ComputedStates /\ view'[q] = view[q] /\ pc[q] \in MachineHeld
    BY <1>1, StatesInOrder
  <2>2. req[q].machine # req[r].machine
    BY <2>1 DEF BooksInv, MachineHolders
  <2>3. req[q].machine \in Machines
    BY <2>1, StatesInOrder, BodyOf DEF StateInv
  <2>4. bank'[req[q].machine] = bank[req[q].machine]
    BY <1>2, <2>2, <2>3
  <2> QED
    BY <2>1, <2>4 DEF BooksInv, ComputedFromBank
<1> QED
  BY <1>3, <1>4, <1>5

LEMMA BooksSaleStep ==
    ASSUME StateInv, StateInv', BooksInv, NEW p \in Purchases, pc[p] = "commitSale",
           ApplySale(p), NEW answer, Finish(p, answer)
    PROVE  BooksInv'
<1> DEFINE m == req[p].machine
           read == AddCoins(view[p].after, view[p].change)
<1>1. p \in Requests /\ pc[p] \in MachineHeld \cap DecidedStates
  BY DEF Requests, MachineHeld, DecidedStates, SaleTxStates
<1>2. /\ m \in Machines /\ view[p].after \in CoinBank /\ view[p].change \in CoinBank
      /\ view[p].version \in Nat
  BY <1>1, StatesInOrder, BodyOf DEF StateInv, TypeInv, TypeOK
<1>3. /\ view[p].version = version[m] => bank[m] = read
      /\ \A d \in Denominations : read[d] <= InitBank[m][d] + restocked[m][d]
  BY <1>1 DEF BooksInv, DecisionKnown
<1>4. /\ bank \in [Machines -> CoinBank] /\ version \in [Machines -> Nat]
      /\ restocked \in [Machines -> CoinBank] /\ paid \in [Machines -> CoinBank]
      /\ pc \in [Requests -> BusyStates \cup {"idle", "done"}] /\ view \in [Requests ->
            [price : Nat, stock : Nat, change : CoinBank, after : CoinBank, version : Nat]]
  BY DEF StateInv, TypeInv, TypeOK
<1>5. MachineHolders' /\ \A q \in Requests : DecisionKnown(q)' /\ ComputedFromBank(q)'
  <2>1. \A n \in Machines : \A d \in Denominations : restocked[n][d] <= restocked'[n][d]
    BY <1>4 DEF ApplySale, CoinBank
  <2>2. /\ pc' = [pc EXCEPT ![p] = "done"] /\ req' = req
        /\ \A q \in Requests : q # p => view'[q] = view[q]
        /\ "done" \notin MachineHeld \cup DecidedStates
        /\ bank' = [bank EXCEPT ![m] = view[p].after]
        /\ version' = [version EXCEPT ![m] = @ + 1]
        /\ restocked' \in [Machines -> CoinBank]
    BY <1>4, StatesInOrder DEF Finish, Goto, ApplySale
  <2> QED
    BY <1>1, <2>1, <2>2, BooksCommitStep
<1>6. ASSUME NEW n \in Machines, NEW d \in Denominations
      PROVE  /\ bank'[n][d] <= InitBank[n][d] + restocked'[n][d]
             /\ n \notin overwritten' =>
                    bank'[n][d] + paid'[n][d] = InitBank[n][d] + restocked'[n][d]
  <2>1. /\ bank[n][d] \in Nat /\ paid[n][d] \in Nat /\ InitBank[n][d] \in Nat
        /\ restocked[n][d] \in Nat /\ view[p].after[d] \in Nat /\ view[p].change[d] \in Nat
        /\ restocked' = restocked
    BY <1>2, <1>4, SeedAssumption DEF CoinBank, ApplySale
  <2>2. /\ bank[n][d] <= InitBank[n][d] + restocked[n][d]
        /\ n \notin overwritten =>
               bank[n][d] + paid[n][d] = InitBank[n][d] + restocked[n][d]
    BY DEF BooksInv, BankBacked, BankBalanced
  <2>3. CASE n # m
    <3>1. bank'[n] = bank[n] /\ paid'[n] = paid[n] /\ overwritten \subseteq overwritten'
      BY <1>4, <2>3 DEF ApplySale
    <3> QED
      BY <2>1, <2>2, <3>1
  <2>4. CASE n = m
    <3>1. bank'[n][d] = view[p].after[d] /\ paid'[n][d] = paid[n][d] + view[p].change[d]
      BY <1>4, <2>4 DEF ApplySale, AddCoins
    <3>2. read[d] = view[p].after[d] + view[p].change[d]
      BY DEF AddCoins
    <3>3. bank'[n][d] <= InitBank[n][d] + restocked'[n][d]
      <4>1. read[d] <= InitBank[n][d] + restocked[n][d]
        BY <1>3, <2>4
      <4> HIDE DEF read
      <4> QED
        BY <2>1, <3>1, <3>2, <4>1
    <3>4. ASSUME n \notin overwritten'
          PROVE  bank'[n][d] + paid'[n][d] = InitBank[n][d] + restocked'[n][d]
      <4>1. n \notin overwritten /\ view[p].version = version[n]
        BY <2>4, <3>4 DEF ApplySale
      <4>2. bank[n][d] = read[d]
        BY <1>3, <2>4, <4>1
      <4> HIDE DEF read
      <4> QED
        BY <2>1, <2>2, <3>1, <3>2, <4>1, <4>2
    <3> QED
      BY <3>3, <3>4
  <2> QED
    BY <2>3, <2>4
<1> QED
  BY <1>5, <1>6 DEF BooksInv, BankBacked, BankBalanced

LEMMA BooksRestockStep ==
    ASSUME StateInv, StateInv', BooksInv, NEW r \in Restocks, pc[r] = "commitRestock",
           ApplyRestock(r),
           \/ \E answer : Finish(r, answer)
           \/ Goto(r, "reread") /\ UNCHANGED <<view, reply>>
    PROVE  /\ BooksInv'
           /\ bank' = [bank EXCEPT ![req[r].machine] = AddCoins(@, req[r].coins)]
<1> DEFINE m == req[r].machine
<1>1. r \in Requests /\ pc[r] \in MachineHeld \cap ComputedStates
  BY DEF Requests, MachineHeld, ComputedStates
<1>2. m \in Machines /\ req[r].coins \in Inserted
  BY <1>1, StatesInOrder, BodyOf DEF StateInv
<1>3. view[r].after = AddCoins(bank[m], req[r].coins)
  BY <1>1 DEF BooksInv, ComputedFromBank
<1>4. /\ bank \in [Machines -> CoinBank] /\ version \in [Machines -> Nat]
      /\ restocked \in [Machines -> CoinBank] /\ paid \in [Machines -> CoinBank]
      /\ view \in [Requests ->
            [price : Nat, stock : Nat, change : CoinBank, after : CoinBank, version : Nat]]
      /\ restocked' \in [Machines -> CoinBank]
  BY DEF StateInv, TypeInv, TypeOK
<1>5. /\ bank' = [bank EXCEPT ![m] = view[r].after]
      /\ restocked' = [restocked EXCEPT ![m] = AddCoins(@, req[r].coins)]
      /\ version' = [version EXCEPT ![m] = @ + 1]
      /\ req' = req /\ paid' = paid /\ overwritten' = overwritten
  BY DEF ApplyRestock
<1>6. ASSUME NEW n \in Machines, NEW d \in Denominations
      PROVE  /\ restocked[n][d] <= restocked'[n][d]
             /\ bank'[n][d] <= InitBank[n][d] + restocked'[n][d]
             /\ n \notin overwritten' =>
                    bank'[n][d] + paid'[n][d] = InitBank[n][d] + restocked'[n][d]
  <2>1. /\ bank[n][d] \in Nat /\ paid[n][d] \in Nat /\ InitBank[n][d] \in Nat
        /\ restocked[n][d] \in Nat /\ req[r].coins[d] \in Nat
    BY <1>2, <1>4, SeedAssumption DEF CoinBank, Inserted, Faces
  <2>2. /\ bank[n][d] <= InitBank[n][d] + restocked[n][d]
        /\ n \notin overwritten =>
               bank[n][d] + paid[n][d] = InitBank[n][d] + restocked[n][d]
    BY DEF BooksInv, BankBacked, BankBalanced
  <2>3. CASE n # m
    <3>1. bank'[n] = bank[n] /\ restocked'[n] = restocked[n]
      BY <1>4, <1>5, <2>3
    <3> QED
      BY <1>5, <2>1, <2>2, <3>1
  <2>4. CASE n = m
    <3>1. /\ bank'[n][d] = bank[n][d] + req[r].coins[d]
          /\ restocked'[n][d] = restocked[n][d] + req[r].coins[d]
      BY <1>3, <1>4, <1>5, <2>4 DEF AddCoins
    <3> QED
      BY <1>5, <2>1, <2>2, <3>1
  <2> QED
    BY <2>3, <2>4
<1>7. MachineHolders' /\ \A q \in Requests : DecisionKnown(q)' /\ ComputedFromBank(q)'
  <2>1. PICK to : pc' = [pc EXCEPT ![r] = to] /\ to \notin MachineHeld \cup DecidedStates
    BY StatesInOrder DEF Finish, Goto
  <2>2. \A q \in Requests : q # r => view'[q] = view[q]
    BY <1>4 DEF Finish
  <2> QED
    BY <1>1, <1>4, <1>5, <1>6, <2>1, <2>2, BooksCommitStep
<1>8. bank' = [bank EXCEPT ![m] = AddCoins(@, req[r].coins)]
  BY <1>2, <1>3, <1>4, <1>5
<1> QED
  BY <1>6, <1>7, <1>8 DEF BooksInv, BankBacked, BankBalanced

----------------------------------------------------------------------------
(* The steps that write no bank, by their shape. *)
LEMMA BooksAnswer ==
    ASSUME StateInv, BooksInv, NEW r \in Requests, NEW answer, Answer(r, answer)
    PROVE  BooksInv'
<1>1. /\ pc' = [pc EXCEPT ![r] = "done"]
      /\ \A q \in Requests : q # r => req'[q] = req[q] /\ view'[q] = view[q]
      /\ UNCHANGED <<bank, restocked, paid, version, overwritten>>
  BY DEF Answer, Finish, Goto, database, ledger, StateInv, TypeInv, TypeOK
<1>2. DecisionKnown(r)' /\ ComputedFromBank(r)'
  BY <1>1, StatesInOrder DEF DecisionKnown, ComputedFromBank, StateInv, TypeInv, TypeOK
<1> QED
  BY <1>1, <1>2, StatesInOrder, BooksQuietStep

LEMMA BooksArrive ==
    ASSUME StateInv, BooksInv, NEW r \in Requests, NEW first \in {"getProduct", "beginRestock"},
           Arrive(r, first)
    PROVE  BooksInv'
<1>1. PICK to \in {first, "done"} : pc' = [pc EXCEPT ![r] = to]
  BY DEF Arrive, Finish, Goto
<1>2. /\ \A q \in Requests : q # r => req'[q] = req[q] /\ view'[q] = view[q]
      /\ UNCHANGED <<bank, restocked, paid, version, overwritten>>
  BY DEF Arrive, Finish, database, ledger, StateInv, TypeInv, TypeOK
<1>3. to \notin DecidedStates \cup ComputedStates \cup MachineHeld
  BY <1>1, StatesInOrder
<1>4. DecisionKnown(r)' /\ ComputedFromBank(r)'
  BY <1>1, <1>3 DEF DecisionKnown, ComputedFromBank, StateInv, TypeInv, TypeOK
<1> QED
  BY <1>1, <1>2, <1>3, <1>4, BooksQuietStep

(* A request that goes on with what it knows, or with what it has read,    *)
(* before it has decided anything.                                         *)
LEMMA BooksProceed ==
    ASSUME StateInv, BooksInv, NEW r \in Requests, NEW to, Proceed(r, to),
           \A q \in Requests : q # r => view'[q] = view[q],
           to \notin MachineHeld \/ pc[r] \in MachineHeld \/ MachineFree(req[r].machine),
           to \notin DecidedStates \/ (pc[r] \in DecidedStates /\ view' = view),
           to \notin ComputedStates \/ (pc[r] \in ComputedStates /\ view' = view)
    PROVE  BooksInv'
<1>1. pc' = [pc EXCEPT ![r] = to] /\ UNCHANGED <<req, bank, restocked, paid, version, overwritten>>
  BY DEF Proceed, Goto, database, ledger
<1>2. pc'[r] = to
  BY <1>1 DEF StateInv, TypeInv, TypeOK
<1>3. DecisionKnown(r)' /\ ComputedFromBank(r)'
  BY <1>1, <1>2 DEF DecisionKnown, ComputedFromBank, BooksInv
<1> QED
  BY <1>1, <1>3, BooksQuietStep

(* The decision: bank and version are read in one step. *)
LEMMA BooksDecide ==
    ASSUME StateInv, BooksInv, NEW p \in Purchases, GetMachineBank(p)
    PROVE  BooksInv'
<1> DEFINE m == req[p].machine
           decision == Purchase(view[p].price, view[p].stock, bank[m], req[p].coins)
<1>1. p \in Requests /\ pc[p] = "getMachineBank" /\ pc[p] \in BusyStates
  BY DEF Requests, GetMachineBank, BusyStates, PurchaseStates
<1>2. CASE \E answer \in {"MachineNotFound", decision.outcome} : Answer(p, answer)
  BY <1>1, <1>2, BooksAnswer
<1>3. CASE /\ Proceed(p, "beginSale")
           /\ view' = [view EXCEPT ![p].change = decision.change,
                                   ![p].after = decision.remaining,
                                   ![p].version = version[m]]
  <2>1. m \in Machines /\ req[p].coins \in Inserted
    BY <1>1, BodyOf DEF StateInv
  <2>2. /\ bank[m] \in CoinBank /\ version[m] \in Nat /\ view[p].price \in Nat
        /\ view[p].stock \in Nat
    BY <1>1, <2>1 DEF StateInv, TypeInv, TypeOK
  <2>3. AddCoins(decision.remaining, decision.change) = bank[m]
    BY <2>1, <2>2, PurchaseSound
  <2> HIDE DEF decision
  <2>4. /\ view'[p].after = decision.remaining /\ view'[p].change = decision.change
        /\ view'[p].version = version[m]
        /\ \A q \in Requests : q # p => view'[q] = view[q]
    BY <1>1, <1>3 DEF StateInv, TypeInv, TypeOK
  <2>5. /\ pc' = [pc EXCEPT ![p] = "beginSale"]
        /\ UNCHANGED <<req, bank, restocked, paid, version, overwritten>>
    BY <1>3 DEF Proceed, Goto, database, ledger
  <2>6. \A d \in Denominations : bank[m][d] <= InitBank[m][d] + restocked[m][d]
    BY <2>1 DEF BooksInv, BankBacked
  <2>7. DecisionKnown(p)'
    BY <2>2, <2>3, <2>4, <2>5, <2>6 DEF DecisionKnown
  <2>8. pc'[p] = "beginSale" /\ "beginSale" \notin ComputedStates \cup MachineHeld
    BY <1>1, <2>5 DEF StateInv, TypeInv, TypeOK, ComputedStates, MachineHeld
  <2>9. ComputedFromBank(p)'
    BY <2>8 DEF ComputedFromBank
  <2> QED
    BY <1>1, <2>4, <2>5, <2>7, <2>8, <2>9, BooksQuietStep
<1> QED
  BY <1>2, <1>3 DEF GetMachineBank

(* A restock computes its bank from the row it has just locked. *)
LEMMA BooksLock ==
    ASSUME StateInv, BooksInv, NEW r \in Restocks, LockMachine(r)
    PROVE  BooksInv'
<1> DEFINE m == req[r].machine
           after == AddCoins(bank[m], req[r].coins)
<1>1. r \in Requests /\ pc[r] = "lockMachine"
  BY DEF Requests, LockMachine
<1>2. CASE Answer(r, "MachineNotFound")
  BY <1>1, <1>2, BooksAnswer
<1>3. CASE /\ MachineFree(m) /\ Proceed(r, "writeBank")
           /\ view' = [view EXCEPT ![r].after = after, ![r].version = version[m]]
  <2> HIDE DEF after
  <2>1. view'[r].after = after /\ \A q \in Requests : q # r => view'[q] = view[q]
    BY <1>1, <1>3 DEF StateInv, TypeInv, TypeOK
  <2>2. /\ pc' = [pc EXCEPT ![r] = "writeBank"]
        /\ UNCHANGED <<req, bank, restocked, paid, version, overwritten>>
    BY <1>3 DEF Proceed, Goto, database, ledger
  <2>3. pc'[r] = "writeBank" /\ "writeBank" \notin DecidedStates
    BY <1>1, <2>2 DEF StateInv, TypeInv, TypeOK, DecidedStates, SaleTxStates
  <2>4. DecisionKnown(r)' /\ ComputedFromBank(r)'
    BY <2>1, <2>2, <2>3 DEF DecisionKnown, ComputedFromBank, after
  <2> QED
    BY <1>1, <1>3, <2>1, <2>2, <2>4, BooksQuietStep
<1> QED
  BY <1>1, <1>2, <1>3, RowIsFree DEF LockMachine

LEMMA BooksPurchase ==
    ASSUME StateInv, StateInv', BooksInv, NEW p \in Purchases,
           ArrivePurchase(p) \/ AdvancePurchase(p) \/ CommitSaleUnacknowledged(p)
    PROVE  BooksInv'
<1>1. p \in Requests /\ view \in [Requests ->
          [price : Nat, stock : Nat, change : CoinBank, after : CoinBank, version : Nat]]
  BY DEF Requests, StateInv, TypeInv, TypeOK
<1>2. /\ {"beginSale", "lockProduct", "decrementStock", "replaceBank", "insertSale",
           "commitSale"} \subseteq DecidedStates
      /\ {"insertSale", "commitSale"} \subseteq MachineHeld
      /\ {"lockProduct", "decrementStock", "replaceBank"} \cap MachineHeld = {}
      /\ {"lockProduct", "decrementStock", "replaceBank", "insertSale", "commitSale"}
             \cap ComputedStates = {}
  BY DEF DecidedStates, SaleTxStates, MachineHeld, ComputedStates
<1>3. CASE ArrivePurchase(p)
  BY <1>1, <1>3, BooksArrive DEF ArrivePurchase
<1>4. CASE GetProduct(p)
  <2>1. CASE Answer(p, "ProductNotFound")
    BY <1>1, <2>1, BooksAnswer
  <2>2. CASE /\ Proceed(p, "getMachineBank")
             /\ view' = [view EXCEPT ![p].price = Price[req[p].product],
                                     ![p].stock = stock[req[p].product]]
    BY <1>1, <2>2, StatesInOrder, BooksProceed
  <2> QED
    BY <1>4, <2>1, <2>2 DEF GetProduct
<1>5. CASE GetMachineBank(p)
  BY <1>5, BooksDecide
<1>6. CASE BeginSale(p)
  BY <1>1, <1>2, <1>6, BooksProceed DEF BeginSale
<1>7. CASE LockProduct(p)
  BY <1>1, <1>2, <1>7, RowIsFree, BooksAnswer, BooksProceed DEF LockProduct
<1>8. CASE DecrementStock(p)
  BY <1>1, <1>2, <1>8, BooksAnswer, BooksProceed DEF DecrementStock
<1>9. CASE ReplaceBank(p)
  BY <1>1, <1>2, <1>9, RowIsFree, BooksAnswer, BooksProceed DEF ReplaceBank
<1>10. CASE InsertSale(p)
  BY <1>1, <1>2, <1>10, BooksProceed DEF InsertSale
<1>11. CASE CommitSale(p) \/ CommitSaleUnacknowledged(p)
  BY <1>11, BooksSaleStep DEF CommitSale, CommitSaleUnacknowledged
<1> QED
  BY <1>3, <1>4, <1>5, <1>6, <1>7, <1>8, <1>9, <1>10, <1>11 DEF AdvancePurchase

LEMMA BooksRestock ==
    ASSUME StateInv, StateInv', BooksInv, NEW r \in Restocks,
           ArriveRestock(r) \/ AdvanceRestock(r) \/ CommitRestockUnacknowledged(r)
    PROVE  BooksInv'
<1>1. r \in Requests
  BY DEF Requests
<1>2. /\ {"writeBank", "commitRestock"} \subseteq ComputedStates \cap MachineHeld
      /\ {"writeBank", "commitRestock"} \cap DecidedStates = {}
  BY DEF DecidedStates, SaleTxStates, MachineHeld, ComputedStates
<1>3. CASE ArriveRestock(r)
  BY <1>1, <1>3, BooksArrive DEF ArriveRestock
<1>4. CASE BeginRestock(r)
  BY <1>1, <1>4, StatesInOrder, BooksProceed DEF BeginRestock
<1>5. CASE LockMachine(r)
  BY <1>5, BooksLock
<1>6. CASE WriteBank(r)
  BY <1>1, <1>2, <1>6, BooksProceed DEF WriteBank
<1>7. CASE CommitRestock(r) \/ CommitRestockUnacknowledged(r)
  BY <1>7, BooksRestockStep DEF CommitRestock, CommitRestockUnacknowledged
<1>8. CASE Reread(r)
  BY <1>1, <1>8, BooksAnswer DEF Reread
<1> QED
  BY <1>3, <1>4, <1>5, <1>6, <1>7, <1>8 DEF AdvanceRestock

LEMMA BooksCrash == StateInv /\ BooksInv /\ Crash => BooksInv'
<1> SUFFICES ASSUME StateInv, BooksInv, Crash PROVE BooksInv'
  OBVIOUS
<1>1. \A r \in Requests : pc'[r] = "done" \/ (pc'[r] = pc[r] /\ view'[r] = view[r])
  BY DEF Crash
<1>2. UNCHANGED <<req, bank, restocked, paid, version, overwritten>>
  BY DEF Crash, database, ledger
<1>3. BankBalanced' /\ BankBacked'
  BY <1>2 DEF BooksInv, BankBalanced, BankBacked
<1>4. MachineHolders'
  BY <1>1, <1>2, StatesInOrder DEF BooksInv, MachineHolders
<1>5. ASSUME NEW r \in Requests PROVE DecisionKnown(r)' /\ ComputedFromBank(r)'
  BY <1>1, <1>2, StatesInOrder DEF BooksInv, DecisionKnown, ComputedFromBank
<1> QED
  BY <1>3, <1>4, <1>5 DEF BooksInv

LEMMA BooksUnchanged ==
    ASSUME BooksInv, UNCHANGED <<bank, request, ledger>>
    PROVE  BooksInv'
  BY DEF BooksInv, MachineHolders, DecisionKnown, ComputedFromBank, BankBalanced, BankBacked,
         request, ledger

LEMMA BooksStep == StateInv /\ StateInv' /\ BooksInv /\ [Next]_vars => BooksInv'
<1> SUFFICES ASSUME StateInv, StateInv', BooksInv, [Next]_vars PROVE BooksInv'
  OBVIOUS
<1>1. ASSUME NEW r \in Requests, StatementFails(r) PROVE BooksInv'
  BY <1>1, BooksAnswer DEF StatementFails
<1>2. ASSUME NEW product \in Products, RemoveProduct(product) PROVE BooksInv'
  BY <1>2, BooksUnchanged DEF RemoveProduct
<1>3. ASSUME NEW machine \in Machines, RemoveMachine(machine) PROVE BooksInv'
  BY <1>3, BooksUnchanged DEF RemoveMachine
<1>4. CASE UNCHANGED vars
  BY <1>4, BooksUnchanged DEF vars, database
<1> QED
  BY <1>1, <1>2, <1>3, <1>4, BooksPurchase, BooksRestock, BooksCrash DEF Next

LEMMA BooksInvariant == Spec => [](StateInv /\ BooksInv)
<1>1. Init => BooksInv
  BY BooksInit
<1> QED
  BY <1>1, BooksStep, StateInvariant, PTL DEF Spec

(* As long as no sale has overwritten a bank it had not read, the coins in *)
(* a machine are those it was created with and got, less those it paid out *)
(* (commitPurchase, restockBank); even then no bank claims a coin that was *)
(* never put into the machine.                                             *)
THEOREM BooksBalance == Spec => []BooksHold
<1>1. BooksInv => BooksHold
  BY DEF BooksInv, BooksHold
<1> QED
  BY <1>1, BooksInvariant, PTL

(* A restock adds its coins to whatever bank is committed at that moment   *)
(* (restockBank: "concurrent restocks cannot lose an update").             *)
THEOREM RestocksAdd == Spec => RestockAddsItsCoins
<1> DEFINE Adds == \A r \in Restocks :
               CommitRestock(r) \/ CommitRestockUnacknowledged(r) =>
                   bank' = [bank EXCEPT ![req[r].machine] = AddCoins(@, req[r].coins)]
<1>1. ASSUME StateInv, StateInv', BooksInv, [Next]_vars PROVE [Adds]_vars
  BY <1>1, BooksRestockStep DEF CommitRestock, CommitRestockUnacknowledged
<1> QED
  BY <1>1, BooksInvariant, PTL DEF Spec, RestockAddsItsCoins

----------------------------------------------------------------------------
(***************************************************************************)
(* The answers.  A request is answered at its end, and what it has read of *)
(* the stock is not less than what there is: the stock only ever falls.    *)
(***************************************************************************)
RepliesAtEnd == \A r \in Requests : pc[r] # "done" => reply[r] = "None"

StockSeen(r) == pc[r] = "getMachineBank" => stock[req[r].product] <= view[r].stock

RefusedProductsExist ==
    \A p \in Purchases : reply[p] = "OutOfStock" => req[p].product \in Products

AnswersInv ==
    /\ RepliesAtEnd /\ RefusedProductsExist
    /\ \A p \in Purchases : StockSeen(p)
    /\ AnswersTruthful /\ RefusalsFinal

LEMMA AnswersInit == Init => AnswersInv
<1> SUFFICES ASSUME Init PROVE AnswersInv
  OBVIOUS
<1>1. \A r \in Requests : pc[r] = "idle" /\ reply[r] = "None"
  BY DEF Init
<1>2. "None" \notin Refusals /\ \A p \in Purchases : p \in Requests
  BY DEF Refusals, Requests
<1>3. AnswersTruthful
  BY <1>1, <1>2 DEF Init, AnswersTruthful, SalesBy
<1> QED
  BY <1>1, <1>2, <1>3
  DEF AnswersInv, RepliesAtEnd, RefusedProductsExist, StockSeen, RefusalsFinal

(* A step of one request that commits no sale; `answer` is what the client *)
(* has been told after it.                                                 *)
LEMMA AnswersQuietStep ==
    ASSUME StateInv, StateInv', AnswersInv, NEW r \in Requests, pc[r] # "done",
           NEW to, pc' = [pc EXCEPT ![r] = to],
           \A q \in Requests : q # r => req'[q] = req[q] /\ view'[q] = view[q],
           UNCHANGED <<stock, sales, products, machines>>,
           NEW answer, reply' = [reply EXCEPT ![r] = answer],
           to = "done" \/ answer = "None",
           answer # "Sold",
           answer = "OutOfStock" => /\ req'[r].product \in Products
                                    /\ stock[req'[r].product] = 0,
           answer = "ProductNotFound" => req'[r].product \notin products,
           answer = "MachineNotFound" => req'[r].machine \notin machines,
           r \in Purchases => StockSeen(r)'
    PROVE  AnswersInv'
<1>1. \A q \in Requests : /\ pc'[q] = IF q = r THEN to ELSE pc[q]
                          /\ reply'[q] = IF q = r THEN answer ELSE reply[q]
  BY DEF StateInv, TypeInv, TypeOK
<1>2. \A p \in Purchases : p \in Requests /\ SalesBy(p)' = SalesBy(p)
  BY DEF Requests, SalesBy
<1>3. RepliesAtEnd'
  BY <1>1 DEF AnswersInv, RepliesAtEnd
<1>4. RefusedProductsExist'
  BY <1>1, <1>2 DEF AnswersInv, RefusedProductsExist
<1>5. ASSUME NEW p \in Purchases PROVE StockSeen(p)'
  BY <1>1, <1>2 DEF AnswersInv, StockSeen
<1>6. AnswersTruthful'
  <2> SUFFICES ASSUME NEW p \in Purchases
               PROVE  /\ reply'[p] = "Sold" =>
                             \E s \in sales' : /\ SalesBy(p)' = {s}
                                               /\ s.machine = req'[p].machine
                                               /\ s.product = req'[p].product
                                               /\ s.inserted = SumCoins(req'[p].coins)
                      /\ pc'[p] # "done" \/ reply'[p] \in Refusals => SalesBy(p)' = {}
    BY DEF AnswersTruthful
  <2>1. CASE p = r
    <3>1. SalesBy(p) = {}
      BY <2>1 DEF AnswersInv, AnswersTruthful
    <3> QED
      BY <1>1, <1>2, <2>1, <3>1
  <2>2. CASE p # r
    BY <1>1, <1>2, <2>2 DEF AnswersInv, AnswersTruthful
  <2> QED
    BY <2>1, <2>2
<1>7. RefusalsFinal'
  BY <1>1, <1>2 DEF AnswersInv, RefusalsFinal
<1> QED
  BY <1>3, <1>4, <1>5, <1>6, <1>7 DEF AnswersInv

LEMMA AnswersAnswer ==
    ASSUME StateInv, StateInv', AnswersInv, NEW r \in Requests, pc[r] # "done",
           NEW answer, Answer(r, answer), answer # "Sold",
           answer = "OutOfStock" => req[r].product \in Products /\ stock[req[r].product] = 0,
           answer = "ProductNotFound" => req[r].product \notin products,
           answer = "MachineNotFound" => req[r].machine \notin machines
    PROVE  AnswersInv'
<1>1. /\ pc' = [pc EXCEPT ![r] = "done"] /\ reply' = [reply EXCEPT ![r] = answer]
      /\ req' = req /\ \A q \in Requests : q # r => view'[q] = view[q]
      /\ UNCHANGED <<stock, sales, products, machines>>
  BY DEF Answer, Finish, Goto, database, StateInv, TypeInv, TypeOK
<1>2. StockSeen(r)'
  BY <1>1 DEF StockSeen, StateInv, TypeInv, TypeOK
<1> QED
  BY <1>1, <1>2, AnswersQuietStep

LEMMA AnswersGoOn ==
    ASSUME StateInv, StateInv', AnswersInv, NEW r \in Requests, pc[r] # "done",
           NEW to, pc' = [pc EXCEPT ![r] = to], reply' = reply,
           \A q \in Requests : q # r => req'[q] = req[q] /\ view'[q] = view[q],
           UNCHANGED <<stock, sales, products, machines>>,
           to # "getMachineBank" \/ StockSeen(r)'
    PROVE  AnswersInv'
<1>1. reply' = [reply EXCEPT ![r] = "None"]
  <2>1. reply[r] = "None"
    BY DEF AnswersInv, RepliesAtEnd
  <2> QED
    BY <2>1 DEF StateInv, TypeInv, TypeOK
<1>2. StockSeen(r)'
  BY DEF StockSeen, StateInv, TypeInv, TypeOK
<1> QED
  BY <1>1, <1>2, AnswersQuietStep

LEMMA AnswersProceed ==
    ASSUME StateInv, StateInv', AnswersInv, NEW r \in Requests, pc[r] # "done",
           NEW to, Proceed(r, to), \A q \in Requests : q # r => view'[q] = view[q],
           to # "getMachineBank" \/ StockSeen(r)'
    PROVE  AnswersInv'
<1>1. /\ pc' = [pc EXCEPT ![r] = to] /\ reply' = reply /\ req' = req
      /\ UNCHANGED <<stock, sales, products, machines>>
  BY DEF Proceed, Goto, database
<1> QED
  BY <1>1, AnswersGoOn

LEMMA AnswersArrive ==
    ASSUME StateInv, StateInv', AnswersInv, NEW r \in Requests,
           NEW first \in {"getProduct", "beginRestock"}, Arrive(r, first)
    PROVE  AnswersInv'
<1>1. /\ pc[r] # "done" /\ UNCHANGED <<stock, sales, products, machines>>
      /\ \A q \in Requests : q # r => req'[q] = req[q]
  BY DEF Arrive, database, StateInv, TypeInv, TypeOK
<1>2. CASE \E answer \in {"BadRequest", "UnsupportedCoin"} : Finish(r, answer)
  <2>1. PICK answer \in {"BadRequest", "UnsupportedCoin"} : Finish(r, answer)
    BY <1>2
  <2>2. /\ pc' = [pc EXCEPT ![r] = "done"] /\ reply' = [reply EXCEPT ![r] = answer]
        /\ \A q \in Requests : q # r => view'[q] = view[q]
    BY <2>1 DEF Finish, Goto, StateInv, TypeInv, TypeOK
  <2>3. StockSeen(r)'
    BY <2>2 DEF StockSeen, StateInv, TypeInv, TypeOK
  <2> QED
    BY <1>1, <2>1, <2>2, <2>3, AnswersQuietStep
<1>3. CASE Goto(r, first) /\ UNCHANGED <<view, reply>>
  BY <1>1, <1>3, AnswersGoOn DEF Goto
<1> QED
  BY <1>2, <1>3 DEF Arrive

(* Only an empty stock makes a purchase be refused as out of stock. *)
LEMMA OutOfStockMeansNone ==
    ASSUME NEW price \in Nat, NEW units \in Nat, NEW b \in CoinBank, NEW coins \in Inserted,
           Purchase(price, units, b, coins).outcome = "OutOfStock"
    PROVE  units = 0
<1> DEFINE owed == SumCoins(coins) - price
           made == MakeChange(b, owed)
<1>1. owed \in Int /\ made.ok \in BOOLEAN
  BY SumCoinsType, MakeChangeExact
<1> SUFFICES ASSUME units > 0 PROVE FALSE
  OBVIOUS
<1>2. CASE ~ValidateCoins(coins)
  BY <1>2 DEF Purchase, Refuse
<1>3. CASE ValidateCoins(coins) /\ owed < 0
  BY <1>1, <1>3 DEF Purchase, Refuse
<1>4. CASE ValidateCoins(coins) /\ owed >= 0 /\ ~made.ok
  BY <1>1, <1>4 DEF Purchase, Refuse
<1>5. CASE ValidateCoins(coins) /\ owed >= 0 /\ made.ok
  <2>1. Purchase(price, units, b, coins) =
            [outcome |-> "Sold", change |-> made.change, remaining |-> made.remaining]
    BY <1>1, <1>5 DEF Purchase
  <2> QED
    BY <2>1
<1> QED
  BY <1>1, <1>2, <1>3, <1>4, <1>5

LEMMA AnswersDecide ==
    ASSUME StateInv, StateInv', AnswersInv, NEW p \in Purchases, GetMachineBank(p)
    PROVE  AnswersInv'
<1> DEFINE m == req[p].machine
           product == req[p].product
           decision == Purchase(view[p].price, view[p].stock, bank[m], req[p].coins)
<1>1. p \in Requests /\ pc[p] = "getMachineBank" /\ pc[p] \in BusyStates /\ pc[p] # "done"
  BY DEF Requests, GetMachineBank, BusyStates, PurchaseStates
<1>2. m \in Machines /\ product \in Products /\ req[p].coins \in Inserted
  BY <1>1, BodyOf DEF StateInv
<1>3. CASE m \notin machines /\ Answer(p, "MachineNotFound")
  BY <1>1, <1>3, AnswersAnswer
<1>4. CASE decision.outcome # "Sold" /\ Answer(p, decision.outcome)
  <2>1. /\ bank[m] \in CoinBank /\ view[p].price \in Nat /\ view[p].stock \in Nat
        /\ stock[product] \in Nat
    BY <1>1, <1>2 DEF StateInv, TypeInv, TypeOK
  <2>2. decision.outcome = "OutOfStock" => view[p].stock = 0
    BY <1>2, <2>1, OutOfStockMeansNone
  <2>3. stock[product] <= view[p].stock
    BY <1>1 DEF AnswersInv, StockSeen
  <2>4. decision.outcome = "OutOfStock" => stock[product] = 0
    BY <2>1, <2>2, <2>3
  <2>5. decision.outcome \in {"UnsupportedCoin", "InsufficientPayment", "OutOfStock",
                              "ExactChangeRequired", "Sold"}
    BY <1>2, <2>1, PurchaseSound
  <2> HIDE DEF decision
  <2> QED
    BY <1>1, <1>2, <1>4, <2>4, <2>5, AnswersAnswer
<1>5. CASE /\ Proceed(p, "beginSale")
           /\ view' = [view EXCEPT ![p].change = decision.change,
                                   ![p].after = decision.remaining,
                                   ![p].version = version[m]]
  <2> HIDE DEF decision
  <2>1. \A q \in Requests : q # p => view'[q] = view[q]
    BY <1>1, <1>5 DEF StateInv, TypeInv, TypeOK
  <2> QED
    BY <1>1, <1>5, <2>1, AnswersProceed
<1> QED
  BY <1>3, <1>4, <1>5 DEF GetMachineBank

(* The commit of a sale puts the request on record, and takes a unit that  *)
(* was there.                                                              *)
LEMMA AnswersSale ==
    ASSUME StateInv, StateInv', AnswersInv, NEW p \in Purchases, pc[p] = "commitSale",
           ApplySale(p), NEW answer \in {"Sold", "Internal", "ConnectionLost"}, Finish(p, answer)
    PROVE  AnswersInv'
<1> DEFINE product == req[p].product
           record == SaleRecord(p)
<1>1. p \in Requests /\ pc[p] \in BusyStates /\ pc[p] \in SaleStates
  BY DEF Requests, BusyStates, PurchaseStates, SaleTxStates, SaleStates
<1>2. product \in Products /\ stock[product] > 0
  BY <1>1, BodyOf DEF StateInv, StockInv, UnitReserved
<1>3. \A q \in Requests : /\ pc'[q] = IF q = p THEN "done" ELSE pc[q]
                          /\ reply'[q] = IF q = p THEN answer ELSE reply[q]
                          /\ q # p => view'[q] = view[q]
  BY DEF Finish, Goto, StateInv, TypeInv, TypeOK
<1>4. UNCHANGED <<req, products, machines>> /\ sales' = sales \cup {record}
  BY DEF ApplySale
<1>5. /\ record.request = p /\ record.machine = req[p].machine /\ record.product = product
      /\ record.inserted = SumCoins(req[p].coins)
  BY DEF SaleRecord
<1>6. \A q \in Purchases : q \in Requests
  BY DEF Requests
<1>7. \A other \in Products : /\ other # product => stock'[other] = stock[other]
                              /\ stock'[other] <= stock[other]
  <2>1. stock \in [Products -> Nat] /\ stock' = [stock EXCEPT ![product] = stock[product] - 1]
    BY DEF ApplySale, StateInv, TypeInv, TypeOK
  <2> QED
    BY <1>2, <2>1
<1>8. RepliesAtEnd' /\ RefusedProductsExist'
  BY <1>3, <1>4, <1>6 DEF AnswersInv, RepliesAtEnd, RefusedProductsExist
<1>9. ASSUME NEW q \in Purchases PROVE StockSeen(q)'
  <2> SUFFICES ASSUME pc'[q] = "getMachineBank" PROVE stock'[req'[q].product] <= view'[q].stock
    BY DEF StockSeen
  <2>1. q # p /\ pc[q] = "getMachineBank" /\ view'[q] = view[q] /\ req'[q] = req[q]
    BY <1>3, <1>4, <1>6
  <2>2. req[q].product \in Products
    BY <1>6, <2>1, BodyOf DEF StateInv, BusyStates, PurchaseStates
  <2>3. stock[req[q].product] <= view[q].stock /\ stock'[req[q].product] <= stock[req[q].product]
    BY <1>7, <2>1, <2>2 DEF AnswersInv, StockSeen
  <2>4. stock[req[q].product] \in Nat /\ stock'[req[q].product] \in Nat /\ view[q].stock \in Nat
    BY <1>6, <2>2 DEF StateInv, TypeInv, TypeOK
  <2> QED
    BY <2>1, <2>3, <2>4
<1>10. AnswersTruthful'
  <2> SUFFICES ASSUME NEW q \in Purchases
               PROVE  /\ reply'[q] = "Sold" =>
                             \E s \in sales' : /\ SalesBy(q)' = {s}
                                               /\ s.machine = req'[q].machine
                                               /\ s.product = req'[q].product
                                               /\ s.inserted = SumCoins(req'[q].coins)
                      /\ pc'[q] # "done" \/ reply'[q] \in Refusals => SalesBy(q)' = {}
    BY DEF AnswersTruthful
  <2>1. CASE q = p
    <3>1. SalesBy(p) = {}
      BY DEF AnswersInv, AnswersTruthful
    <3>2. SalesBy(p)' = {record}
      BY <1>4, <1>5, <3>1 DEF SalesBy
    <3>3. record \in sales' /\ answer \notin Refusals
      BY <1>4 DEF Refusals
    <3> QED
      BY <1>1, <1>3, <1>4, <1>5, <2>1, <3>2, <3>3
  <2>2. CASE q # p
    <3>1. SalesBy(q)' = SalesBy(q)
      BY <1>4, <1>5, <2>2 DEF SalesBy
    <3>2. pc'[q] = pc[q] /\ reply'[q] = reply[q] /\ req' = req /\ sales \subseteq sales'
      BY <1>3, <1>4, <1>6, <2>2
    <3> QED
      BY <3>1, <3>2 DEF AnswersInv, AnswersTruthful
  <2> QED
    BY <2>1, <2>2
<1>11. RefusalsFinal'
  <2>1. ASSUME NEW q \in Purchases, reply'[q] = "OutOfStock" PROVE stock'[req'[q].product] = 0
    <3>1. q # p /\ reply[q] = "OutOfStock"
      BY <1>3, <1>6, <2>1
    <3>2. req[q].product \in Products /\ stock[req[q].product] = 0
      BY <3>1 DEF AnswersInv, RefusedProductsExist, RefusalsFinal
    <3> QED
      BY <1>2, <1>4, <1>7, <3>2
  <2>2. \A q \in Requests : q # p => reply'[q] = reply[q]
    BY <1>3
  <2>3. reply'[p] \notin {"ProductNotFound", "MachineNotFound"}
    BY <1>1, <1>3
  <2> QED
    BY <1>4, <1>6, <2>1, <2>2, <2>3 DEF AnswersInv, RefusalsFinal
<1> QED
  BY <1>8, <1>9, <1>10, <1>11 DEF AnswersInv

LEMMA AnswersPurchase ==
    ASSUME StateInv, StateInv', AnswersInv, NEW p \in Purchases,
           ArrivePurchase(p) \/ AdvancePurchase(p) \/ CommitSaleUnacknowledged(p)
    PROVE  AnswersInv'
<1>1. p \in Requests /\ view \in [Requests ->
          [price : Nat, stock : Nat, change : CoinBank, after : CoinBank, version : Nat]]
  BY DEF Requests, StateInv, TypeInv, TypeOK
<1>2. pc[p] \in PurchaseStates => req[p].product \in Products
  BY DEF StateInv, TypeInv, BodiesKnown, PurchaseBody
<1>3. CASE ArrivePurchase(p)
  BY <1>1, <1>3, AnswersArrive DEF ArrivePurchase
<1>4. CASE GetProduct(p)
  <2>1. pc[p] # "done" /\ req[p].product \in Products
    BY <1>2, <1>4 DEF GetProduct, PurchaseStates
  <2>2. CASE req[p].product \notin products /\ Answer(p, "ProductNotFound")
    BY <1>1, <2>1, <2>2, AnswersAnswer
  <2>3. CASE /\ Proceed(p, "getMachineBank")
             /\ view' = [view EXCEPT ![p].price = Price[req[p].product],
                                     ![p].stock = stock[req[p].product]]
    <3>1. view'[p].stock = stock[req[p].product] /\ \A q \in Requests : q # p => view'[q] = view[q]
      BY <1>1, <2>3
    <3>2. stock' = stock /\ req' = req /\ stock[req[p].product] \in Nat
      BY <2>1, <2>3 DEF Proceed, database, StateInv, TypeInv, TypeOK
    <3>3. StockSeen(p)'
      BY <3>1, <3>2 DEF StockSeen
    <3> QED
      BY <1>1, <2>1, <2>3, <3>1, <3>3, AnswersProceed
  <2> QED
    BY <1>4, <2>2, <2>3 DEF GetProduct
<1>5. CASE GetMachineBank(p)
  BY <1>5, AnswersDecide
<1>6. CASE BeginSale(p)
  BY <1>1, <1>6, AnswersProceed DEF BeginSale
<1>7. CASE LockProduct(p)
  BY <1>1, <1>7, AnswersAnswer, AnswersProceed DEF LockProduct
<1>8. CASE DecrementStock(p)
  <2>1. pc[p] # "done" /\ req[p].product \in Products
    BY <1>2, <1>8 DEF DecrementStock, PurchaseStates, SaleTxStates
  <2> QED
    BY <1>1, <1>8, <2>1, AnswersAnswer, AnswersProceed DEF DecrementStock
<1>9. CASE ReplaceBank(p)
  BY <1>1, <1>9, AnswersAnswer, AnswersProceed DEF ReplaceBank
<1>10. CASE InsertSale(p)
  BY <1>1, <1>10, AnswersProceed DEF InsertSale
<1>11. CASE CommitSale(p) \/ CommitSaleUnacknowledged(p)
  BY <1>11, AnswersSale DEF CommitSale, CommitSaleUnacknowledged
<1> QED
  BY <1>3, <1>4, <1>5, <1>6, <1>7, <1>8, <1>9, <1>10, <1>11 DEF AdvancePurchase

LEMMA AnswersRestock ==
    ASSUME StateInv, StateInv', AnswersInv, NEW r \in Restocks,
           ArriveRestock(r) \/ AdvanceRestock(r) \/ CommitRestockUnacknowledged(r)
    PROVE  AnswersInv'
<1>1. r \in Requests /\ view \in [Requests ->
          [price : Nat, stock : Nat, change : CoinBank, after : CoinBank, version : Nat]]
  BY DEF Requests, StateInv, TypeInv, TypeOK
<1>2. CASE ArriveRestock(r)
  BY <1>1, <1>2, AnswersArrive DEF ArriveRestock
<1>3. CASE BeginRestock(r)
  BY <1>1, <1>3, AnswersProceed DEF BeginRestock
<1>4. CASE LockMachine(r)
  <2>1. CASE Answer(r, "MachineNotFound") /\ req[r].machine \notin machines
    BY <1>1, <1>4, <2>1, AnswersAnswer DEF LockMachine
  <2>2. CASE Proceed(r, "writeBank") /\ \A q \in Requests : q # r => view'[q] = view[q]
    BY <1>1, <1>4, <2>2, AnswersProceed DEF LockMachine
  <2> QED
    BY <1>1, <1>4, <2>1, <2>2 DEF LockMachine
<1>5. CASE WriteBank(r)
  BY <1>1, <1>5, AnswersProceed DEF WriteBank
<1>6. CASE CommitRestock(r)
  <2>1. /\ pc[r] # "done" /\ pc' = [pc EXCEPT ![r] = "reread"]
        /\ UNCHANGED <<reply, view, req, stock, sales, products, machines>>
    BY <1>6 DEF CommitRestock, ApplyRestock, Goto
  <2> QED
    BY <1>1, <2>1, AnswersGoOn
<1>7. CASE CommitRestockUnacknowledged(r)
  <2>1. PICK answer \in {"Internal", "ConnectionLost"} : Finish(r, answer)
    BY <1>7 DEF CommitRestockUnacknowledged
  <2>2. /\ pc[r] # "done" /\ pc' = [pc EXCEPT ![r] = "done"]
        /\ reply' = [reply EXCEPT ![r] = answer]
        /\ UNCHANGED <<req, stock, sales, products, machines>>
        /\ \A q \in Requests : q # r => view'[q] = view[q]
    BY <1>1, <1>7, <2>1 DEF CommitRestockUnacknowledged, ApplyRestock, Finish, Goto
  <2>3. r \notin Purchases
    BY RequestsAssumption
  <2> QED
    BY <1>1, <2>1, <2>2, <2>3, AnswersQuietStep
<1>8. CASE Reread(r)
  BY <1>1, <1>8, AnswersAnswer DEF Reread
<1> QED
  BY <1>2, <1>3, <1>4, <1>5, <1>6, <1>7, <1>8 DEF AdvanceRestock

LEMMA AnswersCrash == StateInv /\ AnswersInv /\ Crash => AnswersInv'
<1> SUFFICES ASSUME StateInv, AnswersInv, Crash PROVE AnswersInv'
  OBVIOUS
<1>1. ASSUME NEW r \in Requests
      PROVE  \/ pc'[r] = "done" /\ reply'[r] = "ConnectionLost" /\ pc[r] \in BusyStates
             \/ pc'[r] = pc[r] /\ reply'[r] = reply[r] /\ view'[r] = view[r]
  BY DEF Crash
<1>2. UNCHANGED <<req, products, machines, stock, sales>>
  BY DEF Crash, database
<1>3. /\ "done" \notin BusyStates
      /\ "ConnectionLost" \notin Refusals /\ \A p \in Purchases : p \in Requests
      /\ \A p \in Purchases : SalesBy(p)' = SalesBy(p)
  BY <1>2, StatesInOrder DEF Refusals, Requests, SalesBy
<1>4. RepliesAtEnd' /\ RefusedProductsExist' /\ \A p \in Purchases : StockSeen(p)'
  BY <1>1, <1>2, <1>3 DEF AnswersInv, RepliesAtEnd, RefusedProductsExist, StockSeen
<1>5. AnswersTruthful'
  BY <1>1, <1>2, <1>3 DEF AnswersInv, AnswersTruthful
<1>6. RefusalsFinal'
  BY <1>1, <1>2, <1>3 DEF AnswersInv, RefusalsFinal
<1> QED
  BY <1>4, <1>5, <1>6 DEF AnswersInv

LEMMA AnswersUnchanged ==
    ASSUME AnswersInv, UNCHANGED <<stock, sales, request>>,
           products' \subseteq products, machines' \subseteq machines
    PROVE  AnswersInv'
<1>1. UNCHANGED <<pc, req, view, reply>>
  BY DEF request
<1>2. AnswersTruthful' /\ RepliesAtEnd' /\ RefusedProductsExist'
  BY <1>1 DEF AnswersInv, AnswersTruthful, SalesBy, RepliesAtEnd, RefusedProductsExist
<1>3. RefusalsFinal' /\ \A p \in Purchases : StockSeen(p)'
  BY <1>1 DEF AnswersInv, RefusalsFinal, StockSeen
<1> QED
  BY <1>2, <1>3 DEF AnswersInv

LEMMA AnswersStep == StateInv /\ StateInv' /\ AnswersInv /\ [Next]_vars => AnswersInv'
<1> SUFFICES ASSUME StateInv, StateInv', AnswersInv, [Next]_vars PROVE AnswersInv'
  OBVIOUS
<1>1. ASSUME NEW r \in Requests, StatementFails(r) PROVE AnswersInv'
  BY <1>1, StatesInOrder, AnswersAnswer DEF StatementFails
<1>2. ASSUME NEW product \in Products, RemoveProduct(product) PROVE AnswersInv'
  BY <1>2, AnswersUnchanged DEF RemoveProduct
<1>3. ASSUME NEW machine \in Machines, RemoveMachine(machine) PROVE AnswersInv'
  BY <1>3, AnswersUnchanged DEF RemoveMachine
<1>4. CASE UNCHANGED vars
  BY <1>4, AnswersUnchanged DEF vars, database
<1> QED
  BY <1>1, <1>2, <1>3, <1>4, AnswersPurchase, AnswersRestock, AnswersCrash DEF Next

LEMMA AnswersInvariant == Spec => []AnswersInv
<1>1. Init => AnswersInv
  BY AnswersInit
<1> QED
  BY <1>1, AnswersStep, StateInvariant, PTL DEF Spec

(* A purchase answered 201 is on record exactly once, for what was asked   *)
(* for; one that is under way or was refused is not (commitPurchase: "a    *)
(* failure anywhere rolls back the whole purchase").                       *)
THEOREM AnswersAreTruthful == Spec => []AnswersTruthful
<1>1. AnswersInv => AnswersTruthful
  BY DEF AnswersInv
<1> QED
  BY <1>1, AnswersInvariant, PTL

(* A refusal stays right although it was decided on reads that may be      *)
(* stale: no operation adds stock, and rows do not come back.              *)
THEOREM RefusalsStayRight == Spec => []RefusalsFinal
<1>1. AnswersInv => RefusalsFinal
  BY DEF AnswersInv
<1> QED
  BY <1>1, AnswersInvariant, PTL

----------------------------------------------------------------------------
(***************************************************************************)
(* Requests that share no machine implement the atomic shop: for any       *)
(* number of them, any products, prices, banks and pool, however they      *)
(* interleave, fail and crash.                                             *)
(***************************************************************************)

(* A request under way has one of the bodies it may carry.                 *)
BodiesAllowed == \A r \in Requests : pc[r] \in BusyStates => req[r] \in UsableBodies[r]

(* The price a purchase has read is the product's. *)
PriceRead(p) ==
    pc[p] \in {"getMachineBank"} \cup DecidedStates => view[p].price = Price[req[p].product]

(* What a purchase has decided is what it would decide now: nobody else    *)
(* writes the bank of its machine.                                         *)
DecisionFits(p) ==
    pc[p] \in DecidedStates =>
        LET decision == Purchase(view[p].price, view[p].stock, bank[req[p].machine], req[p].coins)
        IN  /\ decision.outcome = "Sold" /\ decision.change = view[p].change
            /\ decision.remaining = view[p].after
            /\ view[p].version = version[req[p].machine]

ShopInv ==
    /\ BodiesAllowed /\ overwritten = {}
    /\ \A p \in Purchases : PriceRead(p) /\ DecisionFits(p)

ViewType == [price : Nat, stock : Nat, change : CoinBank, after : CoinBank, version : Nat]

----------------------------------------------------------------------------
(* The shop decides with the same operators of Coins. *)
LEMMA SameTake ==
    ASSUME NEW b, NEW left, NEW d
    PROVE  TheShop!Take(b, left, d) = Take(b, left, d)
           /\ TheShop!Round(b, left, d) = Round(b, left, d)
  BY DEF TheShop!Take, TheShop!Round, Take, Round

LEMMA SameRounds ==
    ASSUME NEW b, NEW amount
    PROVE  /\ TheShop!Left50(b, amount) = Left50(b, amount)
           /\ TheShop!Left25(b, amount) = Left25(b, amount)
           /\ TheShop!Left10(b, amount) = Left10(b, amount)
           /\ TheShop!Left5(b, amount) = Left5(b, amount)
           /\ TheShop!Owed(b, amount) = Owed(b, amount)
<1>1. TheShop!Left50(b, amount) = Left50(b, amount)
  BY SameTake DEF TheShop!Left50, Left50
<1>2. TheShop!Left25(b, amount) = Left25(b, amount)
  BY <1>1, SameTake DEF TheShop!Left25, Left25
<1>3. TheShop!Left10(b, amount) = Left10(b, amount)
  BY <1>2, SameTake DEF TheShop!Left10, Left10
<1>4. TheShop!Left5(b, amount) = Left5(b, amount)
  BY <1>3, SameTake DEF TheShop!Left5, Left5
<1>5. TheShop!Owed(b, amount) = Owed(b, amount)
  BY <1>4, SameTake DEF TheShop!Owed, Owed
<1> QED
  BY <1>1, <1>2, <1>3, <1>4, <1>5

LEMMA SameChange ==
    ASSUME NEW b, NEW amount
    PROVE  TheShop!MakeChange(b, amount) = MakeChange(b, amount)
<1>1. TheShop!Denominations = Denominations
  BY DEF TheShop!Denominations, Denominations
<1>2. TheShop!GreedyChange(b, amount) = GreedyChange(b, amount)
  <2>1. /\ TheShop!Take(b, amount, 100) = Take(b, amount, 100)
        /\ TheShop!Take(b, TheShop!Left50(b, amount), 50) = Take(b, Left50(b, amount), 50)
        /\ TheShop!Take(b, TheShop!Left25(b, amount), 25) = Take(b, Left25(b, amount), 25)
        /\ TheShop!Take(b, TheShop!Left10(b, amount), 10) = Take(b, Left10(b, amount), 10)
        /\ TheShop!Take(b, TheShop!Left5(b, amount), 5) = Take(b, Left5(b, amount), 5)
    BY SameTake, SameRounds
  <2> DEFINE shops == TheShop!GreedyChange(b, amount)
             ours == GreedyChange(b, amount)
  <2>2. ours = [d \in Denominations |-> ours[d]]
    BY DEF GreedyChange, Denominations
  <2>3. shops = [d \in Denominations |-> shops[d]]
    BY DEF TheShop!GreedyChange, TheShop!Denominations, Denominations
  <2>4. \A d \in Denominations : shops[d] = ours[d]
    BY <1>1, <2>1 DEF TheShop!GreedyChange, GreedyChange, Denominations
  <2> HIDE DEF shops, ours
  <2>5. shops = ours
    BY <2>2, <2>3, <2>4
  <2> QED
    BY <2>5 DEF shops, ours
<1>3. TheShop!NoCoins = NoCoins
  BY <1>1 DEF TheShop!NoCoins, NoCoins
<1>4. TheShop!RemoveCoins(b, GreedyChange(b, amount)) = RemoveCoins(b, GreedyChange(b, amount))
  BY <1>1 DEF TheShop!RemoveCoins, RemoveCoins
<1> QED
  BY <1>2, <1>3, <1>4, SameRounds DEF TheShop!MakeChange, MakeChange

LEMMA SameDecision ==
    ASSUME NEW price, NEW units, NEW b, NEW coins
    PROVE  /\ TheShop!Purchase(price, units, b, coins) = Purchase(price, units, b, coins)
           /\ TheShop!SumCoins(coins) = SumCoins(coins)
           /\ TheShop!AddCoins(b, coins) = AddCoins(b, coins)
<1>1. TheShop!Denominations = Denominations
  BY DEF TheShop!Denominations, Denominations
<1>2. TheShop!SumCoins(coins) = SumCoins(coins)
  BY DEF TheShop!SumCoins, SumCoins
<1>3. TheShop!AddCoins(b, coins) = AddCoins(b, coins)
  BY <1>1 DEF TheShop!AddCoins, AddCoins
<1>4. TheShop!ValidateCoins(coins) = ValidateCoins(coins)
  BY <1>1 DEF TheShop!ValidateCoins, TheShop!Faces, ValidateCoins, Faces
<1>5. \A reason : TheShop!Refuse(reason, b) = Refuse(reason, b)
  BY <1>1 DEF TheShop!Refuse, TheShop!NoCoins, Refuse, NoCoins
<1>6. TheShop!Purchase(price, units, b, coins) = Purchase(price, units, b, coins)
  BY <1>2, <1>4, <1>5, SameChange DEF TheShop!Purchase, Purchase
<1> QED
  BY <1>2, <1>3, <1>6

(* A sale does not depend on how many units are left, as long as some are. *)
LEMMA AnyStockWillDo ==
    ASSUME NEW price \in Nat, NEW before \in Nat, NEW now \in Nat, now > 0,
           NEW b \in CoinBank, NEW coins \in Inserted,
           Purchase(price, before, b, coins).outcome = "Sold"
    PROVE  Purchase(price, now, b, coins) = Purchase(price, before, b, coins)
<1> DEFINE owed == SumCoins(coins) - price
           made == MakeChange(b, owed)
<1>1. owed \in Int /\ made.ok \in BOOLEAN
  BY SumCoinsType, MakeChangeExact
<1>2. CASE ~ValidateCoins(coins)
  BY <1>2 DEF Purchase, Refuse
<1>3. CASE ValidateCoins(coins) /\ owed < 0
  BY <1>1, <1>3 DEF Purchase, Refuse
<1>4. CASE ValidateCoins(coins) /\ owed >= 0 /\ before = 0
  BY <1>1, <1>4 DEF Purchase, Refuse
<1>5. CASE ValidateCoins(coins) /\ owed >= 0 /\ before > 0 /\ ~made.ok
  BY <1>1, <1>5 DEF Purchase, Refuse
<1>6. CASE ValidateCoins(coins) /\ owed >= 0 /\ before > 0 /\ made.ok
  BY <1>1, <1>6 DEF Purchase
<1> QED
  BY <1>1, <1>2, <1>3, <1>4, <1>5, <1>6

----------------------------------------------------------------------------
(* The invariant. *)
LEMMA ShopInitInv == Init => ShopInv
<1> SUFFICES ASSUME Init PROVE ShopInv
  OBVIOUS
<1>1. \A r \in Requests : pc[r] = "idle"
  BY DEF Init
<1> QED
  BY <1>1, StatesInOrder
  DEF Init, ShopInv, BodiesAllowed, PriceRead, DecisionFits, Requests

LEMMA ShopQuietStep ==
    ASSUME StateInv, ShopInv, NEW r \in Requests, NEW to,
           pc' = [pc EXCEPT ![r] = to],
           \A q \in Requests : q # r => req'[q] = req[q] /\ view'[q] = view[q],
           UNCHANGED <<bank, version, overwritten>>,
           to \in BusyStates => req'[r] \in UsableBodies[r],
           r \in Purchases => PriceRead(r)' /\ DecisionFits(r)'
    PROVE  ShopInv'
<1>1. \A q \in Requests : pc'[q] = IF q = r THEN to ELSE pc[q]
  BY DEF StateInv, TypeInv, TypeOK
<1>2. \A p \in Purchases : p \in Requests
  BY DEF Requests
<1>3. BodiesAllowed'
  BY <1>1 DEF ShopInv, BodiesAllowed, UsableBodies
<1>4. ASSUME NEW p \in Purchases, p # r PROVE PriceRead(p)' /\ DecisionFits(p)'
  BY <1>1, <1>2, <1>4 DEF ShopInv, PriceRead, DecisionFits
<1> QED
  BY <1>3, <1>4 DEF ShopInv

LEMMA ShopAnswer ==
    ASSUME StateInv, ShopInv, NEW r \in Requests, NEW answer, Answer(r, answer)
    PROVE  ShopInv' /\ UNCHANGED <<stock, bank, sales>>
<1>1. /\ pc' = [pc EXCEPT ![r] = "done"]
      /\ \A q \in Requests : q # r => req'[q] = req[q] /\ view'[q] = view[q]
      /\ UNCHANGED <<stock, bank, sales, version, overwritten>>
  BY DEF Answer, Finish, Goto, database, ledger, StateInv, TypeInv, TypeOK
<1>2. PriceRead(r)' /\ DecisionFits(r)'
  BY <1>1, StatesInOrder DEF PriceRead, DecisionFits, StateInv, TypeInv, TypeOK
<1> QED
  BY <1>1, <1>2, StatesInOrder, ShopQuietStep

LEMMA ShopProceed ==
    ASSUME StateInv, ShopInv, NEW r \in Requests, NEW to, Proceed(r, to), pc[r] \in BusyStates,
           \A q \in Requests : q # r => view'[q] = view[q],
           to \in DecidedStates => pc[r] \in DecidedStates /\ view' = view,
           to = "getMachineBank" => view'[r].price = Price[req[r].product]
    PROVE  ShopInv' /\ UNCHANGED <<stock, bank, sales>>
<1>1. /\ pc' = [pc EXCEPT ![r] = to]
      /\ UNCHANGED <<req, stock, bank, sales, version, overwritten>>
  BY DEF Proceed, Goto, database, ledger
<1>2. pc'[r] = to
  BY <1>1 DEF StateInv, TypeInv, TypeOK
<1>3. r \in Purchases => PriceRead(r)' /\ DecisionFits(r)'
  BY <1>1, <1>2 DEF PriceRead, DecisionFits, ShopInv
<1>4. req'[r] \in UsableBodies[r]
  BY <1>1 DEF ShopInv, BodiesAllowed
<1> QED
  BY <1>1, <1>3, <1>4, ShopQuietStep

LEMMA ShopArrive ==
    ASSUME StateInv, ShopInv, NEW r \in Requests, NEW first \in {"getProduct", "beginRestock"},
           Arrive(r, first)
    PROVE  ShopInv' /\ UNCHANGED <<stock, bank, sales>>
<1>1. PICK body \in Bodies[r] :
          /\ req' = [req EXCEPT ![r] = body]
          /\ UNCHANGED <<database, ledger>>
          /\ \/ \E answer : Finish(r, answer)
             \/ body # NoBody /\ Goto(r, first) /\ UNCHANGED view
  BY DEF Arrive
<1>2. /\ \A q \in Requests : q # r => req'[q] = req[q] /\ view'[q] = view[q]
      /\ req'[r] = body
      /\ UNCHANGED <<stock, bank, sales, version, overwritten>>
  BY <1>1 DEF Finish, database, ledger, StateInv, TypeInv, TypeOK
<1>3. PICK to : /\ pc' = [pc EXCEPT ![r] = to]
                /\ to = "done" \/ (to = first /\ body # NoBody)
  BY <1>1 DEF Finish, Goto
<1>4. to \in BusyStates => req'[r] \in UsableBodies[r]
  BY <1>2, <1>3, StatesInOrder DEF UsableBodies
<1>5. PriceRead(r)' /\ DecisionFits(r)'
  BY <1>3, StatesInOrder DEF PriceRead, DecisionFits, StateInv, TypeInv, TypeOK
<1> QED
  BY <1>2, <1>3, <1>4, <1>5, ShopQuietStep

LEMMA ShopDecide ==
    ASSUME StateInv, ShopInv, NEW p \in Purchases, GetMachineBank(p)
    PROVE  ShopInv' /\ UNCHANGED <<stock, bank, sales>>
<1> DEFINE decision == Purchase(view[p].price, view[p].stock, bank[req[p].machine], req[p].coins)
<1>1. p \in Requests /\ pc[p] = "getMachineBank" /\ pc[p] \in BusyStates
  BY DEF Requests, GetMachineBank, BusyStates, PurchaseStates
<1>2. CASE \E answer : Answer(p, answer)
  BY <1>1, <1>2, ShopAnswer
<1>3. CASE /\ decision.outcome = "Sold" /\ Proceed(p, "beginSale")
           /\ view' = [view EXCEPT ![p].change = decision.change,
                                   ![p].after = decision.remaining,
                                   ![p].version = version[req[p].machine]]
  <2>1. /\ view'[p].change = decision.change /\ view'[p].after = decision.remaining
        /\ view'[p].price = view[p].price /\ view'[p].stock = view[p].stock
        /\ view'[p].version = version[req[p].machine]
        /\ \A q \in Requests : q # p => view'[q] = view[q]
    <3> HIDE DEF decision
    <3> QED
      BY <1>1, <1>3 DEF StateInv, TypeInv, TypeOK
  <2>2. /\ pc' = [pc EXCEPT ![p] = "beginSale"]
        /\ UNCHANGED <<req, stock, bank, sales, version, overwritten>>
    BY <1>3 DEF Proceed, Goto, database, ledger
  <2>3. PriceRead(p)'
    BY <1>1, <2>1, <2>2 DEF PriceRead, ShopInv
  <2>4. DecisionFits(p)'
    BY <1>3, <2>1, <2>2 DEF DecisionFits
  <2>5. req'[p] \in UsableBodies[p]
    BY <1>1, <2>2 DEF ShopInv, BodiesAllowed
  <2> QED
    BY <1>1, <2>1, <2>2, <2>3, <2>4, <2>5, ShopQuietStep
<1> QED
  BY <1>2, <1>3 DEF GetMachineBank

(* A commit changes the bank of a machine nobody else uses. *)
LEMMA ShopCommitStep ==
    ASSUME PrivateMachines, StateInv, ShopInv, NEW r \in Requests, pc[r] \in BusyStates,
           NEW to \in {"done", "reread"}, pc' = [pc EXCEPT ![r] = to], req' = req,
           \A q \in Requests : q # r => view'[q] = view[q],
           NEW after, bank' = [bank EXCEPT ![req[r].machine] = after],
           version' = [version EXCEPT ![req[r].machine] = @ + 1],
           overwritten' = {}
    PROVE  ShopInv'
<1>1. \A q \in Requests : pc'[q] = IF q = r THEN to ELSE pc[q]
  BY DEF StateInv, TypeInv, TypeOK
<1>2. BodiesAllowed'
  BY <1>1, StatesInOrder DEF ShopInv, BodiesAllowed, UsableBodies
<1>3. ASSUME NEW p \in Purchases PROVE PriceRead(p)' /\ DecisionFits(p)'
  <2> SUFFICES ASSUME pc'[p] \in {"getMachineBank"} \cup DecidedStates
               PROVE  PriceRead(p)' /\ DecisionFits(p)'
    BY DEF PriceRead, DecisionFits
  <2>1. p \in Requests /\ p # r /\ pc'[p] = pc[p] /\ view'[p] = view[p]
    BY <1>1, StatesInOrder DEF Requests
  <2>2. pc[p] \in BusyStates
    BY <2>1, StatesInOrder DEF BusyStates, PurchaseStates
  <2>3. req[p].machine # req[r].machine
    BY <2>1, <2>2
    DEF ShopInv, BodiesAllowed, UsableBodies, PrivateMachines
  <2>4. req[p].machine \in Machines
    BY <2>1, <2>2, BodyOf DEF StateInv
  <2>5. bank'[req[p].machine] = bank[req[p].machine]
        /\ version'[req[p].machine] = version[req[p].machine]
    BY <2>3, <2>4 DEF StateInv, TypeInv, TypeOK
  <2> QED
    BY <2>1, <2>5 DEF ShopInv, PriceRead, DecisionFits
<1> QED
  BY <1>2, <1>3 DEF ShopInv

----------------------------------------------------------------------------
(* The commits are the steps of the shop. *)
LEMMA SaleIsBuy ==
    ASSUME StateInv, ShopInv, NEW p \in Purchases, pc[p] = "commitSale", ApplySale(p)
    PROVE  TheShop!Next
<1> DEFINE m == req[p].machine
           product == req[p].product
           coins == req[p].coins
           decision == Purchase(Price[product], stock[product], bank[m], coins)
<1>1. /\ p \in Requests /\ pc[p] \in BusyStates
      /\ pc[p] \in DecidedStates /\ pc[p] \in SaleStates
  BY DEF Requests, BusyStates, PurchaseStates, SaleTxStates, DecidedStates, SaleStates
<1>2. m \in Machines /\ product \in Products /\ coins \in Inserted
  BY <1>1, BodyOf DEF StateInv
<1>3. req[p] \in UsableBodies[p]
  BY <1>1 DEF ShopInv, BodiesAllowed
<1>4. /\ bank[m] \in CoinBank /\ stock[product] \in Nat /\ view[p].stock \in Nat
      /\ Price[product] \in Nat /\ stock[product] > 0
  BY <1>1, <1>2, SeedAssumption DEF StateInv, TypeInv, TypeOK, StockInv, UnitReserved
<1>5. view[p].price = Price[product]
  BY <1>1 DEF ShopInv, PriceRead
<1>6. LET seen == Purchase(Price[product], view[p].stock, bank[m], coins)
      IN  /\ seen.outcome = "Sold" /\ seen.change = view[p].change
          /\ seen.remaining = view[p].after
  BY <1>1, <1>5 DEF ShopInv, DecisionFits
<1>7. /\ decision.outcome = "Sold" /\ decision.change = view[p].change
      /\ decision.remaining = view[p].after
  BY <1>2, <1>4, <1>6, AnyStockWillDo
<1>8. \A s \in sales : s.request # p
  BY <1>1, StatesInOrder DEF StateInv, StockInv, SalesDone
<1>9. SaleRecord(p) =
          [request |-> p, machine |-> m, product |-> product, price |-> Price[product],
           inserted |-> SumCoins(coins), changeCents |-> SumCoins(decision.change),
           change |-> decision.change]
  BY <1>5, <1>7 DEF SaleRecord
<1>10. /\ stock' = [stock EXCEPT ![product] = @ - 1]
       /\ bank' = [bank EXCEPT ![m] = decision.remaining]
       /\ sales' = sales \cup {SaleRecord(p)}
  BY <1>7 DEF ApplySale
<1>11. TheShop!Buy(p, m, product, coins)
  <2> HIDE DEF decision
  <2>1. TheShop!Purchase(Price[product], stock[product], bank[m], coins) = decision
        /\ TheShop!SumCoins(coins) = SumCoins(coins)
        /\ TheShop!SumCoins(decision.change) = SumCoins(decision.change)
    BY SameDecision DEF decision
  <2> QED
    BY <1>7, <1>8, <1>9, <1>10, <2>1 DEF TheShop!Buy
<1> QED
  BY <1>3, <1>11 DEF TheShop!Next

LEMMA CommitIsRestock ==
    ASSUME StateInv, ShopInv, NEW r \in Restocks, pc[r] = "commitRestock", ApplyRestock(r),
           bank' = [bank EXCEPT ![req[r].machine] = AddCoins(@, req[r].coins)]
    PROVE  TheShop!Next
<1>1. r \in Requests /\ pc[r] \in BusyStates
  BY DEF Requests, BusyStates, RestockStates, RestockTxStates
<1>2. req[r] \in UsableBodies[r]
  BY <1>1 DEF ShopInv, BodiesAllowed
<1>3. UNCHANGED <<stock, sales>>
  BY DEF ApplyRestock
<1>4. TheShop!Restock(req[r].machine, req[r].coins)
  BY <1>3, SameDecision DEF TheShop!Restock
<1> QED
  BY <1>2, <1>4 DEF TheShop!Next

LEMMA ShopPurchase ==
    ASSUME PrivateMachines, StateInv, StateInv', ShopInv, NEW p \in Purchases,
           ArrivePurchase(p) \/ AdvancePurchase(p) \/ CommitSaleUnacknowledged(p)
    PROVE  ShopInv' /\ (TheShop!Next \/ UNCHANGED <<stock, bank, sales>>)
<1>1. p \in Requests /\ view \in [Requests -> ViewType] /\ pc \in [Requests -> BusyStates \cup {"idle", "done"}]
  BY DEF Requests, StateInv, TypeInv, TypeOK, ViewType
<1>2. /\ {"beginSale", "lockProduct", "decrementStock", "replaceBank", "insertSale",
           "commitSale"} \subseteq DecidedStates
      /\ DecidedStates \subseteq BusyStates
      /\ "getMachineBank" \notin DecidedStates
      /\ {"getProduct", "getMachineBank"} \subseteq BusyStates
  BY DEF DecidedStates, SaleTxStates, BusyStates, PurchaseStates
<1>3. CASE ArrivePurchase(p)
  BY <1>1, <1>3, ShopArrive DEF ArrivePurchase
<1>4. CASE GetProduct(p)
  <2>1. CASE Answer(p, "ProductNotFound")
    BY <1>1, <2>1, ShopAnswer
  <2>2. CASE /\ Proceed(p, "getMachineBank")
             /\ view' = [view EXCEPT ![p].price = Price[req[p].product],
                                     ![p].stock = stock[req[p].product]]
    <3>1. /\ view'[p].price = Price[req[p].product]
          /\ \A q \in Requests : q # p => view'[q] = view[q]
      BY <1>1, <2>2 DEF ViewType
    <3> QED
      BY <1>1, <1>2, <1>4, <2>2, <3>1, ShopProceed DEF GetProduct
  <2> QED
    BY <1>4, <2>1, <2>2 DEF GetProduct
<1>5. CASE GetMachineBank(p)
  BY <1>5, ShopDecide
<1>6. CASE BeginSale(p)
  BY <1>1, <1>2, <1>6, ShopProceed DEF BeginSale
<1>7. CASE LockProduct(p)
  BY <1>1, <1>2, <1>7, ShopAnswer, ShopProceed DEF LockProduct
<1>8. CASE DecrementStock(p)
  BY <1>1, <1>2, <1>8, ShopAnswer, ShopProceed DEF DecrementStock
<1>9. CASE ReplaceBank(p)
  BY <1>1, <1>2, <1>9, ShopAnswer, ShopProceed DEF ReplaceBank
<1>10. CASE InsertSale(p)
  BY <1>1, <1>2, <1>10, ShopProceed DEF InsertSale
<1>11. CASE CommitSale(p) \/ CommitSaleUnacknowledged(p)
  <2>1. pc[p] = "commitSale" /\ ApplySale(p) /\ \E answer : Finish(p, answer)
    BY <1>11 DEF CommitSale, CommitSaleUnacknowledged
  <2>2. TheShop!Next
    BY <2>1, SaleIsBuy
  <2>3. /\ pc' = [pc EXCEPT ![p] = "done"] /\ req' = req
        /\ \A q \in Requests : q # p => view'[q] = view[q]
        /\ bank' = [bank EXCEPT ![req[p].machine] = view[p].after]
        /\ version' = [version EXCEPT ![req[p].machine] = @ + 1]
    BY <1>1, <2>1 DEF Finish, Goto, ApplySale
  <2>4. overwritten' = {}
    <3>1. view[p].version = version[req[p].machine] /\ overwritten = {}
      BY <1>2, <2>1 DEF ShopInv, DecisionFits
    <3> QED
      BY <2>1, <3>1 DEF ApplySale
  <2>5. ShopInv'
    BY <1>1, <1>2, <2>1, <2>3, <2>4, ShopCommitStep
  <2> QED
    BY <2>2, <2>5
<1> QED
  BY <1>3, <1>4, <1>5, <1>6, <1>7, <1>8, <1>9, <1>10, <1>11 DEF AdvancePurchase

LEMMA ShopRestock ==
    ASSUME PrivateMachines, StateInv, StateInv', BooksInv, ShopInv, NEW r \in Restocks,
           ArriveRestock(r) \/ AdvanceRestock(r) \/ CommitRestockUnacknowledged(r)
    PROVE  ShopInv' /\ (TheShop!Next \/ UNCHANGED <<stock, bank, sales>>)
<1>1. r \in Requests /\ view \in [Requests -> ViewType]
  BY DEF Requests, StateInv, TypeInv, TypeOK, ViewType
<1>2. /\ {"writeBank", "lockMachine", "commitRestock", "beginRestock", "reread"}
             \subseteq BusyStates \ DecidedStates
      /\ "getMachineBank" \notin {"writeBank", "lockMachine", "commitRestock"}
  BY DEF DecidedStates, SaleTxStates, BusyStates, RestockStates, RestockTxStates
<1>3. CASE ArriveRestock(r)
  BY <1>1, <1>3, ShopArrive DEF ArriveRestock
<1>4. CASE BeginRestock(r)
  BY <1>1, <1>2, <1>4, ShopProceed DEF BeginRestock
<1>5. CASE LockMachine(r)
  BY <1>1, <1>2, <1>5, ShopAnswer, ShopProceed DEF LockMachine
<1>6. CASE WriteBank(r)
  BY <1>1, <1>2, <1>6, ShopProceed DEF WriteBank
<1>7. CASE CommitRestock(r) \/ CommitRestockUnacknowledged(r)
  <2>1. /\ pc[r] = "commitRestock" /\ ApplyRestock(r)
        /\ \/ \E answer : Finish(r, answer)
           \/ Goto(r, "reread") /\ UNCHANGED <<view, reply>>
    BY <1>7 DEF CommitRestock, CommitRestockUnacknowledged
  <2>2. TheShop!Next
    BY <2>1, BooksRestockStep, CommitIsRestock
  <2>3. PICK to \in {"done", "reread"} : pc' = [pc EXCEPT ![r] = to]
    BY <2>1 DEF Finish, Goto
  <2>4. /\ req' = req /\ \A q \in Requests : q # r => view'[q] = view[q]
        /\ bank' = [bank EXCEPT ![req[r].machine] = view[r].after]
        /\ version' = [version EXCEPT ![req[r].machine] = @ + 1]
        /\ overwritten' = {}
    BY <1>1, <2>1 DEF Finish, ApplyRestock, ShopInv
  <2>5. ShopInv'
    BY <1>1, <1>2, <2>1, <2>3, <2>4, ShopCommitStep
  <2> QED
    BY <2>2, <2>5
<1>8. CASE Reread(r)
  BY <1>1, <1>8, ShopAnswer DEF Reread
<1> QED
  BY <1>3, <1>4, <1>5, <1>6, <1>7, <1>8 DEF AdvanceRestock

LEMMA ShopCrash == StateInv /\ ShopInv /\ Crash => ShopInv' /\ UNCHANGED <<stock, bank, sales>>
<1> SUFFICES ASSUME StateInv, ShopInv, Crash
             PROVE  ShopInv' /\ UNCHANGED <<stock, bank, sales>>
  OBVIOUS
<1>1. \A r \in Requests : pc'[r] = "done" \/ (pc'[r] = pc[r] /\ view'[r] = view[r])
  BY DEF Crash
<1>2. UNCHANGED <<req, stock, bank, sales, version, overwritten>>
  BY DEF Crash, database, ledger
<1>3. BodiesAllowed'
  BY <1>1, <1>2, StatesInOrder DEF ShopInv, BodiesAllowed, UsableBodies
<1>4. ASSUME NEW p \in Purchases PROVE PriceRead(p)' /\ DecisionFits(p)'
  <2>1. p \in Requests
    BY DEF Requests
  <2>2. CASE pc'[p] = "done"
    BY <2>2, StatesInOrder DEF PriceRead, DecisionFits
  <2>3. CASE pc'[p] = pc[p] /\ view'[p] = view[p]
    BY <1>2, <2>3 DEF ShopInv, PriceRead, DecisionFits
  <2> QED
    BY <1>1, <2>1, <2>2, <2>3
<1> QED
  BY <1>2, <1>3, <1>4 DEF ShopInv

LEMMA ShopUnchanged ==
    ASSUME ShopInv, UNCHANGED <<bank, request, ledger>>
    PROVE  ShopInv'
  BY DEF ShopInv, BodiesAllowed, PriceRead, DecisionFits, UsableBodies, request, ledger

LEMMA ShopStep ==
    PrivateMachines /\ StateInv /\ StateInv' /\ BooksInv /\ ShopInv /\ [Next]_vars
        => ShopInv' /\ [TheShop!Next]_(TheShop!vars)
<1> SUFFICES ASSUME PrivateMachines, StateInv, StateInv', BooksInv, ShopInv, [Next]_vars
             PROVE  ShopInv' /\ (TheShop!Next \/ UNCHANGED <<stock, bank, sales>>)
  BY DEF TheShop!vars
<1>1. ASSUME NEW r \in Requests, StatementFails(r)
      PROVE  ShopInv' /\ UNCHANGED <<stock, bank, sales>>
  BY <1>1, ShopAnswer DEF StatementFails
<1>2. ASSUME NEW product \in Products, RemoveProduct(product)
      PROVE  ShopInv' /\ UNCHANGED <<stock, bank, sales>>
  BY <1>2, ShopUnchanged DEF RemoveProduct
<1>3. ASSUME NEW machine \in Machines, RemoveMachine(machine)
      PROVE  ShopInv' /\ UNCHANGED <<stock, bank, sales>>
  BY <1>3, ShopUnchanged DEF RemoveMachine
<1>4. CASE UNCHANGED vars
  BY <1>4, ShopUnchanged DEF vars, database
<1> QED
  BY <1>1, <1>2, <1>3, <1>4, ShopPurchase, ShopRestock, ShopCrash DEF Next

LEMMA ShopInvariant == ASSUME PrivateMachines PROVE Spec => []ShopInv
<1>1. Init => ShopInv
  BY ShopInitInv
<1> QED
  BY <1>1, ShopStep, BooksInvariant, PTL DEF Spec

(* However requests that share no machine interleave, fail and crash, what *)
(* they do to the stock, the banks and the sales is what the atomic shop   *)
(* may do, and no purchase is made twice (commitPurchase, restockBank).    *)
THEOREM VendingImplementsShop == ASSUME PrivateMachines PROVE Spec => ImplementsShop
<1>1. Init => ShopInv /\ TheShop!Init
  BY ShopInitInv DEF Init, TheShop!Init
<1> QED
  BY <1>1, ShopStep, BooksInvariant, PTL DEF Spec, ImplementsShop, TheShop!Spec

(* And then no machine pays out a coin that it did not hold, as one that   *)
(* requests share may seem to (makeChange: "a machine that cannot pay out  *)
(* exactly must refuse the sale").                                         *)
THEOREM PrivateMachinesPayFromHoldings == ASSUME PrivateMachines PROVE Spec => []PaidFromHoldings
<1>1. ASSUME StateInv, BooksInv, ShopInv PROVE PaidFromHoldings
  <2> SUFFICES ASSUME NEW m \in Machines, NEW d \in Denominations
               PROVE  paid[m][d] <= InitBank[m][d] + restocked[m][d]
    BY DEF PaidFromHoldings
  <2>1. bank[m][d] \in Nat /\ paid[m][d] \in Nat
    BY <1>1 DEF StateInv, TypeInv, TypeOK, CoinBank
  <2>2. InitBank[m][d] \in Nat /\ restocked[m][d] \in Nat
    BY <1>1, SeedAssumption DEF StateInv, TypeInv, TypeOK, CoinBank
  <2>3. bank[m][d] + paid[m][d] = InitBank[m][d] + restocked[m][d]
    BY <1>1 DEF BooksInv, BankBalanced, ShopInv
  <2> QED
    BY <2>1, <2>2, <2>3
<1> QED
  BY <1>1, ShopInvariant, BooksInvariant, PTL
=============================================================================
