-------------------------------- MODULE Shop --------------------------------
(***************************************************************************)
(* What a purchase and a restock promise: each happens in one step, on the *)
(* stock and the bank of that moment.  Nothing here is translated from the *)
(* code but the decision of a purchase, which Coins defines; it is the     *)
(* contract the steps of Vending are compared with.                        *)
(***************************************************************************)
EXTENDS Coins

CONSTANTS Purchases, Restocks, Bodies, Price, InitStock, InitBank

VARIABLES stock, bank, sales

vars == <<stock, bank, sales>>

Init == stock = InitStock /\ bank = InitBank /\ sales = {}

(* One customer inserts coins and walks away with a product and change.    *)
Buy(p, machine, product, coins) ==
    LET decision == Purchase(Price[product], stock[product], bank[machine], coins)
    IN  /\ decision.outcome = "Sold"
        /\ \A s \in sales : s.request # p
        /\ stock' = [stock EXCEPT ![product] = @ - 1]
        /\ bank' = [bank EXCEPT ![machine] = decision.remaining]
        /\ sales' = sales \cup
               {[request |-> p, machine |-> machine, product |-> product,
                 price |-> Price[product], inserted |-> SumCoins(coins),
                 changeCents |-> SumCoins(decision.change), change |-> decision.change]}

Restock(machine, coins) ==
    /\ bank' = [bank EXCEPT ![machine] = AddCoins(@, coins)]
    /\ UNCHANGED <<stock, sales>>

Next ==
    \/ \E p \in Purchases : \E body \in Bodies[p] :
           Buy(p, body.machine, body.product, body.coins)
    \/ \E r \in Restocks : \E body \in Bodies[r] : Restock(body.machine, body.coins)

Spec == Init /\ [][Next]_vars
=============================================================================
