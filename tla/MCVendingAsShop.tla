-------------------------- MODULE MCVendingAsShop --------------------------
(* A small instance of VendingAsShop for TLC: two buyers and an operator,   *)
(* each at a machine of their own, over the same two products.             *)
EXTENDS VendingAsShop, TLC

CONSTANTS cola, tea, m1, m2, m3, p1, p2, r1

Coin(d, n) == [f \in Faces |-> IF f = d THEN n ELSE 0]
Buy(machine, product, coins) == [machine |-> machine, product |-> product, coins |-> coins]
Fill(machine, coins) == [machine |-> machine, coins |-> coins]

MCPrice == (cola :> 70) @@ (tea :> 75)
MCInitStock == (cola :> 1) @@ (tea :> 2)
MCBank == [d \in Denominations |-> CASE d = 25 -> 1 [] d = 10 -> 3 [] d = 5 -> 1 [] OTHER -> 0]
MCInitBank == [m \in Machines |-> MCBank]

PrivateMachine == (p1 :> m1) @@ (p2 :> m2) @@ (r1 :> m3)

(* One buyer of tea needs change, the other pays exactly. *)
ForTea == (p1 :> Coin(100, 1)) @@ (p2 :> Coin(25, 3))

PrivateBodies ==
    [r \in Requests |->
        LET m == PrivateMachine[r] IN
        IF r \in Purchases
        THEN {Buy(m, cola, Coin(10, 7)), Buy(m, tea, ForTea[r])}
        ELSE {Fill(m, Coin(25, 1))}]

ASSUME MachinesArePrivate == PrivateMachines
=============================================================================
