----------------------------- MODULE MCVending -----------------------------
(* Small instances of Vending for TLC. *)
EXTENDS Vending, TLC

CONSTANTS cola, tea, m1, p1, p2, r1, r2

Coin(d, n) == [f \in Faces |-> IF f = d THEN n ELSE 0]
Buy(machine, product, coins) == [machine |-> machine, product |-> product, coins |-> coins]
Fill(machine, coins) == [machine |-> machine, coins |-> coins]

MCPrice == (cola :> 70) @@ (tea :> 75)

(* One cola and two teas: one product is sold out by one buyer, the other  *)
(* by two.                                                                 *)
MCInitStock == (cola :> 1) @@ (tea :> 2)

(* 30 cents of change can be paid as 25 + 5, or as 10 + 10 + 10; a second  *)
(* quarter is not there.                                                   *)
MCBank == [d \in Denominations |-> CASE d = 25 -> 1 [] d = 10 -> 3 [] d = 5 -> 1 [] OTHER -> 0]
MCInitBank == [m \in Machines |-> MCBank]

(* The buyers compete for the last cola and for the only quarter.          *)
ContendedBodies ==
    [r \in Requests |->
        IF r \in Purchases
        THEN {NoBody, Buy(m1, cola, Coin(100, 1)), Buy(m1, tea, Coin(100, 1)),
              Buy(m1, tea, Coin(5, 15)), Buy(m1, cola, Coin(50, 1)), Buy(m1, cola, Coin(1, 1))}
        ELSE {Fill(m1, Coin(25, 1)), Fill(m1, Coin(1, 1))}]
=============================================================================
