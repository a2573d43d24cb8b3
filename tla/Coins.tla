------------------------------- MODULE Coins -------------------------------
(***************************************************************************)
(* Coins, coin banks and change (src/features/sales/domain/coins.ts and    *)
(* the copy of its helpers in src/features/machines/domain/machine.ts).    *)
(* The code keeps coins in arrays and banks in objects; the order of an    *)
(* array is never read, and a missing key counts as 0 (`?? 0`), so both    *)
(* are functions from the value of a coin to a count here.                 *)
(***************************************************************************)
EXTENDS Integers

(* The coin values the machine accepts, in cents. *)
Denominations == {5, 10, 25, 50, 100}

CoinBank == [Denominations -> Nat]

(* What a customer or an operator inserts.  The wire contract lets any     *)
(* positive integer through; the value 1 stands for all those that are     *)
(* not accepted denominations.                                             *)
Faces == Denominations \cup {1}

Inserted == [Faces -> Nat]

ValidateCoins(coins) == \A c \in Faces \ Denominations : coins[c] = 0

NoCoins == [d \in Denominations |-> 0]

(* The total value of the coins in a bank, or of inserted coins that have  *)
(* passed ValidateCoins.                                                   *)
SumCoins(coins) ==
    5 * coins[5] + 10 * coins[10] + 25 * coins[25] + 50 * coins[50] + 100 * coins[100]

(* How many coins there are. *)
CountCoins(coins) == coins[5] + coins[10] + coins[25] + coins[50] + coins[100]

AddCoins(bank, coins) == [d \in Denominations |-> bank[d] + coins[d]]

RemoveCoins(bank, coins) == [d \in Denominations |-> bank[d] - coins[d]]

----------------------------------------------------------------------------
(***************************************************************************)
(* makeChange goes through the denominations from the largest to the       *)
(* smallest.  Its loop has five rounds whatever its inputs, and is written *)
(* out round by round: Left50 is what is still owed when the loop reaches  *)
(* the 50 cent coin, and so on; Owed is what is owed after the loop.       *)
(***************************************************************************)

(* Variant: a round never takes the last coin.                             *)
TakeButLast(bank, left, d) ==
    LET fits == left \div d IN
    IF bank[d] <= fits THEN (IF bank[d] = 0 THEN 0 ELSE bank[d] - 1) ELSE fits

(* The coins of value d one round takes. *)
Take(bank, left, d) ==
    LET fits == left \div d IN IF bank[d] < fits THEN bank[d] ELSE fits

Round(bank, left, d) == left - d * Take(bank, left, d)

Left50(bank, amount) == Round(bank, amount, 100)
Left25(bank, amount) == Round(bank, Left50(bank, amount), 50)
Left10(bank, amount) == Round(bank, Left25(bank, amount), 25)
Left5(bank, amount)  == Round(bank, Left10(bank, amount), 10)
Owed(bank, amount)   == Round(bank, Left5(bank, amount), 5)

GreedyChange(bank, amount) ==
    [d \in Denominations |->
        CASE d = 100 -> Take(bank, amount, 100)
          [] d = 50  -> Take(bank, Left50(bank, amount), 50)
          [] d = 25  -> Take(bank, Left25(bank, amount), 25)
          [] d = 10  -> Take(bank, Left10(bank, amount), 10)
          [] d = 5   -> Take(bank, Left5(bank, amount), 5)]

(* Variant: what is still owed after the loop is not looked at.            *)
MakeChangeUnchecked(bank, amount) ==
    LET change == GreedyChange(bank, amount) IN
    IF amount <= 0
    THEN [ok |-> TRUE, change |-> NoCoins, remaining |-> bank]
    ELSE [ok |-> TRUE, change |-> change, remaining |-> RemoveCoins(bank, change)]

(* makeChange throws ErrExactChangeRequired (ok = FALSE) when something is *)
(* still owed after the loop, and returns an untouched copy of the bank    *)
(* when nothing is to be paid.                                             *)
MakeChange(bank, amount) ==
    IF amount <= 0
    THEN [ok |-> TRUE, change |-> NoCoins, remaining |-> bank]
    ELSE IF Owed(bank, amount) # 0
         THEN [ok |-> FALSE, change |-> NoCoins, remaining |-> bank]
         ELSE LET change == GreedyChange(bank, amount)
              IN  [ok |-> TRUE, change |-> change, remaining |-> RemoveCoins(bank, change)]

----------------------------------------------------------------------------
(***************************************************************************)
(* The decision of a purchase (src/features/sales/domain/purchase.ts):     *)
(* coins first, then the payment, the stock and the change, in the order   *)
(* of the code's throws.                                                   *)
(***************************************************************************)
Refuse(reason, bank) == [outcome |-> reason, change |-> NoCoins, remaining |-> bank]

Purchase(price, stock, bank, coins) ==
    LET owed == SumCoins(coins) - price
        made == MakeChange(bank, owed)
    IN  CASE ~ValidateCoins(coins) -> Refuse("UnsupportedCoin", bank)
          [] ValidateCoins(coins) /\ owed < 0 -> Refuse("InsufficientPayment", bank)
          [] ValidateCoins(coins) /\ owed >= 0 /\ stock <= 0 -> Refuse("OutOfStock", bank)
          [] ValidateCoins(coins) /\ owed >= 0 /\ stock > 0 /\ ~made.ok ->
                Refuse("ExactChangeRequired", bank)
          [] OTHER -> [outcome |-> "Sold", change |-> made.change,
                       remaining |-> made.remaining]
=============================================================================
