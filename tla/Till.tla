-------------------------------- MODULE Till --------------------------------
(***************************************************************************)
(* The coin bank of one machine that serves one customer at a time: the    *)
(* bank a purchase leaves behind is the bank the next purchase reads.  It  *)
(* is the setting in which the comments of makeChange speak, and drives    *)
(* makeChange through long sequences of payouts and restocks.              *)
(***************************************************************************)
EXTENDS Coins, FiniteSets

CONSTANTS
    Amounts,        \* the change a customer may be owed, in cents
    StartBanks,     \* the banks a machine may be created with
    Room            \* bound: how many coins of each denomination a restock may reach

ASSUME TillAssumption ==
    /\ Amounts \subseteq Int
    /\ StartBanks \subseteq CoinBank
    /\ Room \in CoinBank

VARIABLES
    bank,           \* the coins in the machine
    last            \* the latest payout: bank before, amount owed, what makeChange returned

vars == <<bank, last>>

NoPayout == [before |-> NoCoins, amount |-> 0, made |-> MakeChange(NoCoins, 0)]

Init == bank \in StartBanks /\ last = NoPayout

(* A purchase that owes `amount`: the sale replaces the bank with what is  *)
(* left, and a refusal leaves it alone.                                    *)
PayOut(amount) ==
    LET made == MakeChange(bank, amount)
    IN  /\ bank' = made.remaining
        /\ last' = [before |-> bank, amount |-> amount, made |-> made]

Restock(d) ==
    /\ bank[d] < Room[d]
    /\ bank' = AddCoins(bank, [NoCoins EXCEPT ![d] = 1])
    /\ last' = NoPayout

Next == \/ \E amount \in Amounts : PayOut(amount)
        \/ \E d \in Denominations : Restock(d)

Spec == Init /\ [][Next]_vars

----------------------------------------------------------------------------
(* Every way to compose `amount` from the coins of a bank, by enumeration: *)
(* the reference the greedy pass is compared with.                         *)
SubBank(n5, n10, n25, n50, n100) ==
    [d \in Denominations |-> CASE d = 5 -> n5 [] d = 10 -> n10 [] d = 25 -> n25
                               [] d = 50 -> n50 [] d = 100 -> n100]

Compositions(b, amount) ==
    {c \in {SubBank(n5, n10, n25, n50, n100) :
                n5 \in 0 .. b[5], n10 \in 0 .. b[10], n25 \in 0 .. b[25],
                n50 \in 0 .. b[50], n100 \in 0 .. b[100]} : SumCoins(c) = amount}

(* makeChange pays exactly what is owed, out of coins the bank holds, and  *)
(* what it pays and what it leaves add up to the bank it was given         *)
(* (coins.ts, makeChange and its tests' "never mutates the input bank").   *)
PaysExactly ==
    LET made == last.made IN
    made.ok => /\ last.amount >= 0 => SumCoins(made.change) = last.amount
               /\ AddCoins(made.remaining, made.change) = last.before
               /\ \A d \in Denominations : made.change[d] \in 0 .. last.before[d]

(* When the greedy pass succeeds no other way to pay uses fewer coins      *)
(* (coins.ts: "composes `amount` from `bank` using the fewest coins").     *)
FewestCoins ==
    last.made.ok =>
        \A c \in Compositions(last.before, last.amount) :
            CountCoins(last.made.change) <= CountCoins(c)

(* A machine that holds one 5 cent coin never refuses a sale it could have *)
(* paid for: the greedy pass of makeChange goes wrong only in a machine    *)
(* without one.                                                            *)
NickelSuffices ==
    last.before[5] > 0 /\ Compositions(last.before, last.amount) # {} => last.made.ok

(* The comment of makeChange: "greedily taking the largest coin that still *)
(* fits always composes the exact amount whenever one exists".             *)
GreedyComplete == Compositions(last.before, last.amount) # {} => last.made.ok
=============================================================================
