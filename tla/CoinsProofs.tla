---------------------------- MODULE CoinsProofs ----------------------------
(***************************************************************************)
(* What makeChange guarantees for every bank and every amount.             *)
(***************************************************************************)
EXTENDS Coins, TLAPS

(* One round of makeChange's loop takes no more coins than the machine     *)
(* has, never pays too much, and either empties the denomination or leaves *)
(* less than one such coin.                                                *)
LEMMA RoundFacts ==
    ASSUME NEW bank \in CoinBank, NEW left \in Nat, NEW d \in Denominations
    PROVE  /\ Take(bank, left, d) \in Nat
           /\ Take(bank, left, d) <= bank[d]
           /\ Round(bank, left, d) \in Nat
           /\ Round(bank, left, d) = left - d * Take(bank, left, d)
           /\ Take(bank, left, d) = bank[d] \/ Round(bank, left, d) < d
<1>1. bank[d] \in Nat
  BY DEF CoinBank
<1>2. CASE d = 5
  BY <1>1, <1>2 DEF Take, Round
<1>3. CASE d = 10
  BY <1>1, <1>3 DEF Take, Round
<1>4. CASE d = 25
  BY <1>1, <1>4 DEF Take, Round
<1>5. CASE d = 50
  BY <1>1, <1>5 DEF Take, Round
<1>6. CASE d = 100
  BY <1>1, <1>6 DEF Take, Round
<1> QED
  BY <1>2, <1>3, <1>4, <1>5, <1>6 DEF Denominations

(* The five rounds together, in plain arithmetic: what each takes, what it *)
(* leaves, and that the coins taken and what is still owed make up the     *)
(* amount.                                                                 *)
LEMMA GreedyFacts ==
    ASSUME NEW bank \in CoinBank, NEW amount \in Nat
    PROVE  LET g == GreedyChange(bank, amount)
           IN  /\ g \in CoinBank
               /\ \A d \in Denominations : g[d] <= bank[d]
               /\ Left50(bank, amount) \in Nat
               /\ Left25(bank, amount) \in Nat
               /\ Left10(bank, amount) \in Nat
               /\ Left5(bank, amount) \in Nat
               /\ Owed(bank, amount) \in Nat
               /\ Left50(bank, amount) = amount - 100 * g[100]
               /\ Left25(bank, amount) = Left50(bank, amount) - 50 * g[50]
               /\ Left10(bank, amount) = Left25(bank, amount) - 25 * g[25]
               /\ Left5(bank, amount) = Left10(bank, amount) - 10 * g[10]
               /\ Owed(bank, amount) = Left5(bank, amount) - 5 * g[5]
               /\ g[100] = bank[100] \/ Left50(bank, amount) < 100
               /\ g[50] = bank[50] \/ Left25(bank, amount) < 50
               /\ g[25] = bank[25] \/ Left10(bank, amount) < 25
               /\ g[10] = bank[10] \/ Left5(bank, amount) < 10
               /\ g[5] = bank[5] \/ Owed(bank, amount) < 5
<1> DEFINE g == GreedyChange(bank, amount)
           a50 == Left50(bank, amount)
           a25 == Left25(bank, amount)
           a10 == Left10(bank, amount)
           a5 == Left5(bank, amount)
           a0 == Owed(bank, amount)
<1>1. /\ g[100] = Take(bank, amount, 100)
      /\ g[50] = Take(bank, a50, 50)
      /\ g[25] = Take(bank, a25, 25)
      /\ g[10] = Take(bank, a10, 10)
      /\ g[5] = Take(bank, a5, 5)
      /\ g = [d \in Denominations |-> g[d]]
  BY DEF GreedyChange, Denominations
<1>2. /\ a50 \in Nat /\ g[100] \in Nat /\ g[100] <= bank[100]
      /\ a50 = amount - 100 * g[100] /\ (g[100] = bank[100] \/ a50 < 100)
  BY <1>1, RoundFacts, 100 \in Denominations DEF Left50, Denominations
<1>3. /\ a25 \in Nat /\ g[50] \in Nat /\ g[50] <= bank[50]
      /\ a25 = a50 - 50 * g[50] /\ (g[50] = bank[50] \/ a25 < 50)
  BY <1>1, <1>2, RoundFacts, 50 \in Denominations DEF Left25, Denominations
<1>4. /\ a10 \in Nat /\ g[25] \in Nat /\ g[25] <= bank[25]
      /\ a10 = a25 - 25 * g[25] /\ (g[25] = bank[25] \/ a10 < 25)
  BY <1>1, <1>3, RoundFacts, 25 \in Denominations DEF Left10, Denominations
<1>5. /\ a5 \in Nat /\ g[10] \in Nat /\ g[10] <= bank[10]
      /\ a5 = a10 - 10 * g[10] /\ (g[10] = bank[10] \/ a5 < 10)
  BY <1>1, <1>4, RoundFacts, 10 \in Denominations DEF Left5, Denominations
<1>6. /\ a0 \in Nat /\ g[5] \in Nat /\ g[5] <= bank[5]
      /\ a0 = a5 - 5 * g[5] /\ (g[5] = bank[5] \/ a0 < 5)
  BY <1>1, <1>5, RoundFacts, 5 \in Denominations DEF Owed, Denominations
<1>7. g \in CoinBank /\ \A d \in Denominations : g[d] <= bank[d]
  <2>1. \A d \in Denominations : g[d] \in Nat /\ g[d] <= bank[d]
    BY <1>2, <1>3, <1>4, <1>5, <1>6 DEF Denominations
  <2> QED
    BY <1>1, <2>1 DEF CoinBank
<1> QED
  BY <1>2, <1>3, <1>4, <1>5, <1>6, <1>7

(* The coins taken and what is still owed after the loop make up the       *)
(* amount.                                                                 *)
LEMMA GreedySum ==
    ASSUME NEW bank \in CoinBank, NEW amount \in Nat
    PROVE  SumCoins(GreedyChange(bank, amount)) + Owed(bank, amount) = amount
<1> DEFINE g == GreedyChange(bank, amount)
<1>1. /\ Left50(bank, amount) = amount - 100 * g[100]
      /\ Left25(bank, amount) = Left50(bank, amount) - 50 * g[50]
      /\ Left10(bank, amount) = Left25(bank, amount) - 25 * g[25]
      /\ Left5(bank, amount) = Left10(bank, amount) - 10 * g[10]
      /\ Owed(bank, amount) = Left5(bank, amount) - 5 * g[5]
  BY GreedyFacts
<1>2. /\ Left50(bank, amount) \in Nat /\ Left25(bank, amount) \in Nat
      /\ Left10(bank, amount) \in Nat /\ Left5(bank, amount) \in Nat
      /\ Owed(bank, amount) \in Nat /\ g \in CoinBank
  BY GreedyFacts
<1>3. /\ g[5] \in Nat /\ g[10] \in Nat /\ g[25] \in Nat /\ g[50] \in Nat /\ g[100] \in Nat
  BY <1>2 DEF CoinBank, Denominations
<1> HIDE DEF g
<1>4. amount = Left50(bank, amount) + 100 * g[100]
  BY <1>1, <1>2, <1>3
<1>5. amount = Left25(bank, amount) + 50 * g[50] + 100 * g[100]
  BY <1>1, <1>2, <1>3, <1>4
<1>6. amount = Left10(bank, amount) + 25 * g[25] + 50 * g[50] + 100 * g[100]
  BY <1>1, <1>2, <1>3, <1>5
<1>7. amount = Left5(bank, amount) + 10 * g[10] + 25 * g[25] + 50 * g[50] + 100 * g[100]
  BY <1>1, <1>2, <1>3, <1>6
<1>8. amount = Owed(bank, amount) + 5 * g[5] + 10 * g[10] + 25 * g[25] + 50 * g[50] + 100 * g[100]
  BY <1>1, <1>2, <1>3, <1>7
<1> QED
  BY <1>2, <1>3, <1>8 DEF SumCoins, g

(* makeChange pays exactly what is owed, out of coins the bank holds, and  *)
(* what it pays and what it leaves add up to the bank it was given; a      *)
(* non-positive amount pays nothing (coins.ts, makeChange).                *)
THEOREM MakeChangeExact ==
    ASSUME NEW bank \in CoinBank, NEW amount \in Int
    PROVE  LET made == MakeChange(bank, amount)
           IN  /\ made.ok \in BOOLEAN
               /\ made.change \in CoinBank
               /\ made.remaining \in CoinBank
               /\ made.ok /\ amount >= 0 => SumCoins(made.change) = amount
               /\ AddCoins(made.remaining, made.change) = bank
               /\ \A d \in Denominations : made.change[d] <= bank[d]
<1> DEFINE made == MakeChange(bank, amount)
<1>1. NoCoins \in CoinBank /\ \A d \in Denominations : NoCoins[d] = 0
  BY DEF NoCoins, CoinBank
<1>2. SumCoins(NoCoins) = 0
  BY <1>1 DEF SumCoins, Denominations
<1>3. AddCoins(bank, NoCoins) = bank
  <2>1. ASSUME NEW d \in Denominations PROVE bank[d] + NoCoins[d] = bank[d]
    <3>1. bank[d] \in Nat /\ NoCoins[d] = 0
      BY <1>1 DEF CoinBank
    <3> QED
      BY <3>1
  <2> QED
    BY <2>1 DEF AddCoins, CoinBank
<1>4. \A d \in Denominations : bank[d] \in Nat
  BY DEF CoinBank
<1>5. CASE amount <= 0
  <2>1. made = [ok |-> TRUE, change |-> NoCoins, remaining |-> bank]
    BY <1>5 DEF MakeChange
  <2>2. amount >= 0 => amount = 0
    BY <1>5
  <2> QED
    BY <2>1, <2>2, <1>1, <1>2, <1>3, <1>4
<1>6. CASE amount > 0 /\ Owed(bank, amount) # 0
  <2>1. made = [ok |-> FALSE, change |-> NoCoins, remaining |-> bank]
    BY <1>6 DEF MakeChange
  <2> QED
    BY <2>1, <1>1, <1>3, <1>4
<1>7. CASE amount > 0 /\ Owed(bank, amount) = 0
  <2>1. amount \in Nat
    BY <1>7
  <2>2. PICK g \in CoinBank :
            /\ g = GreedyChange(bank, amount)
            /\ \A d \in Denominations : g[d] <= bank[d]
    BY <2>1, GreedyFacts
  <2>3. made = [ok |-> TRUE, change |-> g, remaining |-> RemoveCoins(bank, g)]
    BY <1>7, <2>2 DEF MakeChange
  <2>4. \A d \in Denominations : g[d] \in Nat
    BY DEF CoinBank
  <2>5. SumCoins(g) \in Nat
    BY <2>4 DEF SumCoins, Denominations
  <2>6. SumCoins(g) = amount
    BY <1>7, <2>1, <2>2, <2>5, GreedySum
  <2>7. RemoveCoins(bank, g) \in CoinBank
    BY <1>4, <2>2, <2>4 DEF RemoveCoins, CoinBank
  <2>8. AddCoins(RemoveCoins(bank, g), g) = bank
    <3>1. ASSUME NEW d \in Denominations PROVE (bank[d] - g[d]) + g[d] = bank[d]
      <4>1. bank[d] \in Nat /\ g[d] \in Nat
        BY <1>4, <2>4
      <4> QED
        BY <4>1
    <3> QED
      BY <3>1 DEF AddCoins, RemoveCoins, CoinBank
  <2> QED
    BY <2>2, <2>3, <2>6, <2>7, <2>8
<1> QED
  BY <1>5, <1>6, <1>7

(* Whatever a purchase decides on, the change and the bank it leaves are   *)
(* banks; a sale is only made of a product in stock, against a payment of  *)
(* accepted coins that is its price and the change, and the change comes   *)
(* out of the bank (purchase.ts, purchase).                                *)
THEOREM PurchaseSound ==
    ASSUME NEW price \in Nat, NEW stock \in Nat, NEW bank \in CoinBank, NEW coins \in Inserted
    PROVE  LET decision == Purchase(price, stock, bank, coins)
           IN  /\ decision.change \in CoinBank
               /\ decision.remaining \in CoinBank
               /\ AddCoins(decision.remaining, decision.change) = bank
               /\ decision.outcome \in {"UnsupportedCoin", "InsufficientPayment", "OutOfStock",
                                        "ExactChangeRequired", "Sold"}
               /\ decision.outcome = "Sold" =>
                     /\ stock > 0 /\ ValidateCoins(coins)
                     /\ SumCoins(coins) = price + SumCoins(decision.change)
<1> DEFINE owed == SumCoins(coins) - price
           made == MakeChange(bank, owed)
           decision == Purchase(price, stock, bank, coins)
<1>1. SumCoins(coins) \in Nat
  BY DEF SumCoins, Inserted, Faces, Denominations
<1>2. owed \in Int
  BY <1>1
<1>3. /\ made.ok \in BOOLEAN /\ made.change \in CoinBank /\ made.remaining \in CoinBank
      /\ made.ok /\ owed >= 0 => SumCoins(made.change) = owed
      /\ AddCoins(made.remaining, made.change) = bank
  BY <1>2, MakeChangeExact
<1>4. NoCoins \in CoinBank /\ AddCoins(bank, NoCoins) = bank
  <2>1. NoCoins \in CoinBank /\ \A d \in Denominations : NoCoins[d] = 0
    BY DEF NoCoins, CoinBank
  <2>2. ASSUME NEW d \in Denominations PROVE bank[d] + NoCoins[d] = bank[d]
    <3>1. bank[d] \in Nat /\ NoCoins[d] = 0
      BY <2>1 DEF CoinBank
    <3> QED
      BY <3>1
  <2> QED
    BY <2>1, <2>2 DEF AddCoins, CoinBank
<1>5. CASE ~ValidateCoins(coins)
  BY <1>4, <1>5 DEF Purchase, Refuse
<1>6. CASE ValidateCoins(coins) /\ owed < 0
  BY <1>4, <1>6 DEF Purchase, Refuse
<1>7. CASE ValidateCoins(coins) /\ owed >= 0 /\ stock <= 0
  BY <1>2, <1>4, <1>7 DEF Purchase, Refuse
<1>8. CASE ValidateCoins(coins) /\ owed >= 0 /\ stock > 0 /\ ~made.ok
  BY <1>2, <1>4, <1>8 DEF Purchase, Refuse
<1>9. CASE ValidateCoins(coins) /\ owed >= 0 /\ stock > 0 /\ made.ok
  <2>1. decision = [outcome |-> "Sold", change |-> made.change, remaining |-> made.remaining]
    BY <1>2, <1>9 DEF Purchase
  <2>2. SumCoins(made.change) = owed
    BY <1>3, <1>9
  <2> HIDE DEF made
  <2>3. SumCoins(coins) = price + SumCoins(made.change)
    BY <1>1, <2>2
  <2> QED
    BY <1>3, <1>9, <2>1, <2>3
<1> QED
  BY <1>2, <1>3, <1>5, <1>6, <1>7, <1>8, <1>9

----------------------------------------------------------------------------
(***************************************************************************)
(* The greedy pass against any other way to pay: g is what the pass takes  *)
(* from the bank b, and c another choice of coins from it.                 *)
(***************************************************************************)
Within(b, c) == \A d \in Denominations : c[d] <= b[d]

(* After a pass that leaves `owed` unpaid, each denomination is used up,   *)
(* or less than one such coin was left to pay with it and smaller ones.    *)
GreedyStop(b, g, owed) ==
    /\ g[100] = b[100] \/ 5 * g[5] + 10 * g[10] + 25 * g[25] + 50 * g[50] + owed < 100
    /\ g[50] = b[50] \/ 5 * g[5] + 10 * g[10] + 25 * g[25] + owed < 50
    /\ g[25] = b[25] \/ 5 * g[5] + 10 * g[10] + owed < 25
    /\ g[10] = b[10] \/ 5 * g[5] + owed < 10
    /\ g[5] = b[5] \/ owed < 5

LEMMA CoinBankCounts ==
    ASSUME NEW c \in CoinBank
    PROVE  c[5] \in Nat /\ c[10] \in Nat /\ c[25] \in Nat /\ c[50] \in Nat /\ c[100] \in Nat
  BY DEF CoinBank, Denominations

LEMMA WithinCounts ==
    ASSUME NEW b, NEW c, Within(b, c)
    PROVE  c[5] <= b[5] /\ c[10] <= b[10] /\ c[25] <= b[25] /\ c[50] <= b[50] /\ c[100] <= b[100]
  BY DEF Within, Denominations

(* The numbers of the two passes side by side, as the provers take them.   *)
Numbers(c, n5, n10, n25, n50, n100) ==
    n5 = c[5] /\ n10 = c[10] /\ n25 = c[25] /\ n50 = c[50] /\ n100 = c[100]

LEMMA NumbersExist ==
    ASSUME NEW c \in CoinBank
    PROVE  \E n5, n10, n25, n50, n100 \in Nat : Numbers(c, n5, n10, n25, n50, n100)
  BY CoinBankCounts DEF Numbers

(* If the pass pays everything, no other choice has fewer coins.           *)
LEMMA FewestArithmetic ==
    ASSUME NEW b \in CoinBank, NEW g \in CoinBank, NEW c \in CoinBank,
           Within(b, g), Within(b, c), GreedyStop(b, g, 0), SumCoins(g) = SumCoins(c)
    PROVE  CountCoins(g) <= CountCoins(c)
<1>1. PICK b5, b10, b25, b50, b100 \in Nat : Numbers(b, b5, b10, b25, b50, b100)
  BY NumbersExist
<1>2. PICK g5, g10, g25, g50, g100 \in Nat : Numbers(g, g5, g10, g25, g50, g100)
  BY NumbersExist
<1>3. PICK c5, c10, c25, c50, c100 \in Nat : Numbers(c, c5, c10, c25, c50, c100)
  BY NumbersExist
<1>4. /\ g5 <= b5 /\ g10 <= b10 /\ g25 <= b25 /\ g50 <= b50 /\ g100 <= b100
      /\ c5 <= b5 /\ c10 <= b10 /\ c25 <= b25 /\ c50 <= b50 /\ c100 <= b100
  BY <1>1, <1>2, <1>3, WithinCounts DEF Numbers
<1>5. /\ g100 = b100 \/ 5 * g5 + 10 * g10 + 25 * g25 + 50 * g50 < 100
      /\ g50 = b50 \/ 5 * g5 + 10 * g10 + 25 * g25 < 50
      /\ g25 = b25 \/ 5 * g5 + 10 * g10 < 25
      /\ g10 = b10 \/ 5 * g5 < 10
  BY <1>1, <1>2 DEF Numbers, GreedyStop
<1>6. 5 * g5 + 10 * g10 + 25 * g25 + 50 * g50 + 100 * g100
         = 5 * c5 + 10 * c10 + 25 * c25 + 50 * c50 + 100 * c100
  BY <1>2, <1>3 DEF Numbers, SumCoins
<1>7. g5 + g10 + g25 + g50 + g100 <= c5 + c10 + c25 + c50 + c100
  BY <1>4, <1>5, <1>6, SMTT(60)
<1> QED
  BY <1>2, <1>3, <1>7 DEF Numbers, CountCoins

(* If something is left to pay, and there was a 5 cent coin, then all 5    *)
(* and 10 cent coins are gone.  Let d be the first larger coin, if any, of *)
(* which the pass has left some.  All smaller ones are gone, and together  *)
(* with what is left they are worth less than d.  The other choice would   *)
(* have to make up the same rest modulo d out of the same smaller coins.   *)
LEMMA NickelArithmetic ==
    ASSUME NEW b \in CoinBank, NEW g \in CoinBank, NEW c \in CoinBank, NEW owed \in Nat,
           Within(b, g), Within(b, c), GreedyStop(b, g, owed),
           SumCoins(g) + owed = SumCoins(c), b[5] > 0
    PROVE  owed = 0
<1> SUFFICES ASSUME owed > 0 PROVE FALSE
  OBVIOUS
<1>1. PICK b5, b10, b25, b50, b100 \in Nat : Numbers(b, b5, b10, b25, b50, b100)
  BY NumbersExist
<1>2. PICK g5, g10, g25, g50, g100 \in Nat : Numbers(g, g5, g10, g25, g50, g100)
  BY NumbersExist
<1>3. PICK c5, c10, c25, c50, c100 \in Nat : Numbers(c, c5, c10, c25, c50, c100)
  BY NumbersExist
<1>4. b5 > 0 /\ c5 <= b5 /\ c10 <= b10 /\ c25 <= b25 /\ c50 <= b50 /\ c100 <= b100
  BY <1>1, <1>3, WithinCounts DEF Numbers
<1>5. /\ g100 = b100 \/ 5 * g5 + 10 * g10 + 25 * g25 + 50 * g50 + owed < 100
      /\ g50 = b50 \/ 5 * g5 + 10 * g10 + 25 * g25 + owed < 50
      /\ g25 = b25 \/ 5 * g5 + 10 * g10 + owed < 25
      /\ g10 = b10 \/ 5 * g5 + owed < 10
      /\ g5 = b5 \/ owed < 5
  BY <1>1, <1>2 DEF Numbers, GreedyStop
<1>6. 5 * g5 + 10 * g10 + 25 * g25 + 50 * g50 + 100 * g100 + owed
         = 5 * c5 + 10 * c10 + 25 * c25 + 50 * c50 + 100 * c100
  BY <1>2, <1>3 DEF Numbers, SumCoins
<1>7. owed >= 5 /\ g5 = b5
  BY <1>5, <1>6
<1>8. g10 = b10
  BY <1>4, <1>5, <1>7
<1> DEFINE small == 5 * g5 + 10 * g10
           other == 5 * c5 + 10 * c10
<1>9. small \in Nat /\ other \in Nat /\ other <= small
  BY <1>4, <1>7, <1>8
<1>10. CASE small + owed < 25
  <2>1. small + owed - other = 25 * (c25 + 2 * c50 + 4 * c100 - g25 - 2 * g50 - 4 * g100)
    BY <1>6
  <2> QED
    BY <1>9, <1>10, <2>1
<1>11. CASE small + owed >= 25 /\ small + 25 * g25 + owed < 50
  <2>1. g25 = b25
    BY <1>5, <1>11
  <2>2. small + 25 * g25 + owed - other - 25 * c25 = 50 * (c50 + 2 * c100 - g50 - 2 * g100)
    BY <1>6
  <2> QED
    BY <1>4, <1>9, <1>11, <2>1, <2>2
<1>12. CASE /\ small + owed >= 25 /\ small + 25 * g25 + owed >= 50
            /\ small + 25 * g25 + 50 * g50 + owed < 100
  <2>1. g25 = b25 /\ g50 = b50
    BY <1>5, <1>12
  <2> QED
    BY <1>4, <1>6, <1>9, <1>12, <2>1
<1>13. CASE /\ small + owed >= 25 /\ small + 25 * g25 + owed >= 50
            /\ small + 25 * g25 + 50 * g50 + owed >= 100
  <2>1. g25 = b25 /\ g50 = b50 /\ g100 = b100
    BY <1>5, <1>13
  <2> QED
    BY <1>4, <1>6, <1>9, <1>13, <2>1
<1> QED
  BY <1>9, <1>10, <1>11, <1>12, <1>13

(* What the greedy pass of makeChange is, in the terms of the two lemmas.  *)
LEMMA GreedyPass ==
    ASSUME NEW bank \in CoinBank, NEW amount \in Nat
    PROVE  /\ GreedyChange(bank, amount) \in CoinBank
           /\ Owed(bank, amount) \in Nat
           /\ Within(bank, GreedyChange(bank, amount))
           /\ GreedyStop(bank, GreedyChange(bank, amount), Owed(bank, amount))
           /\ SumCoins(GreedyChange(bank, amount)) + Owed(bank, amount) = amount
<1> DEFINE g == GreedyChange(bank, amount)
           a50 == Left50(bank, amount)
           a25 == Left25(bank, amount)
           a10 == Left10(bank, amount)
           a5 == Left5(bank, amount)
           a0 == Owed(bank, amount)
<1>1. g \in CoinBank /\ Within(bank, g)
  BY GreedyFacts DEF Within
<1>2. a50 \in Nat /\ a25 \in Nat /\ a10 \in Nat /\ a5 \in Nat /\ a0 \in Nat
  BY GreedyFacts
<1>3. /\ a25 = a50 - 50 * g[50] /\ a10 = a25 - 25 * g[25]
      /\ a5 = a10 - 10 * g[10] /\ a0 = a5 - 5 * g[5]
  BY GreedyFacts
<1>4. /\ g[100] = bank[100] \/ a50 < 100
      /\ g[50] = bank[50] \/ a25 < 50
      /\ g[25] = bank[25] \/ a10 < 25
      /\ g[10] = bank[10] \/ a5 < 10
      /\ g[5] = bank[5] \/ a0 < 5
  BY GreedyFacts
<1>5. SumCoins(g) + a0 = amount
  BY GreedySum
<1>6. g[5] \in Nat /\ g[10] \in Nat /\ g[25] \in Nat /\ g[50] \in Nat /\ g[100] \in Nat
  BY <1>1, CoinBankCounts
<1> HIDE DEF g, a50, a25, a10, a5, a0
<1>7. a5 = 5 * g[5] + a0
  BY <1>2, <1>3, <1>6
<1>8. a10 = 10 * g[10] + a5
  BY <1>2, <1>3, <1>6
<1>9. a25 = 25 * g[25] + a10
  BY <1>2, <1>3, <1>6
<1>10. a50 = 50 * g[50] + a25
  BY <1>2, <1>3, <1>6
<1>11. GreedyStop(bank, g, a0)
  <2>1. PICK n5, n10, n25, n50, n100 \in Nat : Numbers(g, n5, n10, n25, n50, n100)
    BY <1>1, NumbersExist
  <2>2. /\ a5 = 5 * n5 + a0
        /\ a10 = 5 * n5 + 10 * n10 + a0
        /\ a25 = 5 * n5 + 10 * n10 + 25 * n25 + a0
        /\ a50 = 5 * n5 + 10 * n10 + 25 * n25 + 50 * n50 + a0
    BY <1>2, <1>7, <1>8, <1>9, <1>10, <2>1 DEF Numbers
  <2> QED
    BY <1>4, <2>1, <2>2 DEF GreedyStop, Numbers
<1> QED
  BY <1>1, <1>2, <1>5, <1>11 DEF g, a0

(* A choice of coins from the bank that pays the amount. *)
Pays(bank, amount, c) == c \in CoinBank /\ Within(bank, c) /\ SumCoins(c) = amount

(* When the greedy pass succeeds, no other choice of coins from the same   *)
(* bank that pays the amount has fewer coins (coins.ts: "composes `amount` *)
(* from `bank` using the fewest coins").                                   *)
THEOREM ChangeIsFewest ==
    ASSUME NEW bank \in CoinBank, NEW amount \in Int, MakeChange(bank, amount).ok,
           NEW c, Pays(bank, amount, c)
    PROVE  CountCoins(MakeChange(bank, amount).change) <= CountCoins(c)
<1>1. c \in CoinBank /\ Within(bank, c) /\ SumCoins(c) = amount
  BY DEF Pays
<1>2. CASE amount <= 0
  <2>1. MakeChange(bank, amount).change = NoCoins
    BY <1>2 DEF MakeChange
  <2>2. CountCoins(NoCoins) = 0
    BY DEF CountCoins, NoCoins, Denominations
  <2> QED
    BY <1>1, <2>1, <2>2, CoinBankCounts DEF CountCoins
<1>3. CASE amount > 0
  <2> DEFINE g == GreedyChange(bank, amount)
  <2>1. amount \in Nat /\ Owed(bank, amount) = 0 /\ MakeChange(bank, amount).change = g
    BY <1>3 DEF MakeChange
  <2>2. /\ g \in CoinBank /\ Within(bank, g) /\ GreedyStop(bank, g, 0)
        /\ SumCoins(g) + 0 = amount
    BY <2>1, GreedyPass
  <2>3. SumCoins(g) = SumCoins(c)
    BY <1>1, <2>2, CoinBankCounts DEF SumCoins
  <2> HIDE DEF g
  <2> QED
    BY <1>1, <2>1, <2>2, <2>3, FewestArithmetic
<1> QED
  BY <1>2, <1>3

(* A bank with one 5 cent coin never refuses what it could pay: the greedy *)
(* pass of makeChange goes wrong only where there is none.                 *)
THEOREM NickelIsEnough ==
    ASSUME NEW bank \in CoinBank, NEW amount \in Int, bank[5] > 0,
           NEW c, Pays(bank, amount, c)
    PROVE  MakeChange(bank, amount).ok
<1>1. CASE amount <= 0
  BY <1>1 DEF MakeChange
<1>2. CASE amount > 0
  <2> DEFINE g == GreedyChange(bank, amount)
             owed == Owed(bank, amount)
  <2>1. c \in CoinBank /\ Within(bank, c) /\ SumCoins(c) = amount /\ amount \in Nat
    BY <1>2 DEF Pays
  <2>2. /\ g \in CoinBank /\ owed \in Nat /\ Within(bank, g) /\ GreedyStop(bank, g, owed)
        /\ SumCoins(g) + owed = amount
    BY <2>1, GreedyPass
  <2> HIDE DEF g, owed
  <2>3. owed = 0
    BY <2>1, <2>2, NickelArithmetic
  <2> QED
    BY <1>2, <2>3 DEF MakeChange, owed
<1> QED
  BY <1>1, <1>2
=============================================================================
