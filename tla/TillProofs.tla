----------------------------- MODULE TillProofs -----------------------------
(***************************************************************************)
(* What a machine's change is, for any banks, any amounts and any sequence *)
(* of payouts and restocks.                                                *)
(***************************************************************************)
EXTENDS Till, CoinsProofs

(* The bank of the machine is a bank, and what is on record of the latest  *)
(* payout is makeChange's result on a bank.                                *)
TillInv ==
    /\ bank \in CoinBank
    /\ last.before \in CoinBank /\ last.amount \in Int
    /\ last.made = MakeChange(last.before, last.amount)

LEMMA NoCoinsBank == NoCoins \in CoinBank
  BY DEF NoCoins, CoinBank

LEMMA OneCoinMore ==
    ASSUME NEW d \in Denominations, NEW b \in CoinBank
    PROVE  AddCoins(b, [NoCoins EXCEPT ![d] = 1]) \in CoinBank
<1>1. [NoCoins EXCEPT ![d] = 1] \in CoinBank
  BY NoCoinsBank DEF CoinBank
<1> QED
  BY <1>1 DEF AddCoins, CoinBank

LEMMA TillInit == Init => TillInv
  BY TillAssumption, NoCoinsBank DEF Init, NoPayout, TillInv

LEMMA TillStep == TillInv /\ [Next]_vars => TillInv'
<1> SUFFICES ASSUME TillInv, [Next]_vars PROVE TillInv'
  OBVIOUS
<1>1. ASSUME NEW amount \in Amounts, PayOut(amount) PROVE TillInv'
  <2> DEFINE made == MakeChange(bank, amount)
  <2>1. bank \in CoinBank /\ amount \in Int
    BY TillAssumption DEF TillInv
  <2>2. made.remaining \in CoinBank
    BY <2>1, MakeChangeExact
  <2>3. bank' = made.remaining /\ last' = [before |-> bank, amount |-> amount, made |-> made]
    BY <1>1 DEF PayOut
  <2> QED
    BY <2>1, <2>2, <2>3 DEF TillInv
<1>2. ASSUME NEW d \in Denominations, Restock(d) PROVE TillInv'
  <2>1. bank' \in CoinBank
    BY <1>2, OneCoinMore DEF Restock, TillInv
  <2> QED
    BY <1>2, <2>1, NoCoinsBank DEF Restock, NoPayout, TillInv
<1>3. CASE UNCHANGED vars
  BY <1>3 DEF vars, TillInv
<1> QED
  BY <1>1, <1>2, <1>3 DEF Next

LEMMA TillInvariant == Spec => []TillInv
  BY TillInit, TillStep, PTL DEF Spec

(* A composition is a choice of coins from the bank that pays the amount.  *)
LEMMA CompositionPays ==
    ASSUME NEW b \in CoinBank, NEW amount \in Int, NEW c \in Compositions(b, amount)
    PROVE  Pays(b, amount, c)
<1>1. PICK n5 \in 0 .. b[5], n10 \in 0 .. b[10], n25 \in 0 .. b[25],
           n50 \in 0 .. b[50], n100 \in 0 .. b[100] : c = SubBank(n5, n10, n25, n50, n100)
  BY DEF Compositions
<1>2. SumCoins(c) = amount
  BY DEF Compositions
<1>3. /\ c[5] = n5 /\ c[10] = n10 /\ c[25] = n25 /\ c[50] = n50 /\ c[100] = n100
      /\ c = [d \in Denominations |-> c[d]]
  BY <1>1 DEF SubBank, Denominations
<1>4. /\ n5 \in Nat /\ n10 \in Nat /\ n25 \in Nat /\ n50 \in Nat /\ n100 \in Nat
      /\ n5 <= b[5] /\ n10 <= b[10] /\ n25 <= b[25] /\ n50 <= b[50] /\ n100 <= b[100]
  BY CoinBankCounts
<1>5. \A d \in Denominations : c[d] \in Nat /\ c[d] <= b[d]
  BY <1>3, <1>4 DEF Denominations
<1>6. c \in CoinBank /\ Within(b, c)
  BY <1>3, <1>5 DEF CoinBank, Within
<1> QED
  BY <1>2, <1>6 DEF Pays

(* makeChange pays exactly what is owed, out of coins the bank holds, and  *)
(* what it pays and what it leaves add up to the bank (coins.ts).          *)
THEOREM TillPaysExactly == Spec => []PaysExactly
<1>1. TillInv => PaysExactly
  <2> SUFFICES ASSUME TillInv, last.made.ok PROVE
        /\ last.amount >= 0 => SumCoins(last.made.change) = last.amount
        /\ AddCoins(last.made.remaining, last.made.change) = last.before
        /\ \A d \in Denominations : last.made.change[d] \in 0 .. last.before[d]
    BY DEF PaysExactly
  <2> DEFINE b == last.before
             amount == last.amount
             made == MakeChange(b, amount)
  <2>1. b \in CoinBank /\ amount \in Int /\ last.made = made
    BY DEF TillInv
  <2>2. /\ made.ok /\ amount >= 0 => SumCoins(made.change) = amount
        /\ AddCoins(made.remaining, made.change) = b
        /\ made.change \in CoinBank /\ \A d \in Denominations : made.change[d] <= b[d]
    BY <2>1, MakeChangeExact
  <2> HIDE DEF made
  <2>3. \A d \in Denominations : made.change[d] \in 0 .. b[d]
    <3> SUFFICES ASSUME NEW d \in Denominations PROVE made.change[d] \in 0 .. b[d]
      OBVIOUS
    <3>1. made.change[d] \in Nat /\ b[d] \in Nat /\ made.change[d] <= b[d]
      BY <2>1, <2>2 DEF CoinBank
    <3> QED
      BY <3>1
  <2> QED
    BY <2>1, <2>2, <2>3
<1> QED
  BY <1>1, TillInvariant, PTL

(* No other way to pay out of the same bank uses fewer coins (coins.ts,    *)
(* makeChange: "using the fewest coins").                                  *)
THEOREM TillPaysFewest == Spec => []FewestCoins
<1>1. TillInv => FewestCoins
  <2> SUFFICES ASSUME TillInv, last.made.ok, NEW c \in Compositions(last.before, last.amount)
               PROVE  CountCoins(last.made.change) <= CountCoins(c)
    BY DEF FewestCoins
  <2> QED
    BY CompositionPays, ChangeIsFewest DEF TillInv
<1> QED
  BY <1>1, TillInvariant, PTL

(* A machine with one 5 cent coin left refuses no change it could pay      *)
(* (coins.ts, makeChange).                                                 *)
THEOREM TillNickelSuffices == Spec => []NickelSuffices
<1>1. TillInv => NickelSuffices
  <2> SUFFICES ASSUME TillInv, last.before[5] > 0,
                      NEW c \in Compositions(last.before, last.amount)
               PROVE  last.made.ok
    BY DEF NickelSuffices
  <2> QED
    BY CompositionPays, NickelIsEnough DEF TillInv
<1> QED
  BY <1>1, TillInvariant, PTL
=============================================================================
