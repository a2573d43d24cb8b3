------------------------------- MODULE MCTill -------------------------------
(* Bounded tills for TLC. *)
EXTENDS Till

(* Every multiple of 5 up to what the largest bank can pay, a few amounts  *)
(* no bank can pay, and one that is not positive.                          *)
MCAmounts == {0, 3, 27} \cup {5 * k : k \in 1 .. 62}

MCStartBanks == {NoCoins, [NoCoins EXCEPT ![25] = 3, ![10] = 5]}

(* Two 5 cent coins, five 10 cent coins, three quarters: enough for every  *)
(* way in which small coins stand in for larger ones.                      *)
MCRoom == [NoCoins EXCEPT ![5] = 2, ![10] = 5, ![25] = 3, ![50] = 2, ![100] = 1]
=============================================================================
