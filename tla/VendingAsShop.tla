--------------------------- MODULE VendingAsShop ---------------------------
(***************************************************************************)
(* When requests do not share a machine, the service behaves like the      *)
(* atomic Shop however they interleave, fail and crash, and although they  *)
(* share products.  The committed stock, banks and sales are the shop's.   *)
(* Requests that share a machine break this: see PaidFromHoldings.         *)
(***************************************************************************)
EXTENDS Vending

(* A condition of the theorems, not of the code.                           *)
PrivateMachines ==
    \A r, s \in Requests : r # s =>
        \A a \in Bodies[r] \ {NoBody} : \A b \in Bodies[s] \ {NoBody} : a.machine # b.machine

UsableBodies == [r \in Requests |-> Bodies[r] \ {NoBody}]

TheShop == INSTANCE Shop WITH Bodies <- UsableBodies

(* Every commit of a sale is a purchase of the atomic shop, decided on the *)
(* stock and the bank of the moment of the commit, every commit of a       *)
(* restock adds its coins to the bank of that moment, and no other step,   *)
(* failure or crash changes what the shop shows.                           *)
ImplementsShop == TheShop!Spec
=============================================================================
