--------------------------- MODULE MCProductCache ---------------------------
(* Small instances of ProductCache for TLC. *)
EXTENDS ProductCache

CONSTANTS a, b, c, s1, s2

MCInitStock == [k \in Products |-> 2]

(* Three readers at one server, or two at one each.                        *)
MCDeployments == {[r \in Readers |-> s1], [r \in {a, b} |-> IF r = a THEN s1 ELSE s2]}
=============================================================================
