------------------------------ MODULE MCReads ------------------------------
(* A small instance of Reads for TLC. *)
EXTENDS Reads

(* The dearer product makes revenue and purchases rank machines differently. *)
MCPrice == [p \in Products |-> IF p = 1 THEN 3 ELSE 1]
=============================================================================
