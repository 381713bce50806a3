------------------------------ MODULE MCInstall ------------------------------
(* A small instance of Install for TLC: word 1 and 2 refer to the first     *)
(* function, word 3 to it as well, one too many; word 4 to the second.      *)
EXTENDS Install

MCTarget == [w \in 1 .. Words |-> IF w = 4 THEN 2 ELSE 1]

=============================================================================
