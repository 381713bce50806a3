------------------------------- MODULE MCBridge -------------------------------
(* Small instances of Bridge for TLC.                                      *)
EXTENDS Bridge

CONSTANTS t1, t2

MCCatalog  == [n \in {"batman", "gandalf"} |->
                 IF n = "batman" THEN t1 ELSE t2]
MCCapacity == [z \in Zone |-> 1]
Center     == {CENTER}
CenterLeft == {CENTER, LEFT}

=============================================================================
