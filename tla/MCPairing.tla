------------------------------ MODULE MCPairing -----------------------------
(* An earlier run may have saved the address of another console; one       *)
(* request of every kind the control thread tells apart.                   *)
EXTENDS Pairing

CONSTANT other

MCOldFile == {<<other, other>>}

MCRequests ==
  {[req |-> "get", id |-> "F5", len |-> "none"],
   [req |-> "set", id |-> "F5", len |-> "full"],
   [req |-> "set", id |-> "F5", len |-> "short"],
   [req |-> "set", id |-> "EF", len |-> "full"],
   [req |-> "set", id |-> "F4", len |-> "none"]}

=============================================================================
