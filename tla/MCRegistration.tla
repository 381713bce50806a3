--------------------------- MODULE MCRegistration ----------------------------
(* Small instances of Registration for TLC.                                *)
EXTENDS Registration

CONSTANTS ps3, pc

MCTalkers == {ps3, pc}

=============================================================================
