----------------------------- MODULE MCUsbHooks ------------------------------
(* Small instances of UsbHooks for TLC: the device in the game's thread    *)
(* has only its IN pipe opened.                                            *)
EXTENDS UsbHooks

MCEndpoints == [t \in Thread |-> IF t = Game THEN {EP_IN} ELSE Ep]

=============================================================================
