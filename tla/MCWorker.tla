------------------------------ MODULE MCWorker -------------------------------
(* Small instances of Worker for TLC: an image and the one loaded later,   *)
(* and two devices with the driver's IDs.                                  *)
EXTENDS Worker

CONSTANTS old, new, d1, d2

MCImages  == {old, new}
MCDevices == {d1, d2}
MCDevice  == {d1}

=============================================================================
