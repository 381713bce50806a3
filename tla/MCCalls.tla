------------------------------ MODULE MCCalls -------------------------------
(* Calls with the hooks of usb_hooks.c: OpenPipe, InterruptTransfer,        *)
(* ClosePipe, GetDeviceDescriptor, ControlTransfer and the three            *)
(* registrations.  Addresses are small numbers with both halves in use.     *)
EXTENDS Calls

MCParams == <<3, 5, 1, 2, 6, 3, 3, 3>>
MCTocReg == <<6, 8, 4, 5, 9, 6, 6, 6>>
MCHookAt == [h \in Hook |-> 2 * 65536 + 60000 + h]

=============================================================================
