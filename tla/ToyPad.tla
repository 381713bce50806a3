------------------------------- MODULE ToyPad -------------------------------
(***************************************************************************)
(* What the bridge promises the game: a pad whose IN reports show the      *)
(* centre zone as it was at some moment of the past, or nothing at all.    *)
(* When the network keeps datagrams in order, the moments shown never go   *)
(* back in time.                                                           *)
(***************************************************************************)
EXTENDS Integers, Sequences

CONSTANTS
  Toy,      \* the toys that can be placed
  NoToy,    \* an empty centre zone
  Ordered   \* whether the network keeps datagrams in order

VARIABLES
  padLog,   \* every content the centre zone has had, oldest first
  report,   \* the last report the game's USB thread was woken with
  shown     \* the entry of padLog that the last tag report showed

vars == <<padLog, report, shown>>

NoReport == [kind |-> "none",  toy |-> NoToy]  \* before the first transfer
Dummy    == [kind |-> "dummy", toy |-> NoToy]  \* the 0x55 report
Blank    == [kind |-> "blank", toy |-> NoToy]  \* all zeroes
Tag(t)   == [kind |-> "tag",   toy |-> t]

Init ==
  /\ padLog = <<NoToy>>
  /\ report = NoReport
  /\ shown  = 1

PadChanges ==
  /\ \E x \in Toy \union {NoToy} : padLog' = Append(padLog, x)
  /\ UNCHANGED <<report, shown>>

ReportNothing ==
  /\ report' \in {Dummy, Blank}
  /\ UNCHANGED <<padLog, shown>>

ReportTag ==
  /\ \E i \in 1 .. Len(padLog) :
       /\ padLog[i] \in Toy
       /\ Ordered => i >= shown
       /\ report' = Tag(padLog[i])
       /\ shown'  = i
  /\ UNCHANGED padLog

Next == PadChanges \/ ReportNothing \/ ReportTag

Spec == Init /\ [][Next]_vars

=============================================================================
