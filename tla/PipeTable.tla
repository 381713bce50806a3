----------------------------- MODULE PipeTable ------------------------------
(***************************************************************************)
(* What the pool of fake pipes promises its callers when they come one at  *)
(* a time: a table of open pipes that hands out each number once, gives an *)
(* open the number drawn for it and never an older one, refuses an open    *)
(* only when the table is full, and drops a pipe only when it is closed.   *)
(***************************************************************************)
EXTENDS Integers, FiniteSets

CONSTANTS
  Owner,    \* the devices pipes are opened for
  Ep,       \* their endpoints
  Limit,    \* how many pipes can be open at a time
  First     \* the numbers given out are greater

VARIABLES
  open,     \* the open pipes, [of : Owner, ep : Ep, handle : Nat]
  last,     \* the last number drawn
  drawn     \* an open is under way and has drawn that number

vars == <<open, last, drawn>>

Init == open = {} /\ last = First /\ drawn = FALSE

(* A number is drawn, for an open or for some other use.                   *)
Draw ==
  /\ ~drawn
  /\ last' > last
  /\ drawn' \in BOOLEAN
  /\ UNCHANGED open

Open ==
  /\ drawn /\ Cardinality(open) < Limit
  /\ \E o \in Owner, ep \in Ep :
       /\ \A p \in open : ~(p.of = o /\ p.ep = ep)
       /\ open' = open \union {[of |-> o, ep |-> ep, handle |-> last]}
  /\ drawn' = FALSE
  /\ UNCHANGED last

Refuse ==
  /\ drawn /\ Cardinality(open) = Limit
  /\ drawn' = FALSE
  /\ UNCHANGED <<open, last>>

Close ==
  /\ ~drawn
  /\ \E p \in open : open' = open \ {p}
  /\ UNCHANGED <<last, drawn>>

Next == Draw \/ Open \/ Refuse \/ Close

Spec == Init /\ [][Next]_vars

=============================================================================
