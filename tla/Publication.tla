----------------------------- MODULE Publication ----------------------------
(***************************************************************************)
(* What the ready file promises whoever reads it: it names a trampoline    *)
(* page that was built to the end, it only ever moves on to a later one,   *)
(* and what is installed from it is such a page.                           *)
(***************************************************************************)
EXTENDS Naturals

CONSTANTS
  Page,     \* trampoline pages, numbered in the order they are allocated
  NoPage    \* nothing has been published

VARIABLES
  built,      \* the pages that are complete
  published,  \* the page the file names
  installed   \* the pages that libusbd's functions were redirected to

vars == <<built, published, installed>>

Init == built = {} /\ published = NoPage /\ installed = {}

Build ==
  /\ \E p \in Page \ built : built' = built \union {p}
  /\ UNCHANGED <<published, installed>>

Publish ==
  /\ \E p \in built :
       /\ published # NoPage => p > published
       /\ published' = p
  /\ UNCHANGED <<built, installed>>

(* What was published may have moved on since it was read.                 *)
Redirect ==
  /\ published # NoPage
  /\ installed' \subseteq installed \union {p \in built : p <= published}
  /\ UNCHANGED <<built, published>>

(* The game ends, and with it what was installed in it.                    *)
Forget == installed' = {} /\ UNCHANGED <<built, published>>

Next == Build \/ Publish \/ Redirect \/ Forget

Spec == Init /\ [][Next]_vars

=============================================================================
