------------------------------ MODULE UsbHooks ------------------------------
(***************************************************************************)
(* The pool of fake USB pipes of sprx-plugin/usb_hooks.c, as the hooks     *)
(* share it.  Two threads call the hooks: the game's USB thread, and the   *)
(* plugin's worker, which fires the game's own attach callback once        *)
(* (main.c).  Nothing locks the pool or the counter next_pipe_id, which    *)
(* numbers pipes and polls alike, so the steps of an open or a transfer    *)
(* that touch shared memory are actions of their own.                      *)
(*                                                                         *)
(* The model starts with the hooks installed.  What a transfer does on the *)
(* network is module Bridge; here it is a use of the counter and a         *)
(* completion callback.  The control transfer and the device descriptor    *)
(* are answered from tables and touch none of this.                        *)
(***************************************************************************)
EXTENDS Integers, FiniteSets

CONSTANTS
  Game, Worker,   \* the two threads; each opens the pipes of one device
  MaxPipes,       \* USB_HOOK_MAX_PIPES
  IdMod,          \* 2^32: the counter is a uint32_t
  FirstId,        \* the counter after usb_hook_init
  Endpoints       \* the endpoints the game opens of each device

EP_IN  == "in"
EP_OUT == "out"
Ep     == {EP_IN, EP_OUT}
NoEp   == "zero"

Thread   == {Game, Worker}
Slot     == 0 .. MaxPipes - 1
Id       == 0 .. IdMod - 1
NoHandle == -1        \* the game has no handle for this endpoint

ASSUME HooksAssumption ==
  /\ Game # Worker
  /\ MaxPipes \in Nat \ {0}
  /\ IdMod \in Nat \ {0, 1}
  /\ FirstId \in Id
  /\ Endpoints \in [Thread -> SUBSET Ep]

VARIABLES
  pipes,       \* the pool
  next,        \* next_pipe_id
  held,        \* held[t][ep]: the handle the game keeps for an endpoint of
               \* the device that was attached in thread t
  stolen,      \* a RegisterLdd hook has seen the game's LddOps
  trigger,     \* the worker's one attach: "armed", "firing", "fired"
  due,         \* a transfer was accepted and its done_cb not yet called
  pc,          \* where each thread is inside a hook
  want,        \* open: the endpoint; transfer: NoEp
  reg,         \* the counter value the thread works on
  at,          \* the slot the thread looks at
  overlapped,  \* history: two threads were inside the hooks at once
  wrapped      \* history: the counter has gone through zero

local == <<pc, want, reg, at>>
vars  == <<pipes, next, held, stolen, trigger, due, local, overlapped, wrapped>>

Free == [used |-> FALSE, handle |-> 0, ep |-> NoEp]   \* after memset

(* A ++ of the counter is a load and a store, "inc" and "put"; "skip" and  *)
(* "skipput" are the second ++ of an open that got zero.                   *)
Pc == {"idle", "inc", "put", "skip", "skipput", "scan", "claim", "label"}

TypeOK ==
  /\ pipes \in [Slot -> [used : BOOLEAN, handle : Id, ep : Ep \union {NoEp}]]
  /\ next \in Id
  /\ held \in [Thread -> [Ep -> Id \union {NoHandle}]]
  /\ stolen \in BOOLEAN
  /\ trigger \in {"armed", "firing", "fired"}
  /\ due \in BOOLEAN
  /\ pc \in [Thread -> Pc]
  /\ want \in [Thread -> Ep \union {NoEp}]
  /\ reg \in [Thread -> Id]
  /\ at \in [Thread -> 0 .. MaxPipes]
  /\ \A t \in Thread : pc[t] \in {"claim", "label"} => at[t] \in Slot
  /\ overlapped \in BOOLEAN /\ wrapped \in BOOLEAN

Init ==
  /\ pipes = [s \in Slot |-> Free]
  /\ next = FirstId
  /\ held = [t \in Thread |-> [ep \in Ep |-> NoHandle]]
  /\ stolen = FALSE /\ trigger = "armed" /\ due = FALSE
  /\ pc = [t \in Thread |-> "idle"]
  /\ want = [t \in Thread |-> NoEp]
  /\ reg = [t \in Thread |-> 0]
  /\ at = [t \in Thread |-> 0]
  /\ overlapped = FALSE /\ wrapped = FALSE

-----------------------------------------------------------------------------
Succ(n) == IF n + 1 = IdMod THEN 0 ELSE n + 1

(* The slots lookup can find: it scans from slot 0.                        *)
Lookup(h) ==
  {s \in Slot : /\ pipes[s].used /\ pipes[s].handle = h
                /\ \A r \in 0 .. s - 1 :
                     ~(pipes[r].used /\ pipes[r].handle = h)}

(* usb_hook_is_toypad_pipe: the endpoint behind a handle, NoEp if none.    *)
EpOf(h) == {pipes[s].ep : s \in Lookup(h)} \intersect Ep

(* History: thread t calls a hook while the other one is inside a call.    *)
Note(t) ==
  overlapped' = IF \E u \in Thread \ {t} : pc[u] # "idle"
                THEN TRUE ELSE overlapped

(* Thread t, which is outside the hooks, calls one that works in steps.    *)
Enter(t, label, ep) ==
  /\ pc[t] = "idle"
  /\ pc' = [pc EXCEPT ![t] = label]
  /\ want' = [want EXCEPT ![t] = ep]
  /\ Note(t)

(* Thread t leaves its hook.                                               *)
Leave(t) ==
  /\ pc' = [pc EXCEPT ![t] = "idle"]
  /\ want' = [want EXCEPT ![t] = NoEp]
  /\ reg' = [reg EXCEPT ![t] = 0]
  /\ at' = [at EXCEPT ![t] = 0]

-----------------------------------------------------------------------------
(* my_cellUsbdReg_*: the first LddOps the game passes is kept for good.    *)
Steal ==
  /\ pc[Game] = "idle"
  /\ ~stolen /\ stolen' = TRUE
  /\ UNCHANGED <<pipes, next, held, trigger, due, local, overlapped, wrapped>>

(* The worker's loop: with LddOps it fires probe and attach, once, unless  *)
(* the callback looks wrong or probe refuses; callbacks outside the EBOOT  *)
(* are looked at again in the next round.                                  *)
Trigger ==
  /\ trigger = "armed" /\ stolen
  /\ trigger' \in {"firing", "fired"}
  /\ UNCHANGED <<pipes, next, held, stolen, due, local, overlapped, wrapped>>

AttachReturns ==
  /\ trigger = "firing" /\ pc[Worker] = "idle"
  /\ trigger' = "fired"
  /\ UNCHANGED <<pipes, next, held, stolen, due, local, overlapped, wrapped>>

(* my_cellUsbdOpenPipe on a pad endpoint: the worker's attach opens the    *)
(* pipes of one device, the game's thread those of another.                *)
OpenPipe(t, ep) ==
  /\ t = Worker => trigger = "firing"
  /\ ep \in Endpoints[t] /\ held[t][ep] = NoHandle
  /\ Enter(t, "inc", ep)
  /\ UNCHANGED <<pipes, next, held, stolen, trigger, due, reg, at, wrapped>>

(* my_cellUsbdInterruptTransfer, called by the game's thread on a pipe of  *)
(* either device.  A handle the pool does not know goes to the real USB    *)
(* stack and changes nothing here.                                         *)
InterruptTransfer(u, ep) ==
  /\ held[u][ep] # NoHandle
  /\ EpOf(held[u][ep]) # {}
  /\ Enter(Game, "inc", NoEp)
  /\ due' = TRUE
  /\ UNCHANGED <<pipes, next, held, stolen, trigger, reg, at, wrapped>>

Load(t) ==
  /\ \/ pc[t] = "inc"  /\ pc' = [pc EXCEPT ![t] = "put"]
     \/ pc[t] = "skip" /\ pc' = [pc EXCEPT ![t] = "skipput"]
  /\ reg' = [reg EXCEPT ![t] = next]
  /\ UNCHANGED <<pipes, next, held, stolen, trigger, due, want, at,
                 overlapped, wrapped>>

Store(t) ==
  /\ pc[t] \in {"put", "skipput"}
  /\ next' = Succ(reg[t])
  /\ wrapped' = IF next' = 0 THEN TRUE ELSE wrapped

(* An open goes on with the new value as its handle; a first zero is       *)
(* skipped, a second is not.                                               *)
StoreHandle(t) ==
  /\ Store(t) /\ want[t] # NoEp
  /\ reg' = [reg EXCEPT ![t] = Succ(reg[t])]
  /\ pc' = [pc EXCEPT ![t] = IF next' = 0 /\ pc[t] = "put"
                             THEN "skip" ELSE "scan"]
  /\ UNCHANGED <<pipes, held, stolen, trigger, due, want, at, overlapped>>

(* Mutant: done_cb only after a counter that did not wrap to zero.         *)
StoreSequenceQuiet(t) ==
  /\ Store(t) /\ want[t] = NoEp
  /\ due' = (next' = 0)
  /\ Leave(t)
  /\ UNCHANGED <<pipes, held, stolen, trigger, overlapped>>

(* A transfer only wanted a sequence number; it exchanges its datagrams,   *)
(* calls done_cb and returns.                                              *)
StoreSequence(t) ==
  /\ Store(t) /\ want[t] = NoEp
  /\ due' = FALSE
  /\ Leave(t)
  /\ UNCHANGED <<pipes, held, stolen, trigger, overlapped>>

(* Mutant: the first slot is taken, in use or not.                         *)
ScanBlind(t) ==
  /\ pc[t] = "scan"
  /\ pc' = [pc EXCEPT ![t] = "claim"]
  /\ UNCHANGED <<want, reg, at>>
  /\ UNCHANGED <<pipes, next, held, stolen, trigger, due, overlapped, wrapped>>

(* Mutant: the search ends one slot early.                                 *)
ScanShort(t) ==
  /\ pc[t] = "scan"
  /\ IF at[t] = MaxPipes - 1
     THEN Leave(t)
     ELSE IF pipes[at[t]].used
     THEN at' = [at EXCEPT ![t] = @ + 1] /\ UNCHANGED <<pc, want, reg>>
     ELSE pc' = [pc EXCEPT ![t] = "claim"] /\ UNCHANGED <<want, reg, at>>
  /\ UNCHANGED <<pipes, next, held, stolen, trigger, due, overlapped, wrapped>>

(* alloc_pipe looks at one slot after the other.                           *)
Scan(t) ==
  /\ pc[t] = "scan"
  /\ IF at[t] = MaxPipes
     THEN Leave(t)                                \* the pool is full
     ELSE IF pipes[at[t]].used
     THEN at' = [at EXCEPT ![t] = @ + 1] /\ UNCHANGED <<pc, want, reg>>
     ELSE pc' = [pc EXCEPT ![t] = "claim"] /\ UNCHANGED <<want, reg, at>>
  /\ UNCHANGED <<pipes, next, held, stolen, trigger, due, overlapped, wrapped>>

(* Mutant: the slot is taken without its new handle.                       *)
ClaimOnly(t) ==
  /\ pc[t] = "claim"
  /\ pipes' = [pipes EXCEPT ![at[t]].used = TRUE]
  /\ pc' = [pc EXCEPT ![t] = "label"]
  /\ UNCHANGED <<next, held, stolen, trigger, due, want, reg, at,
                 overlapped, wrapped>>

Claim(t) ==
  /\ pc[t] = "claim"
  /\ pipes' = [pipes EXCEPT ![at[t]] =
                 [used |-> TRUE, handle |-> reg[t], ep |-> NoEp]]
  /\ pc' = [pc EXCEPT ![t] = "label"]
  /\ UNCHANGED <<next, held, stolen, trigger, due, want, reg, at,
                 overlapped, wrapped>>

(* OpenPipe sets the endpoint and hands out the handle it reads back.      *)
Label(t) ==
  /\ pc[t] = "label"
  /\ pipes' = [pipes EXCEPT ![at[t]] =
                 [used |-> @.used, handle |-> @.handle, ep |-> want[t]]]
  /\ held' = [held EXCEPT ![t][want[t]] = pipes[at[t]].handle]
  /\ Leave(t)
  /\ UNCHANGED <<next, stolen, trigger, due, overlapped, wrapped>>

(* Mutant: closing an OUT pipe does not free its slot.                     *)
CloseIn(u, ep) ==
  /\ pc[Game] = "idle" /\ held[u][ep] # NoHandle
  /\ held' = [held EXCEPT ![u][ep] = NoHandle]
  /\ pipes' = [s \in Slot |->
                IF s \in Lookup(held[u][ep]) /\ pipes[s].ep = EP_IN
                THEN Free ELSE pipes[s]]
  /\ Note(Game)
  /\ UNCHANGED <<next, stolen, trigger, due, local, wrapped>>

(* my_cellUsbdClosePipe, by the game's thread, which forgets the handle.   *)
(* A handle the pool does not know goes to the real USB stack.             *)
ClosePipe(u, ep) ==
  /\ pc[Game] = "idle" /\ held[u][ep] # NoHandle
  /\ held' = [held EXCEPT ![u][ep] = NoHandle]
  /\ pipes' = [s \in Slot |->
                IF s \in Lookup(held[u][ep]) /\ pipes[s].ep \in Ep
                THEN Free ELSE pipes[s]]
  /\ Note(Game)
  /\ UNCHANGED <<next, stolen, trigger, due, local, wrapped>>

-----------------------------------------------------------------------------
Step(t) ==
  Load(t) \/ StoreHandle(t) \/ StoreSequence(t) \/ Scan(t) \/ Claim(t) \/ Label(t)

Next ==
  \/ Steal \/ Trigger \/ AttachReturns
  \/ \E t \in Thread :
       \/ Step(t)
       \/ \E ep \in Ep : OpenPipe(t, ep) \/ InterruptTransfer(t, ep)
                         \/ ClosePipe(t, ep)

Spec == Init /\ [][Next]_vars

(* Both threads are scheduled.                                             *)
FairSpec == Spec /\ \A t \in Thread : WF_vars(Step(t))

-----------------------------------------------------------------------------
(* Properties.                                                             *)

(* As long as calls of the two threads did not overlap and the counter did *)
(* not wrap.  Neither is excluded by the code.                             *)
Calm == ~overlapped /\ ~wrapped

Holds(t, ep, s) ==
  pipes[s] = [used |-> TRUE, handle |-> held[t][ep], ep |-> ep]

(* Every handle the game holds is known to the pool, for the endpoint it   *)
(* was opened for and for no other, so no transfer on it goes to the wrong *)
(* direction or, as a made-up handle, to the real USB stack.               *)
HeldIsTracked ==
  Calm => \A t \in Thread, ep \in Ep :
            held[t][ep] # NoHandle =>
              /\ held[t][ep] # 0
              /\ \E s \in Slot : /\ Holds(t, ep, s)
                                 /\ Lookup(held[t][ep]) = {s}

(* No slot leaks: one in use belongs to a handle the game holds or to an   *)
(* open under way, so a full pool is full of open pipes.                   *)
Accounted ==
  \A s \in Slot : pipes[s].used =>
    \/ \E t \in Thread, ep \in Ep : Holds(t, ep, s)
    \/ \E t \in Thread : pc[t] = "label" /\ at[t] = s

NoSlotLeaks == Calm => Accounted

(* The inductive invariant: TypeOK, and while calm one call at a time that *)
(* works on the current counter value, which no slot in use carries yet,   *)
(* and has passed only slots in use, and a one-to-one match between        *)
(* handles held and slots in use.                                          *)
OneCall == \A t, u \in Thread : pc[t] # "idle" /\ pc[u] # "idle" => t = u

FreshId(t) ==
  /\ pc[t] \notin {"skip", "skipput"}
  /\ pc[t] \in {"put", "scan", "claim"} => reg[t] = next
  /\ pc[t] \in {"scan", "claim"} =>
       next > 0 /\ \A s \in Slot : pipes[s].used => pipes[s].handle < next

OwnSlot(t) ==
  /\ pc[t] \notin {"scan", "claim", "label"} => at[t] = 0
  /\ pc[t] = "scan" => \A s \in Slot : s < at[t] => pipes[s].used
  /\ pc[t] = "claim" => ~pipes[at[t]].used
  /\ pc[t] = "label" =>
       pipes[at[t]] = [used |-> TRUE, handle |-> next, ep |-> NoEp]
  /\ pc[t] \in {"scan", "claim", "label"} => want[t] \in Ep
  /\ want[t] \in Ep => held[t][want[t]] = NoHandle

Distinct ==
  /\ \A s \in Slot : pipes[s].used =>
       0 < pipes[s].handle /\ pipes[s].handle <= next
  /\ \A r, s \in Slot : pipes[r].used /\ pipes[s].used
       /\ pipes[r].handle = pipes[s].handle => r = s

Matched ==
  /\ \A t \in Thread, ep \in Ep :
       held[t][ep] # NoHandle => \E s \in Slot : Holds(t, ep, s)
  /\ \A t, u \in Thread, ep \in Ep :
       held[t][ep] # NoHandle /\ held[t][ep] = held[u][ep] => t = u

Exact ==
  /\ OneCall /\ Distinct /\ Matched /\ Accounted
  /\ \A t \in Thread : FreshId(t) /\ OwnSlot(t)

IInv == TypeOK /\ (Calm => Exact)

(* The pool as PipeTable sees it.                                          *)
HandlesOut ==
  {p \in [of : Thread, ep : Ep, handle : Id] : held[p.of][p.ep] = p.handle}

Drawn == \E t \in Thread : pc[t] \in {"scan", "claim", "label"}

Pipes == INSTANCE PipeTable WITH
           Owner <- Thread, Ep <- Ep, Limit <- MaxPipes, First <- FirstId,
           open <- HandlesOut, last <- next, drawn <- Drawn

(* As long as calls do not overlap and the counter does not wrap, the pool *)
(* is a table of pipes: a handle is never given out twice, not even after  *)
(* a close, and an open fails only when the game holds as many handles as  *)
(* the pool has slots, however the scans, claims and closes were mixed.    *)
IsAPipeTable == Pipes!Init /\ [][Calm' => [Pipes!Next]_(Pipes!vars)]_vars

(* "If we don't call done_cb, the game's USB thread sleeps forever"        *)
(* (usb_hooks.c:722): an interrupt transfer that is accepted completes,    *)
(* whatever the worker does to the pool and the counter meanwhile.         *)
InterruptsComplete == due ~> ~due

=============================================================================
