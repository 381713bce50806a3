--------------------------- MODULE UsbHooks_proofs ---------------------------
(***************************************************************************)
(* Proofs about UsbHooks, for every pool size, counter width and first     *)
(* handle, and for either device opening any of its endpoints.             *)
(***************************************************************************)
EXTENDS UsbHooks, FiniteSetTheorems, TLAPS

(* The counter stays within its width.                                     *)
LEMMA SuccType ==
  ASSUME NEW n \in Id
  PROVE  /\ Succ(n) \in Id
         /\ Succ(n) # 0 => Succ(n) = n + 1
<1>1. IdMod \in Int /\ IdMod > 1
  BY HooksAssumption
<1>2. n \in Int /\ 0 <= n /\ n <= IdMod - 1
  BY <1>1 DEF Id
<1>3. CASE n + 1 = IdMod
  BY <1>1, <1>2, <1>3 DEF Succ, Id
<1>4. CASE n + 1 # IdMod
  BY <1>1, <1>2, <1>4 DEF Succ, Id
<1>5. QED  BY <1>3, <1>4

(* The initial values of counter and cursors.                              *)
LEMMA Zeroes == 0 \in Id /\ 0 \in 0 .. MaxPipes /\ FirstId \in Id
BY HooksAssumption DEF Id

(* Type correctness: handles and slot numbers stay in their ranges through *)
(* every interleaving of the two threads, overlapping calls included.      *)
THEOREM TypeCorrect == Spec => []TypeOK
<1>1. Init => TypeOK
  <2> SUFFICES ASSUME Init PROVE TypeOK
    OBVIOUS
  <2>1. Free \in [used : BOOLEAN, handle : Id, ep : Ep \union {NoEp}]
    BY Zeroes DEF Free
  <2>2. pipes \in [Slot -> [used : BOOLEAN, handle : Id, ep : Ep \union {NoEp}]]
    BY <2>1 DEF Init
  <2>3. held \in [Thread -> [Ep -> Id \union {NoHandle}]]
    BY DEF Init
  <2>4. QED  BY <2>2, <2>3, Zeroes DEF Init, TypeOK, Pc
<1>2. TypeOK /\ [Next]_vars => TypeOK'
  <2> SUFFICES ASSUME TypeOK, [Next]_vars PROVE TypeOK'
    OBVIOUS
  <2> USE DEF TypeOK, Ep, Pc
  <2>1. CASE Steal \/ Trigger \/ AttachReturns
    BY <2>1 DEF Steal, Trigger, AttachReturns, local
  <2>2. ASSUME NEW t \in Thread, NEW ep \in Ep, OpenPipe(t, ep) PROVE TypeOK'
    BY <2>2 DEF OpenPipe, Enter, Note
  <2>3. ASSUME NEW t \in Thread, NEW ep \in Ep, InterruptTransfer(t, ep)
        PROVE TypeOK'
    BY <2>3 DEF InterruptTransfer, Enter, Note, Thread
  <2>4. ASSUME NEW t \in Thread, NEW ep \in Ep, ClosePipe(t, ep)
        PROVE TypeOK'
    <3>1. Free \in [used : BOOLEAN, handle : Id, ep : Ep \union {NoEp}]
      BY Zeroes DEF Free
    <3>2. pipes' \in [Slot -> [used : BOOLEAN, handle : Id,
                               ep : Ep \union {NoEp}]]
      BY <2>4, <3>1 DEF ClosePipe
    <3>3. QED  BY <2>4, <3>2 DEF ClosePipe, Note, local
  <2>6. ASSUME NEW t \in Thread, Load(t) PROVE TypeOK'
    BY <2>6 DEF Load
  <2>7. ASSUME NEW t \in Thread, StoreHandle(t) PROVE TypeOK'
    <3>1. reg[t] \in Id /\ Succ(reg[t]) \in Id
      BY SuccType
    <3>2. QED  BY <2>7, <3>1 DEF StoreHandle, Store
  <2>8. ASSUME NEW t \in Thread, StoreSequence(t) PROVE TypeOK'
    <3>1. reg[t] \in Id /\ Succ(reg[t]) \in Id
      BY SuccType
    <3>2. QED  BY <2>8, <3>1, Zeroes DEF StoreSequence, Store, Leave
  <2>9. ASSUME NEW t \in Thread, Scan(t) PROVE TypeOK'
    <3>2. at[t] # MaxPipes => at[t] + 1 \in 0 .. MaxPipes /\ at[t] \in Slot
      BY HooksAssumption DEF Slot
    <3>3. CASE at[t] = MaxPipes
      <4>1. Leave(t) /\ UNCHANGED <<pipes, next, held, stolen, trigger, due,
                                    overlapped, wrapped>>
        BY <2>9, <3>3 DEF Scan
      <4>2. QED  BY <4>1, Zeroes DEF Leave
    <3>4. CASE at[t] # MaxPipes /\ pipes[at[t]].used
      <4>1. /\ at' = [at EXCEPT ![t] = at[t] + 1]
            /\ UNCHANGED <<pc, want, reg, pipes, next, held, stolen, trigger,
                           due, overlapped, wrapped>>
        BY <2>9, <3>4 DEF Scan
      <4>2. at' \in [Thread -> 0 .. MaxPipes]
        BY <3>2, <3>4, <4>1
      <4>3. pc[t] \notin {"claim", "label"}
        BY <2>9 DEF Scan
      <4>4. \A u \in Thread : pc'[u] \in {"claim", "label"} => at'[u] \in Slot
        BY <4>1, <4>3
      <4>5. QED  BY <4>1, <4>2, <4>4
    <3>5. CASE at[t] # MaxPipes /\ ~pipes[at[t]].used
      BY <2>9, <3>2, <3>5 DEF Scan
    <3>6. QED  BY <3>3, <3>4, <3>5
  <2>10. ASSUME NEW t \in Thread, Claim(t) PROVE TypeOK'
    BY <2>10 DEF Claim
  <2>11. ASSUME NEW t \in Thread, Label(t) PROVE TypeOK'
    <3>2. pipes[at[t]].handle \in Id
      BY <2>11 DEF Label
    <3>3. held' \in [Thread -> [Ep -> Id \union {NoHandle}]]
      BY <2>11, <3>2 DEF Label
    <3>4. QED  BY <2>11, Zeroes, <3>3 DEF Label, Leave
  <2>12. CASE UNCHANGED vars
    BY <2>12 DEF vars, local
  <2>13. QED
    BY <2>1, <2>2, <2>3, <2>4, <2>6, <2>7, <2>8, <2>9, <2>10, <2>11,
       <2>12 DEF Next, Step
<1>3. QED  BY <1>1, <1>2, PTL DEF Spec


-----------------------------------------------------------------------------
(* The pool is exact while calls do not overlap and the counter does not   *)
(* wrap.                                                                   *)

(* The histories never go back.                                            *)
LEMMA CalmBefore ==
  ASSUME [Next]_vars, Calm'
  PROVE  Calm
<1>1. CASE Steal \/ Trigger \/ AttachReturns \/ UNCHANGED vars
  BY <1>1 DEF Calm, Steal, Trigger, AttachReturns, vars, local
<1>2. ASSUME NEW t \in Thread, Step(t) PROVE Calm
  <2>1. overlapped' = overlapped
    BY <1>2 DEF Step, Load, StoreHandle, StoreSequence, Store, Scan, Claim, Label
  <2>2. wrapped' = wrapped \/ wrapped' = TRUE
    BY <1>2 DEF Step, Load, StoreHandle, StoreSequence, Store, Scan, Claim, Label
  <2>3. QED  BY <2>1, <2>2 DEF Calm
<1>3. ASSUME NEW t \in Thread, NEW ep \in Ep,
             OpenPipe(t, ep) \/ InterruptTransfer(t, ep) \/ ClosePipe(t, ep)
      PROVE Calm
  <2>1. wrapped' = wrapped
    BY <1>3 DEF OpenPipe, InterruptTransfer, ClosePipe
  <2>2. overlapped' = overlapped \/ overlapped' = TRUE
    BY <1>3 DEF OpenPipe, InterruptTransfer, ClosePipe, Enter, Note
  <2>3. QED  BY <2>1, <2>2 DEF Calm
<1>4. QED  BY <1>1, <1>2, <1>3 DEF Next

(* The match between handles and slots stands when neither changes and an  *)
(* open about to hand out its handle stays where it is.                    *)
LEMMA SamePool ==
  ASSUME Matched, Accounted, UNCHANGED <<pipes, held>>,
         \A u \in Thread : pc[u] = "label" => pc'[u] = "label" /\ at'[u] = at[u]
  PROVE  Matched' /\ Accounted'
<1>1. \A u \in Thread, ep \in Ep, s \in Slot : Holds(u, ep, s)' <=> Holds(u, ep, s)
  BY DEF Holds
<1>2. pipes' = pipes /\ held' = held
  OBVIOUS
<1>3. Matched'
  BY <1>1, <1>2 DEF Matched
<1>4. Accounted'
  BY <1>1, <1>2 DEF Accounted
<1>5. QED  BY <1>3, <1>4

(* The steps of an open and of a transfer, one lemma each.  A load only    *)
(* copies the counter.                                                     *)
LEMMA LoadExact ==
  ASSUME TypeOK, Exact, NEW t \in Thread, Load(t)
  PROVE  Exact'
<1> USE DEF TypeOK, Ep, Pc
<1>1. FreshId(t) /\ OwnSlot(t)
  BY DEF Exact
<1>2. pc[t] = "inc" /\ pc' = [pc EXCEPT ![t] = "put"]
  BY <1>1 DEF Load, FreshId
<1>3. \A u \in Thread : u # t => pc[u] = "idle"
  BY <1>2 DEF Exact, OneCall
<1>4. OneCall'
  BY <1>2, <1>3 DEF OneCall
<1>5. Distinct'
  BY DEF Exact, Load, Distinct
<1>6. Matched' /\ Accounted'
  BY <1>2, <1>3, SamePool DEF Exact, Load
<1>7. ASSUME NEW u \in Thread PROVE FreshId(u)' /\ OwnSlot(u)'
  BY <1>2, <1>3 DEF Exact, Load, FreshId, OwnSlot
<1>8. QED  BY <1>4, <1>5, <1>6, <1>7 DEF Exact

(* A store takes the counter past every handle given out.                  *)
LEMMA StoreExact ==
  ASSUME TypeOK, Exact, NEW t \in Thread, ~wrapped',
         StoreHandle(t) \/ StoreSequence(t)
  PROVE  Exact'
<1> USE DEF TypeOK, Ep, Pc
<1>1. FreshId(t) /\ OwnSlot(t)
  BY DEF Exact
<1>2. pc[t] = "put" /\ reg[t] = next
  BY <1>1 DEF StoreHandle, StoreSequence, Store, FreshId
<1>3. next' = next + 1 /\ Succ(reg[t]) = next'
  BY <1>2, SuccType DEF StoreHandle, StoreSequence, Store
<1>4. next \in Int /\ 0 <= next /\ \A s \in Slot : pipes[s].handle \in Int
  BY HooksAssumption DEF Id
<1>5. \A u \in Thread : u # t => pc[u] = "idle" /\ pc'[u] = pc[u]
                                 /\ want'[u] = want[u] /\ at'[u] = at[u]
  BY <1>2 DEF Exact, OneCall, StoreHandle, StoreSequence, Leave
<1>6. UNCHANGED <<pipes, held>>
  BY DEF StoreHandle, StoreSequence
<1>7. pc'[t] \in {"scan", "idle"} /\ at'[t] = 0
      /\ (pc'[t] = "scan" => want'[t] \in Ep /\ reg'[t] = next')
      /\ (want'[t] \in Ep => want'[t] = want[t])
  <2>1. CASE StoreHandle(t)
    <3>1. want' = want /\ want[t] \in Ep /\ reg'[t] = next'
      BY <2>1, <1>3 DEF StoreHandle
    <3>2. next' # 0
      BY <1>3, <1>4
    <3>3. pc'[t] = "scan" /\ at'[t] = 0
      BY <2>1, <3>2, <1>1, <1>2 DEF StoreHandle, OwnSlot
    <3>4. QED  BY <3>1, <3>3
  <2>2. CASE StoreSequence(t)
    <3>1. pc'[t] = "idle" /\ want'[t] = NoEp /\ at'[t] = 0
      BY <2>2 DEF StoreSequence, Leave
    <3>2. QED  BY <3>1 DEF NoEp, EP_IN, EP_OUT
  <2>3. QED  BY <2>1, <2>2
<1>8. OneCall'
  BY <1>5 DEF OneCall
<1>9. Distinct'
  BY <1>3, <1>4, <1>6 DEF Exact, Distinct
<1>10. Matched' /\ Accounted'
  BY <1>2, <1>5, <1>6, SamePool DEF Exact
<1>11. ASSUME NEW u \in Thread PROVE FreshId(u)' /\ OwnSlot(u)'
  <2>1. CASE u = t
    <3>1. \A s \in Slot : pipes[s].used => pipes[s].handle < next'
      BY <1>3, <1>4 DEF Exact, Distinct
    <3>2. FreshId(t)'
      BY <3>1, <1>3, <1>4, <1>6, <1>7 DEF FreshId
    <3>3. OwnSlot(t)'
      <4>1. \A s \in Slot : ~(s < 0)
        BY HooksAssumption DEF Slot
      <4>2. QED  BY <4>1, <1>1, <1>6, <1>7 DEF OwnSlot
    <3>4. QED  BY <3>2, <3>3, <2>1
  <2>2. CASE u # t
    BY <2>2, <1>5, <1>6 DEF FreshId, OwnSlot, Exact
  <2>3. QED  BY <2>1, <2>2
<1>12. QED  BY <1>8, <1>9, <1>10, <1>11 DEF Exact

(* A hook that begins while all threads are outside.                       *)
LEMMA EnterExact ==
  ASSUME TypeOK, Exact, NEW t \in Thread, NEW ep \in Ep \union {NoEp},
         Enter(t, "inc", ep), ~overlapped', UNCHANGED <<pipes, next, held, reg, at>>,
         ep \in Ep => held[t][ep] = NoHandle
  PROVE  Exact'
<1> USE DEF TypeOK
<1>1. \A u \in Thread : pc[u] = "idle"
  <2>1. pc[t] = "idle"
    BY DEF Enter
  <2>2. ~ \E u \in Thread \ {t} : pc[u] # "idle"
    BY DEF Enter, Note
  <2>3. QED  BY <2>1, <2>2
<1>2. \A u \in Thread : pc'[u] = IF u = t THEN "inc" ELSE "idle"
  BY <1>1 DEF Enter
<1>3. \A u \in Thread : want'[u] = IF u = t THEN ep ELSE want[u]
  BY DEF Enter
<1>4. OneCall'
  BY <1>2 DEF OneCall
<1>5. Distinct'
  BY DEF Exact, Distinct
<1>6. Matched' /\ Accounted'
  BY <1>1, SamePool DEF Exact
<1>7. ASSUME NEW u \in Thread PROVE FreshId(u)' /\ OwnSlot(u)'
  <2>1. FreshId(u)'
    BY <1>2 DEF FreshId
  <2>2. OwnSlot(u)'
    <3>1. want'[u] \in Ep => held[u][want'[u]] = NoHandle
      BY <1>3 DEF Exact, OwnSlot
    <3>2. at'[u] = 0
      BY <1>1 DEF Exact, OwnSlot
    <3>3. QED  BY <1>2, <3>1, <3>2 DEF OwnSlot
  <2>3. QED  BY <2>1, <2>2
<1>8. QED  BY <1>4, <1>5, <1>6, <1>7 DEF Exact

(* The scan stops at a free slot, or gives up.                             *)
LEMMA ScanExact ==
  ASSUME TypeOK, Exact, NEW t \in Thread, Scan(t)
  PROVE  Exact'
<1> USE DEF TypeOK
<1>1. pc[t] = "scan" /\ UNCHANGED <<pipes, next, held>>
  BY DEF Scan
<1>2. \A u \in Thread : u # t => /\ pc[u] = "idle" /\ pc'[u] = "idle"
                                 /\ want'[u] = want[u] /\ at'[u] = at[u]
  BY <1>1 DEF Exact, OneCall, Scan, Leave
<1>3. FreshId(t) /\ OwnSlot(t)
  BY DEF Exact
<1>4. \/ pc'[t] = "idle" /\ want'[t] = NoEp /\ at'[t] = 0
      \/ /\ pc'[t] = "scan" /\ want'[t] = want[t] /\ reg'[t] = reg[t]
         /\ at'[t] = at[t] + 1 /\ pipes[at[t]].used
      \/ /\ pc'[t] = "claim" /\ want'[t] = want[t] /\ reg'[t] = reg[t]
         /\ at'[t] = at[t] /\ ~pipes[at[t]].used
  <2>1. CASE at[t] = MaxPipes
    BY <2>1 DEF Scan, Leave
  <2>2. CASE at[t] # MaxPipes /\ pipes[at[t]].used
    BY <1>1, <2>2 DEF Scan
  <2>3. CASE at[t] # MaxPipes /\ ~pipes[at[t]].used
    BY <1>1, <2>3 DEF Scan
  <2>4. QED  BY <2>1, <2>2, <2>3
<1>5. OneCall'
  BY <1>2 DEF OneCall
<1>6. Distinct'
  BY <1>1 DEF Exact, Distinct
<1>7. Matched' /\ Accounted'
  BY <1>1, <1>2, SamePool DEF Exact
<1>8. ASSUME NEW u \in Thread PROVE FreshId(u)' /\ OwnSlot(u)'
  <2>1. CASE u = t
    <3>1. FreshId(t)'
      BY <1>1, <1>3, <1>4 DEF FreshId
    <3>2. ASSUME pc'[t] = "scan", NEW s \in Slot, s < at'[t]
          PROVE  pipes[s].used
      <4>1. at[t] \in Int /\ s \in Int
        BY HooksAssumption DEF Slot
      <4>2. at'[t] = at[t] + 1
        BY <1>4, <3>2
      <4>3. s < at[t] \/ s = at[t]
        <5> DEFINE n == at[t]
        <5>1. n \in Int /\ s \in Int /\ s < n + 1
          BY <3>2, <4>1, <4>2
        <5> HIDE DEF n
        <5>2. s < n \/ s = n
          BY <5>1
        <5>3. QED  BY <5>2 DEF n
      <4>4. pipes[at[t]].used
        BY <1>4, <3>2
      <4>5. s < at[t] => pipes[s].used
        BY <1>1, <1>3 DEF OwnSlot
      <4>6. QED  BY <4>3, <4>4, <4>5
    <3>3. OwnSlot(t)'
      BY <1>1, <1>3, <1>4, <3>2 DEF OwnSlot, NoEp, Ep, EP_IN, EP_OUT
    <3>4. QED  BY <2>1, <3>1, <3>3
  <2>2. CASE u # t
    BY <1>1, <1>2, <2>2 DEF FreshId, OwnSlot, Exact
  <2>3. QED  BY <2>1, <2>2
<1>9. QED  BY <1>5, <1>6, <1>7, <1>8 DEF Exact

(* A claimed slot carries a fresh handle that nobody holds yet.            *)
LEMMA ClaimExact ==
  ASSUME TypeOK, Exact, NEW t \in Thread, Claim(t)
  PROVE  Exact'
<1> USE DEF TypeOK
<1>1. /\ pc[t] = "claim" /\ pc'[t] = "label"
      /\ UNCHANGED <<next, held, want, reg, at>>
  BY DEF Claim
<1>2. \A u \in Thread : u # t => pc[u] = "idle" /\ pc'[u] = "idle"
  BY <1>1 DEF Exact, OneCall, Claim
<1>3. FreshId(t) /\ OwnSlot(t)
  BY DEF Exact
<1>4. /\ at[t] \in Slot /\ ~pipes[at[t]].used /\ reg[t] = next /\ next > 0
      /\ want[t] \in Ep /\ held[t][want[t]] = NoHandle
      /\ \A s \in Slot : pipes[s].used => pipes[s].handle < next
  BY <1>1, <1>3 DEF FreshId, OwnSlot
<1>5. /\ pipes'[at[t]] = [used |-> TRUE, handle |-> next, ep |-> NoEp]
      /\ \A s \in Slot : s # at[t] => pipes'[s] = pipes[s]
  BY <1>4 DEF Claim
<1>6. next \in Int /\ \A s \in Slot : pipes[s].handle \in Int
  BY HooksAssumption DEF Id
<1>7. OneCall'
  BY <1>2 DEF OneCall
<1>8. Distinct'
  <2>1. \A s \in Slot : pipes'[s].used =>
          \/ s = at[t] /\ pipes'[s].handle = next
          \/ /\ s # at[t] /\ pipes[s].used
             /\ pipes'[s].handle = pipes[s].handle /\ pipes[s].handle < next
    BY <1>4, <1>5
  <2>2. Distinct
    BY DEF Exact
  <2>3. \A s \in Slot : pipes'[s].used =>
          0 < pipes'[s].handle /\ pipes'[s].handle <= next
    <3>1. \A s \in Slot : pipes[s].used => 0 < pipes[s].handle
      BY <2>2 DEF Distinct
    <3>2. QED  BY <2>1, <3>1, <1>4, <1>6
  <2>4. ASSUME NEW r \in Slot, NEW s \in Slot, pipes'[r].used, pipes'[s].used,
               pipes'[r].handle = pipes'[s].handle
        PROVE  r = s
    <3>1. CASE r = at[t] \/ s = at[t]
      BY <2>1, <2>4, <3>1, <1>6
    <3>2. CASE r # at[t] /\ s # at[t]
      <4>1. /\ pipes[r].used /\ pipes[s].used
            /\ pipes[r].handle = pipes[s].handle
        BY <2>4, <3>2, <1>5
      <4>2. QED  BY <4>1, <2>2 DEF Distinct
    <3>3. QED  BY <3>1, <3>2
  <2>5. QED  BY <2>3, <2>4, <1>1 DEF Distinct
<1>9. \A u \in Thread, ep \in Ep, s \in Slot :
        Holds(u, ep, s) => s # at[t] /\ Holds(u, ep, s)'
  <2> TAKE u \in Thread, ep \in Ep, s \in Slot
  <2>1. Holds(u, ep, s) => pipes[s].used
    BY DEF Holds
  <2>2. QED  BY <2>1, <1>1, <1>4, <1>5 DEF Holds
<1>10. Matched'
  <2>1. held' = held /\ Matched
    BY <1>1 DEF Exact
  <2>2. QED  BY <2>1, <1>9 DEF Matched
<1>11. Accounted'
  <2>1. ASSUME NEW s \in Slot, s # at[t], pipes'[s].used
        PROVE  \E u \in Thread, ep \in Ep : Holds(u, ep, s)'
    <3>1. pipes[s].used
      BY <2>1, <1>5
    <3>2. \E u \in Thread, ep \in Ep : Holds(u, ep, s)
      BY <3>1, <1>1, <1>2 DEF Exact, Accounted
    <3>3. QED  BY <3>2, <1>9
  <2>2. QED  BY <2>1, <1>1 DEF Accounted
<1>12. ASSUME NEW u \in Thread PROVE FreshId(u)' /\ OwnSlot(u)'
  <2>1. CASE u = t
    BY <2>1, <1>1, <1>4, <1>5 DEF FreshId, OwnSlot
  <2>2. CASE u # t
    BY <1>1, <1>2, <2>2 DEF FreshId, OwnSlot, Exact
  <2>3. QED  BY <2>1, <2>2
<1>13. QED  BY <1>7, <1>8, <1>10, <1>11, <1>12 DEF Exact

(* The labelled slot and the handle handed out match each other.           *)
LEMMA LabelExact ==
  ASSUME TypeOK, Exact, NEW t \in Thread, Label(t)
  PROVE  Exact'
<1> USE DEF TypeOK
<1>1. pc[t] = "label" /\ pc'[t] = "idle" /\ want'[t] = NoEp /\ next' = next
  BY DEF Label, Leave
<1>2. \A u \in Thread : u # t => /\ pc[u] = "idle" /\ pc'[u] = "idle"
                                 /\ want'[u] = want[u] /\ at'[u] = at[u]
  BY <1>1 DEF Exact, OneCall, Label, Leave
<1>3. /\ at[t] \in Slot /\ pipes[at[t]].used /\ pipes[at[t]].ep = NoEp
      /\ want[t] \in Ep /\ held[t][want[t]] = NoHandle /\ at'[t] = 0
  BY <1>1 DEF Exact, OwnSlot, Label, Leave
<1>4. PICK h \in Id : h = pipes[at[t]].handle
  BY <1>3
<1>5. /\ pipes'[at[t]] = [used |-> TRUE, handle |-> h, ep |-> want[t]]
      /\ \A s \in Slot : s # at[t] => pipes'[s] = pipes[s]
  <2>1. pipes[at[t]].used = TRUE
    BY <1>3
  <2>2. QED  BY <1>3, <1>4, <2>1 DEF Label
<1>6. /\ held'[t][want[t]] = h
      /\ \A u \in Thread, ep \in Ep :
           ~(u = t /\ ep = want[t]) => held'[u][ep] = held[u][ep]
  BY <1>3, <1>4 DEF Label
<1>7. h # NoHandle /\ \A s \in Slot : pipes[s].handle # NoHandle
  BY HooksAssumption DEF Id, NoHandle
<1>8. NoEp \notin Ep
  BY DEF NoEp, Ep, EP_IN, EP_OUT
<1>9. \A u \in Thread, ep \in Ep, s \in Slot : Holds(u, ep, s) =>
        /\ pipes[s].used /\ pipes[s].handle = held[u][ep] /\ pipes[s].ep = ep
  BY DEF Holds
<1>10. \A u \in Thread, ep \in Ep, s \in Slot :
         Holds(u, ep, s) =>
           /\ s # at[t] /\ ~(u = t /\ ep = want[t])
           /\ Holds(u, ep, s)'
  <2> SUFFICES ASSUME NEW u \in Thread, NEW ep \in Ep, NEW s \in Slot,
                      Holds(u, ep, s)
               PROVE  /\ s # at[t] /\ ~(u = t /\ ep = want[t])
                      /\ Holds(u, ep, s)'
    OBVIOUS
  <2>1. s # at[t]
    BY <1>3, <1>8, <1>9
  <2>2. ~(u = t /\ ep = want[t])
    BY <1>3, <1>7, <1>9
  <2>3. Holds(u, ep, s)'
    BY <2>1, <2>2, <1>5, <1>6 DEF Holds
  <2>4. QED  BY <2>1, <2>2, <2>3
<1>11. \A ep \in Ep, s \in Slot :
         ep = want[t] /\ s = at[t] => Holds(t, ep, s)'
  BY <1>5, <1>6 DEF Holds
<1>12. OneCall'
  BY <1>1, <1>2 DEF OneCall
<1>13. Distinct'
  <2>1. \A s \in Slot : /\ pipes'[s].used => pipes[s].used
                         /\ pipes'[s].handle = pipes[s].handle
    <3> TAKE s \in Slot
    <3>1. CASE s = at[t]
      BY <3>1, <1>3, <1>4, <1>5
    <3>2. CASE s # at[t]
      BY <3>2, <1>5
    <3>3. QED  BY <3>1, <3>2
  <2>2. Distinct
    BY DEF Exact
  <2>3. QED  BY <2>1, <2>2, <1>1 DEF Distinct
<1>14. Matched'
  <2>1. ASSUME NEW u \in Thread, NEW ep \in Ep, held'[u][ep] # NoHandle
        PROVE  \E s \in Slot : Holds(u, ep, s)'
    <3>1. CASE u = t /\ ep = want[t]
      BY <3>1, <1>3, <1>11
    <3>2. CASE ~(u = t /\ ep = want[t])
      <4>1. \E s \in Slot : Holds(u, ep, s)
        BY <2>1, <3>2, <1>6 DEF Exact, Matched
      <4>2. QED  BY <4>1, <1>10
    <3>3. QED  BY <3>1, <3>2
  <2>2. ASSUME NEW u \in Thread, NEW v \in Thread, NEW ep \in Ep, u # v,
               held'[u][ep] # NoHandle, held'[u][ep] = held'[v][ep]
        PROVE  FALSE
    <3>1. ASSUME NEW w \in Thread, w # t, held[w][want[t]] = h PROVE FALSE
      <4>1. PICK s \in Slot : Holds(w, want[t], s)
        BY <3>1, <1>3, <1>7 DEF Exact, Matched
      <4>2. pipes[s].used /\ pipes[s].handle = h /\ s # at[t]
        BY <4>1, <3>1, <1>3, <1>9, <1>10
      <4>3. QED  BY <4>2, <1>3, <1>4 DEF Exact, Distinct
    <3>2. CASE ep = want[t] /\ u = t
      BY <2>2, <3>1, <3>2, <1>6
    <3>3. CASE ep = want[t] /\ v = t
      BY <2>2, <3>1, <3>3, <1>6
    <3>4. CASE ~(ep = want[t] /\ u = t) /\ ~(ep = want[t] /\ v = t)
      BY <2>2, <3>4, <1>6 DEF Exact, Matched
    <3>5. QED  BY <3>2, <3>3, <3>4
  <2>3. QED  BY <2>1, <2>2 DEF Matched
<1>15. Accounted'
  <2> SUFFICES ASSUME NEW s \in Slot, pipes'[s].used
               PROVE  \E u \in Thread, ep \in Ep : Holds(u, ep, s)'
    BY DEF Accounted
  <2>1. CASE s = at[t]
    BY <2>1, <1>3, <1>11
  <2>2. CASE s # at[t]
    <3>1. \E u \in Thread, ep \in Ep : Holds(u, ep, s)
      <4>1. Accounted /\ pipes[s].used
        BY <2>2, <1>5 DEF Exact
      <4>2. \A u \in Thread : ~(pc[u] = "label" /\ at[u] = s)
        BY <2>2, <1>2
      <4>3. QED  BY <4>1, <4>2 DEF Accounted
    <3>2. QED  BY <3>1, <1>10
  <2>3. QED  BY <2>1, <2>2
<1>16. ASSUME NEW u \in Thread PROVE FreshId(u)' /\ OwnSlot(u)'
  <2>1. FreshId(u)'
    BY <1>1, <1>2 DEF FreshId
  <2>2. OwnSlot(u)'
    <3>1. ASSUME want'[u] \in Ep PROVE held'[u][want'[u]] = NoHandle
      BY <3>1, <1>1, <1>2, <1>6, <1>8 DEF Exact, OwnSlot
    <3>2. at'[u] = 0
      BY <1>2, <1>3 DEF Exact, OwnSlot
    <3>3. QED  BY <3>1, <3>2, <1>1, <1>2 DEF OwnSlot
  <2>3. QED  BY <2>1, <2>2
<1>17. QED  BY <1>12, <1>13, <1>14, <1>15, <1>16 DEF Exact

(* A close frees the slot behind its handle and no other.                  *)
LEMMA CloseExact ==
  ASSUME TypeOK, Exact, NEW u \in Thread, NEW ep \in Ep, ClosePipe(u, ep),
         ~overlapped'
  PROVE  Exact'
<1> USE DEF TypeOK
<1>1. \A t \in Thread : pc[t] = "idle"
  BY DEF ClosePipe, Note
<1>2. UNCHANGED <<next, pc, want, reg, at>>
  BY DEF ClosePipe, local
<1>3. PICK r \in Slot : Holds(u, ep, r)
  BY DEF ClosePipe, Exact, Matched
<1>4. pipes[r].used /\ pipes[r].handle = held[u][ep] /\ pipes[r].ep = ep
  BY <1>3 DEF Holds
<1>5. \A s \in Slot : pipes[s].used /\ pipes[s].handle = held[u][ep] => s = r
  BY <1>4 DEF Exact, Distinct
<1>6. Lookup(held[u][ep]) = {r}
  <2>1. \A q \in 0 .. r - 1 : q \in Slot /\ q # r
    BY HooksAssumption DEF Slot
  <2>2. r \in Lookup(held[u][ep])
    BY <1>4, <1>5, <2>1 DEF Lookup
  <2>3. QED  BY <1>5, <2>2 DEF Lookup
<1>7. /\ pipes'[r] = Free
      /\ \A s \in Slot : s # r => pipes'[s] = pipes[s]
  BY <1>4, <1>6 DEF ClosePipe
<1>8. /\ held'[u][ep] = NoHandle
      /\ \A t \in Thread, fp \in Ep :
           ~(t = u /\ fp = ep) => held'[t][fp] = held[t][fp]
  BY DEF ClosePipe
<1>9. ~pipes'[r].used
  BY <1>7 DEF Free
<1>10. \A t \in Thread, fp \in Ep, s \in Slot :
         Holds(t, fp, s) /\ ~(t = u /\ fp = ep) => s # r /\ Holds(t, fp, s)'
  <2> SUFFICES ASSUME NEW t \in Thread, NEW fp \in Ep, NEW s \in Slot,
                      Holds(t, fp, s), ~(t = u /\ fp = ep)
               PROVE  s # r /\ Holds(t, fp, s)'
    OBVIOUS
  <2>1. pipes[s].handle = held[t][fp] /\ pipes[s].ep = fp
    BY DEF Holds
  <2>2. s # r
    <3> SUFFICES ASSUME s = r PROVE FALSE
      OBVIOUS
    <3>1. fp = ep /\ held[t][ep] = held[u][ep]
      BY <2>1, <1>4
    <3>2. held[u][ep] # NoHandle
      BY DEF ClosePipe
    <3>3. QED  BY <3>1, <3>2 DEF Exact, Matched
  <2>3. pipes'[s] = pipes[s] /\ held'[t][fp] = held[t][fp]
    BY <2>2, <1>7, <1>8
  <2>4. QED  BY <2>2, <2>3 DEF Holds
<1>11. OneCall'
  BY <1>1, <1>2 DEF OneCall
<1>12. Distinct'
  <2>1. \A s \in Slot : pipes'[s].used => pipes'[s] = pipes[s]
    BY <1>7, <1>9
  <2>2. Distinct
    BY DEF Exact
  <2>3. QED  BY <2>1, <2>2, <1>2 DEF Distinct
<1>13. Matched'
  <2>1. ASSUME NEW t \in Thread, NEW fp \in Ep, held'[t][fp] # NoHandle
        PROVE  \E s \in Slot : Holds(t, fp, s)'
    <3>1. ~(t = u /\ fp = ep) /\ held[t][fp] # NoHandle
      BY <2>1, <1>8
    <3>2. \E s \in Slot : Holds(t, fp, s)
      BY <3>1 DEF Exact, Matched
    <3>3. QED  BY <3>1, <3>2, <1>10
  <2>2. ASSUME NEW t \in Thread, NEW v \in Thread, NEW fp \in Ep,
               held'[t][fp] # NoHandle, held'[t][fp] = held'[v][fp]
        PROVE  t = v
    <3>1. held[t][fp] # NoHandle /\ held[t][fp] = held[v][fp]
      BY <2>2, <1>8
    <3>2. QED  BY <3>1 DEF Exact, Matched
  <2>3. QED  BY <2>1, <2>2 DEF Matched
<1>14. Accounted'
  <2> SUFFICES ASSUME NEW s \in Slot, pipes'[s].used
               PROVE  \E t \in Thread, fp \in Ep : Holds(t, fp, s)'
    BY DEF Accounted
  <2>1. s # r /\ pipes[s].used
    BY <1>7, <1>9
  <2>2. PICK t \in Thread, fp \in Ep : Holds(t, fp, s)
    <3>1. Accounted
      BY DEF Exact
    <3>2. QED  BY <3>1, <2>1, <1>1 DEF Accounted
  <2>3. ~(t = u /\ fp = ep)
    <3>1. pipes[s].handle = held[t][fp]
      BY <2>2 DEF Holds
    <3>2. QED  BY <3>1, <2>1, <1>5
  <2>4. QED  BY <2>2, <2>3, <1>10
<1>15. ASSUME NEW t \in Thread PROVE FreshId(t)' /\ OwnSlot(t)'
  <2>1. FreshId(t)'
    BY <1>1, <1>2 DEF FreshId
  <2>2. OwnSlot(t)'
    <3>1. want[t] \in Ep => held[t][want[t]] = NoHandle
      BY DEF Exact, OwnSlot
    <3>2. want[t] \in Ep => held'[t][want[t]] = NoHandle
      BY <3>1, <1>8
    <3>3. at[t] = 0
      BY <1>1 DEF Exact, OwnSlot
    <3>4. QED  BY <3>2, <3>3, <1>1, <1>2 DEF OwnSlot
  <2>3. QED  BY <2>1, <2>2
<1>16. QED  BY <1>11, <1>12, <1>13, <1>14, <1>15 DEF Exact

(* Every step of the specification.                                        *)
LEMMA StepExact ==
  ASSUME TypeOK, Exact, [Next]_vars, Calm'
  PROVE  Exact'
<1>0. ~overlapped' /\ ~wrapped'
  BY DEF Calm
<1>1. CASE Steal \/ Trigger \/ AttachReturns \/ UNCHANGED vars
  <2>1. UNCHANGED <<pipes, next, held, pc, want, reg, at>>
    BY <1>1 DEF Steal, Trigger, AttachReturns, vars, local
  <2>2. Matched' /\ Accounted'
    BY <2>1, SamePool DEF Exact
  <2>3. OneCall' /\ Distinct'
    BY <2>1 DEF Exact, OneCall, Distinct
  <2>4. ASSUME NEW t \in Thread PROVE FreshId(t)' /\ OwnSlot(t)'
    BY <2>1 DEF Exact, FreshId, OwnSlot
  <2>5. QED  BY <2>2, <2>3, <2>4 DEF Exact
<1>2. ASSUME NEW t \in Thread, Step(t) PROVE Exact'
  BY <1>0, <1>2, LoadExact, StoreExact, ScanExact, ClaimExact, LabelExact DEF Step
<1>3. ASSUME NEW t \in Thread, NEW ep \in Ep, OpenPipe(t, ep) PROVE Exact'
  BY <1>0, <1>3, EnterExact DEF OpenPipe
<1>4. ASSUME NEW t \in Thread, NEW ep \in Ep, InterruptTransfer(t, ep)
      PROVE  Exact'
  <2>1. Game \in Thread /\ NoEp \in Ep \union {NoEp} /\ NoEp \notin Ep
    BY DEF Thread, NoEp, Ep, EP_IN, EP_OUT
  <2>2. QED  BY <1>0, <1>4, <2>1, EnterExact DEF InterruptTransfer
<1>5. ASSUME NEW t \in Thread, NEW ep \in Ep, ClosePipe(t, ep) PROVE Exact'
  BY <1>0, <1>5, CloseExact
<1>6. QED  BY <1>1, <1>2, <1>3, <1>4, <1>5 DEF Next

(* The empty pool is exact.                                                *)
LEMMA ExactAtStart == Init => Exact
<1> SUFFICES ASSUME Init PROVE Exact
  OBVIOUS
<1>1. \A s \in Slot : ~pipes[s].used
  BY DEF Init, Free
<1>2. \A t \in Thread : pc[t] = "idle" /\ want[t] = NoEp /\ at[t] = 0
  BY DEF Init
<1>3. \A t \in Thread, ep \in Ep : held[t][ep] = NoHandle
  BY DEF Init
<1>4. OneCall /\ Distinct /\ Matched /\ Accounted
  BY <1>1, <1>2, <1>3 DEF OneCall, Distinct, Matched, Accounted
<1>5. NoEp \notin Ep
  BY DEF NoEp, Ep, EP_IN, EP_OUT
<1>6. ASSUME NEW t \in Thread PROVE FreshId(t) /\ OwnSlot(t)
  BY <1>2, <1>5 DEF FreshId, OwnSlot
<1>7. QED  BY <1>4, <1>6 DEF Exact

(* The inductive invariant: while calls of the two threads do not overlap  *)
(* and the counter has not wrapped around, the handles the game holds and  *)
(* the slots in use match one to one, so an open never hands out a slot or *)
(* a handle that is taken (usb_hooks.c, alloc_pipe and free_pipe).         *)
THEOREM PoolStaysExact == Spec => []IInv
<1>1. Init => (Calm => Exact)
  BY ExactAtStart
<1>2. TypeOK /\ (Calm => Exact) /\ [Next]_vars => (Calm => Exact)'
  BY CalmBefore, StepExact
<1>3. QED  BY <1>1, <1>2, TypeCorrect, PTL DEF Spec, IInv

(* A handle the game holds leads to one slot, that of its endpoint, unless *)
(* the calls of the two threads have overlapped or the counter has wrapped *)
(* around: no transfer on it is taken for the other direction or passed to *)
(* the real USB stack (usb_hooks.c, is_toypad_pipe).                       *)
THEOREM HandlesStayTracked == Spec => []HeldIsTracked
<1>1. IInv => HeldIsTracked
  <2> SUFFICES ASSUME TypeOK, Exact, NEW t \in Thread, NEW ep \in Ep,
                      held[t][ep] # NoHandle
               PROVE  /\ held[t][ep] # 0
                      /\ \E s \in Slot : /\ Holds(t, ep, s)
                                         /\ Lookup(held[t][ep]) = {s}
    BY DEF IInv, HeldIsTracked
  <2>1. PICK s \in Slot : Holds(t, ep, s)
    BY DEF Exact, Matched
  <2>2. pipes[s].used /\ pipes[s].handle = held[t][ep]
    BY <2>1 DEF Holds
  <2>3. held[t][ep] # 0
    BY <2>2 DEF Exact, Distinct
  <2>4. \A r \in Slot : pipes[r].used /\ pipes[r].handle = held[t][ep] => r = s
    BY <2>2 DEF Exact, Distinct
  <2>5. \A q \in 0 .. s - 1 : q \in Slot /\ q # s
    BY HooksAssumption DEF Slot
  <2>6. s \in Lookup(held[t][ep])
    BY <2>2, <2>4, <2>5 DEF Lookup
  <2>7. Lookup(held[t][ep]) = {s}
    BY <2>4, <2>6 DEF Lookup
  <2>8. QED  BY <2>1, <2>3, <2>7
<1>2. QED  BY <1>1, PoolStaysExact, PTL

(* Under the same condition no slot of the pool is lost: one in use is     *)
(* behind a handle the game holds or is being handed out (alloc_pipe,      *)
(* free_pipe).                                                             *)
THEOREM NoSlotIsLost == Spec => []NoSlotLeaks
<1>1. IInv => NoSlotLeaks
  BY DEF IInv, NoSlotLeaks, Exact
<1>2. QED  BY <1>1, PoolStaysExact, PTL

-----------------------------------------------------------------------------
(* The pool implements PipeTable.                                          *)

(* The slots behind the handles the game holds.                            *)
Behind == {s \in Slot : \E t \in Thread, ep \in Ep : Holds(t, ep, s)}

(* A held handle is a record of the table, and nothing else is.            *)
LEMMA HeldRecord ==
  ASSUME TypeOK, NEW t \in Thread, NEW ep \in Ep, held[t][ep] # NoHandle
  PROVE  [of |-> t, ep |-> ep, handle |-> held[t][ep]] \in HandlesOut
BY DEF TypeOK, HandlesOut

(* A record of the table is behind one slot, and a slot behind one record: *)
(* there are as many handles out as slots behind them.                     *)
LEMMA HandlesCount ==
  ASSUME TypeOK, Exact
  PROVE  /\ IsFiniteSet(HandlesOut)
         /\ Cardinality(HandlesOut) = Cardinality(Behind)
<1> DEFINE f == [p \in HandlesOut |-> CHOOSE s \in Slot : Holds(p.of, p.ep, s)]
<1>1. ASSUME NEW p \in HandlesOut
      PROVE  /\ p.of \in Thread /\ p.ep \in Ep /\ p.handle = held[p.of][p.ep]
             /\ p.handle # NoHandle
             /\ p = [of |-> p.of, ep |-> p.ep, handle |-> p.handle]
             /\ f[p] \in Slot /\ Holds(p.of, p.ep, f[p])
  <2>1. /\ p.of \in Thread /\ p.ep \in Ep /\ p.handle = held[p.of][p.ep]
        /\ p.handle \in Id
        /\ p = [of |-> p.of, ep |-> p.ep, handle |-> p.handle]
    BY DEF HandlesOut
  <2>2. p.handle # NoHandle
    BY <2>1, HooksAssumption DEF Id, NoHandle
  <2>3. \E s \in Slot : Holds(p.of, p.ep, s)
    BY <2>1, <2>2 DEF Exact, Matched
  <2>4. QED  BY <2>1, <2>2, <2>3
<1>2. f \in [HandlesOut -> Behind]
  BY <1>1 DEF Behind
<1>3. ASSUME NEW p \in HandlesOut, NEW q \in HandlesOut, f[p] = f[q]
      PROVE  p = q
  <2> HIDE DEF f
  <2>0. Holds(p.of, p.ep, f[p]) /\ Holds(q.of, q.ep, f[q])
        /\ p.handle = held[p.of][p.ep] /\ q.handle = held[q.of][q.ep]
    BY <1>1
  <2>1. /\ pipes[f[p]].ep = p.ep /\ pipes[f[p]].handle = p.handle
        /\ pipes[f[q]].ep = q.ep /\ pipes[f[q]].handle = q.handle
    BY <2>0 DEF Holds
  <2>2. p.ep = q.ep /\ p.handle = q.handle
    BY <1>3, <2>1
  <2>3. p.of = q.of
    BY <1>1, <2>2 DEF Exact, Matched
  <2>4. QED  BY <1>1, <2>2, <2>3
<1>4. ASSUME NEW s \in Behind
      PROVE  \E p \in HandlesOut : f[p] = s
  <2>1. PICK t \in Thread, ep \in Ep : Holds(t, ep, s)
    BY DEF Behind
  <2>2. pipes[s].used /\ pipes[s].handle = held[t][ep] /\ s \in Slot
    BY <2>1 DEF Holds, Behind
  <2>3. held[t][ep] # NoHandle
    BY <2>2, HooksAssumption DEF TypeOK, Id, NoHandle
  <2> DEFINE p == [of |-> t, ep |-> ep, handle |-> held[t][ep]]
  <2>4. p \in HandlesOut
    BY <2>3, HeldRecord
  <2>5. f[p] \in Slot /\ Holds(t, ep, f[p])
    BY <1>1, <2>4
  <2> HIDE DEF f
  <2>6. f[p] = s
    BY <2>2, <2>5 DEF Holds, Exact, Distinct
  <2>7. QED  BY <2>4, <2>6
<1>5. IsFiniteSet(Behind)
  <2>1. IsFiniteSet(Slot)
    BY HooksAssumption, FS_Interval DEF Slot
  <2>2. Behind \in SUBSET Slot
    BY DEF Behind
  <2>3. QED  BY <2>1, <2>2, FS_Subset
<1>6. f \in Injection(HandlesOut, Behind) /\ f \in Surjection(HandlesOut, Behind)
  <2> HIDE DEF f
  <2>1. QED  BY <1>2, <1>3, <1>4 DEF Injection, IsInjective, Surjection
<1> HIDE DEF f
<1>7. QED  BY <1>5, <1>6, FS_Injection

(* The number of slots.                                                    *)
LEMMA SlotCount == IsFiniteSet(Slot) /\ Cardinality(Slot) = MaxPipes
<1>1. 0 \in Int /\ MaxPipes - 1 \in Int /\ ~(0 > MaxPipes - 1)
  BY HooksAssumption
<1>2. Cardinality(Slot) = (MaxPipes - 1) - 0 + 1 /\ IsFiniteSet(Slot)
  BY <1>1, FS_Interval DEF Slot
<1>3. QED  BY <1>2, HooksAssumption

(* The table counts as the pool does.                                      *)
LEMMA SameCount == \A S : Pipes!Cardinality(S) = Cardinality(S)
BY DEF Pipes!Cardinality, Cardinality

(* Nothing of the table changes when the handles, the counter and the      *)
(* stage of the call stay.                                                 *)
LEMMA Stutter ==
  ASSUME UNCHANGED <<held, next>>, Drawn' = Drawn
  PROVE  UNCHANGED Pipes!vars
BY DEF Pipes!vars, HandlesOut

(* A store draws the next number, for an open or for a sequence byte.      *)
LEMMA StoreDraws ==
  ASSUME TypeOK, Exact, NEW t \in Thread, ~wrapped',
         StoreHandle(t) \/ StoreSequence(t)
  PROVE  Pipes!Draw
<1> USE DEF TypeOK
<1>1. pc[t] = "put" /\ reg[t] = next /\ UNCHANGED held
  BY DEF StoreHandle, StoreSequence, Store, FreshId, Exact
<1>2. next' = next + 1
  BY <1>1, SuccType DEF StoreHandle, StoreSequence, Store
<1>3. next' > next
  BY <1>2, HooksAssumption DEF Id
<1>4. ~Drawn
  BY <1>1 DEF Exact, OneCall, Drawn
<1>5. HandlesOut' = HandlesOut
  BY <1>1 DEF HandlesOut
<1>6. Drawn' \in BOOLEAN
  BY DEF Drawn
<1>7. QED  BY <1>3, <1>4, <1>5, <1>6 DEF Pipes!Draw

(* A search that comes to the end has passed a full pool.                  *)
LEMMA ScanRefuses ==
  ASSUME TypeOK, Exact, NEW t \in Thread, Scan(t)
  PROVE  Pipes!Refuse \/ UNCHANGED Pipes!vars
<1> USE DEF TypeOK
<1>1. pc[t] = "scan" /\ UNCHANGED <<held, next>> /\ Drawn
  BY DEF Scan, Drawn
<1>2. \A u \in Thread : u # t => pc[u] = "idle" /\ pc'[u] = "idle"
  BY <1>1 DEF Exact, OneCall, Scan, Leave
<1>3. CASE at[t] # MaxPipes
  <2>1. pc'[t] \in {"scan", "claim"}
    BY <1>1, <1>3 DEF Scan
  <2>2. Drawn'
    BY <2>1 DEF Drawn
  <2>3. Drawn' = Drawn
    BY <1>1, <2>2 DEF Drawn
  <2>4. QED  BY <1>1, <2>3, Stutter
<1>4. CASE at[t] = MaxPipes
  <2>1. pc'[t] = "idle"
    BY <1>4 DEF Scan, Leave
  <2>2. Drawn' = FALSE
    BY <1>2, <2>1 DEF Drawn
  <2>3. \A s \in Slot : pipes[s].used
    <3>1. \A s \in Slot : s < MaxPipes
      BY HooksAssumption DEF Slot
    <3>2. QED  BY <1>1, <1>4, <3>1 DEF Exact, OwnSlot
  <2>4. Behind = Slot
    <3>1. \A u \in Thread : pc[u] # "label"
      BY <1>1, <1>2
    <3>2. Accounted
      BY DEF Exact
    <3>3. QED  BY <2>3, <3>1, <3>2 DEF Accounted, Behind
  <2>5. Cardinality(HandlesOut) = MaxPipes
    BY <2>4, HandlesCount, SlotCount
  <2>6. UNCHANGED <<HandlesOut, next>>
    BY <1>1 DEF HandlesOut
  <2>7. Drawn
    BY <1>1
  <2>8. QED  BY <2>2, <2>5, <2>6, <2>7, SameCount DEF Pipes!Refuse
<1>5. QED  BY <1>3, <1>4

(* The handle handed out is the number drawn for it, and the pool had a    *)
(* slot left for it.                                                       *)
LEMMA LabelOpens ==
  ASSUME TypeOK, Exact, NEW t \in Thread, Label(t)
  PROVE  Pipes!Open
<1> USE DEF TypeOK
<1>1. /\ pc[t] = "label" /\ pc'[t] = "idle" /\ UNCHANGED next
  BY DEF Label, Leave
<1>2. \A u \in Thread : u # t => pc[u] = "idle" /\ pc'[u] = "idle"
  BY <1>1 DEF Exact, OneCall, Label, Leave
<1>3. /\ at[t] \in Slot /\ pipes[at[t]].handle = next /\ pipes[at[t]].ep = NoEp
      /\ want[t] \in Ep /\ held[t][want[t]] = NoHandle
  BY <1>1 DEF Exact, OwnSlot
<1> DEFINE p == [of |-> t, ep |-> want[t], handle |-> next]
<1>4. held' = [held EXCEPT ![t][want[t]] = next]
  BY <1>3 DEF Label
<1>5. /\ held'[t][want[t]] = next
      /\ \A u \in Thread, ep \in Ep :
           ~(u = t /\ ep = want[t]) => held'[u][ep] = held[u][ep]
  BY <1>3, <1>4
<1>6. \A q \in HandlesOut : ~(q.of = t /\ q.ep = want[t])
  <2>1. NoHandle \notin Id
    BY HooksAssumption DEF Id, NoHandle
  <2>2. QED  BY <1>3, <2>1 DEF HandlesOut
<1>7. HandlesOut' = HandlesOut \union {p}
  <2>1. ASSUME NEW q \in [of : Thread, ep : Ep, handle : Id]
        PROVE  q \in HandlesOut' <=> q \in HandlesOut \union {p}
    <3>1. q = [of |-> q.of, ep |-> q.ep, handle |-> q.handle]
          /\ q.of \in Thread /\ q.ep \in Ep
      OBVIOUS
    <3>2. CASE q.of = t /\ q.ep = want[t]
      <4>1. q \in HandlesOut' <=> q.handle = next
        BY <1>5, <3>2 DEF HandlesOut
      <4>2. q \notin HandlesOut
        BY <1>6, <3>2
      <4>3. q = p <=> q.handle = next
        BY <3>1, <3>2
      <4>4. QED  BY <4>1, <4>2, <4>3
    <3>3. CASE ~(q.of = t /\ q.ep = want[t])
      <4>1. q \in HandlesOut' <=> q \in HandlesOut
        BY <1>5, <3>1, <3>3 DEF HandlesOut
      <4>2. q # p
        BY <3>3
      <4>3. QED  BY <4>1, <4>2
    <3>4. QED  BY <3>2, <3>3
  <2>2. p \in [of : Thread, ep : Ep, handle : Id]
    BY <1>3
  <2>3. /\ HandlesOut \subseteq [of : Thread, ep : Ep, handle : Id]
        /\ HandlesOut' \subseteq [of : Thread, ep : Ep, handle : Id]
    BY DEF HandlesOut
  <2> HIDE DEF p
  <2>4. QED  BY <2>1, <2>2, <2>3
<1>8. Cardinality(HandlesOut) < MaxPipes
  <2>1. at[t] \notin Behind
    <3>1. NoEp \notin Ep
      BY DEF NoEp, Ep, EP_IN, EP_OUT
    <3>2. QED  BY <1>3, <3>1 DEF Behind, Holds
  <2>2. Behind \in SUBSET Slot /\ Behind # Slot
    BY <1>3, <2>1 DEF Behind
  <2> DEFINE n == Cardinality(Behind)
  <2>3. n <= MaxPipes /\ n # MaxPipes /\ n \in Nat
    BY <2>2, SlotCount, FS_Subset, FS_CardinalityType
  <2>4. Cardinality(HandlesOut) = n
    BY HandlesCount
  <2> HIDE DEF n
  <2>5. n < MaxPipes
    BY <2>3, HooksAssumption
  <2>6. QED  BY <2>4, <2>5
<1>9. Drawn
  BY <1>1 DEF Drawn
<1>10. Drawn' = FALSE
  BY <1>1, <1>2 DEF Drawn
<1>11. \E o \in Thread, ep \in Ep :
         /\ \A q \in HandlesOut : ~(q.of = o /\ q.ep = ep)
         /\ HandlesOut' = HandlesOut
                            \union {[of |-> o, ep |-> ep, handle |-> next]}
  BY <1>3, <1>6, <1>7
<1>12. UNCHANGED next
  BY <1>1
<1>13. QED  BY <1>8, <1>9, <1>10, <1>11, <1>12, SameCount DEF Pipes!Open

(* A close takes one pipe out of the table.                                *)
LEMMA CloseCloses ==
  ASSUME TypeOK, Exact, NEW u \in Thread, NEW ep \in Ep, ClosePipe(u, ep),
         ~overlapped'
  PROVE  Pipes!Close
<1> USE DEF TypeOK
<1>1. \A t \in Thread : pc[t] = "idle"
  BY DEF ClosePipe, Note
<1>2. UNCHANGED <<next, pc>> /\ held[u][ep] # NoHandle
      /\ held' = [held EXCEPT ![u][ep] = NoHandle]
  BY DEF ClosePipe, local
<1> DEFINE p == [of |-> u, ep |-> ep, handle |-> held[u][ep]]
<1>3. p \in HandlesOut
  BY <1>2, HeldRecord
<1>4. HandlesOut' = HandlesOut \ {p}
  <2>0. NoHandle \notin Id
    BY HooksAssumption DEF Id, NoHandle
  <2>1. ASSUME NEW q \in [of : Thread, ep : Ep, handle : Id]
        PROVE  q \in HandlesOut' <=> q \in HandlesOut \ {p}
    <3>1. q = [of |-> q.of, ep |-> q.ep, handle |-> q.handle]
          /\ q.of \in Thread /\ q.ep \in Ep /\ q.handle \in Id
      OBVIOUS
    <3>2. CASE q.of = u /\ q.ep = ep
      <4>1. q \notin HandlesOut'
        BY <1>2, <2>0, <3>1, <3>2 DEF HandlesOut
      <4>2. q \in HandlesOut => q = p
        BY <3>1, <3>2 DEF HandlesOut
      <4>3. QED  BY <4>1, <4>2
    <3>3. CASE ~(q.of = u /\ q.ep = ep)
      <4>1. q \in HandlesOut' <=> q \in HandlesOut
        BY <1>2, <3>1, <3>3 DEF HandlesOut
      <4>2. q # p
        BY <3>3
      <4>3. QED  BY <4>1, <4>2
    <3>4. QED  BY <3>2, <3>3
  <2>2. /\ HandlesOut \subseteq [of : Thread, ep : Ep, handle : Id]
        /\ HandlesOut' \subseteq [of : Thread, ep : Ep, handle : Id]
    BY DEF HandlesOut
  <2> HIDE DEF p
  <2>3. QED  BY <2>1, <2>2
<1>5. ~Drawn /\ Drawn' = Drawn
  BY <1>1, <1>2 DEF Drawn
<1>6. QED  BY <1>2, <1>3, <1>4, <1>5 DEF Pipes!Close

(* Every calm step is a step of the table, or a stutter.                   *)
LEMMA TableStep ==
  ASSUME IInv, [Next]_vars, Calm'
  PROVE  [Pipes!Next]_(Pipes!vars)
<1>1. TypeOK /\ Exact /\ ~overlapped' /\ ~wrapped'
  BY CalmBefore DEF IInv, Calm
<1>2. CASE Steal \/ Trigger \/ AttachReturns \/ UNCHANGED vars
  <2>1. UNCHANGED <<held, next, pc>>
    BY <1>2 DEF Steal, Trigger, AttachReturns, vars, local
  <2>2. QED  BY <2>1, Stutter DEF Drawn
<1>3. ASSUME NEW t \in Thread, Load(t) \/ Claim(t)
      PROVE  UNCHANGED Pipes!vars
  <2>1. UNCHANGED <<held, next>>
    BY <1>3 DEF Load, Claim
  <2>2. /\ \A u \in Thread : u # t => pc'[u] = pc[u]
        /\ \/ pc[t] \in {"inc", "skip"} /\ pc'[t] \in {"put", "skipput"}
           \/ pc[t] = "claim" /\ pc'[t] = "label"
    BY <1>1, <1>3 DEF Load, Claim, TypeOK
  <2>3. Drawn' = Drawn
    BY <2>2 DEF Drawn
  <2>4. QED  BY <2>1, <2>3, Stutter
<1>4. ASSUME NEW t \in Thread, Step(t)
      PROVE  [Pipes!Next]_(Pipes!vars)
  <2>1. CASE Load(t) \/ Claim(t)
    BY <1>3, <2>1
  <2>2. CASE StoreHandle(t) \/ StoreSequence(t)
    BY <1>1, <2>2, StoreDraws DEF Pipes!Next
  <2>3. CASE Scan(t)
    BY <1>1, <2>3, ScanRefuses DEF Pipes!Next
  <2>4. CASE Label(t)
    BY <1>1, <2>4, LabelOpens DEF Pipes!Next
  <2>5. QED  BY <1>4, <2>1, <2>2, <2>3, <2>4 DEF Step
<1>5. ASSUME NEW t \in Thread, NEW ep \in Ep,
             OpenPipe(t, ep) \/ InterruptTransfer(t, ep)
      PROVE  UNCHANGED Pipes!vars
  <2>1. UNCHANGED <<held, next>>
    BY <1>5 DEF OpenPipe, InterruptTransfer
  <2>2. PICK v \in Thread : pc[v] = "idle" /\ pc' = [pc EXCEPT ![v] = "inc"]
    BY <1>5 DEF OpenPipe, InterruptTransfer, Enter, Thread
  <2>3. Drawn' = Drawn
    BY <1>1, <2>2 DEF Drawn, TypeOK
  <2>4. QED  BY <2>1, <2>3, Stutter
<1>6. ASSUME NEW t \in Thread, NEW ep \in Ep, ClosePipe(t, ep)
      PROVE  Pipes!Next
  BY <1>1, <1>6, CloseCloses DEF Pipes!Next
<1>7. QED  BY <1>2, <1>4, <1>5, <1>6 DEF Next

(* The pool implements the table of pipes, as long as the calls of the two *)
(* threads do not overlap and the counter does not wrap around: whatever   *)
(* the pool's size, handles are never given out twice, and an open is      *)
(* refused only when the game holds a handle for every slot.               *)
THEOREM PoolIsAPipeTable == Spec => IsAPipeTable
<1>1. Init => Pipes!Init
  <2> SUFFICES ASSUME Init PROVE Pipes!Init
    OBVIOUS
  <2>1. HandlesOut = {}
    BY HooksAssumption DEF Init, HandlesOut, Id, NoHandle
  <2>2. ~Drawn
    BY DEF Init, Drawn
  <2>3. Drawn = FALSE
    BY <2>2 DEF Drawn
  <2>4. QED  BY <2>1, <2>3 DEF Init, Pipes!Init
<1>2. IInv /\ [Next]_vars => [Calm' => [Pipes!Next]_(Pipes!vars)]_vars
  BY TableStep
<1>3. QED  BY <1>1, <1>2, PoolStaysExact, PTL DEF Spec, IsAPipeTable

-----------------------------------------------------------------------------
(* How much of its call a thread has before it: the half of                *)
(* InterruptsComplete that needs no fairness.  Nothing here asks for Calm: *)
(* calls may overlap and the counter may wrap.                             *)

CallLeft(t) ==
  IF pc[t] = "inc"     THEN 7 + MaxPipes ELSE
  IF pc[t] = "put"     THEN 6 + MaxPipes ELSE
  IF pc[t] = "skip"    THEN 5 + MaxPipes ELSE
  IF pc[t] = "skipput" THEN 4 + MaxPipes ELSE
  IF pc[t] = "scan"    THEN 3 + (MaxPipes - at[t]) ELSE
  IF pc[t] = "claim"   THEN 2 ELSE
  IF pc[t] = "label"   THEN 1 ELSE 0

(* A transfer that is due is one the game's thread is in.                  *)
DueIsHandled == due => pc[Game] \in {"inc", "put"} /\ want[Game] = NoEp

(* A transfer stays in the game's thread until its done_cb was called.     *)
LEMMA DueStep == TypeOK /\ DueIsHandled /\ [Next]_vars => DueIsHandled'
<1> SUFFICES ASSUME TypeOK, DueIsHandled, [Next]_vars PROVE DueIsHandled'
  OBVIOUS
<1> USE DEF DueIsHandled, TypeOK
<1>1. CASE Steal \/ Trigger \/ AttachReturns \/ UNCHANGED vars
  BY <1>1 DEF Steal, Trigger, AttachReturns, vars, local
<1>2. ASSUME NEW t \in Thread, Step(t) PROVE DueIsHandled'
  <2>1. CASE StoreSequence(t)
    BY <2>1 DEF StoreSequence
  <2>2. CASE Load(t)
    <3>1. /\ UNCHANGED <<due, want>>
          /\ Game = t /\ pc[t] = "inc" => pc'[Game] = "put"
          /\ Game # t => pc'[Game] = pc[Game]
      BY <2>2 DEF Load, Thread
    <3>2. Game = t => pc[t] \in {"inc", "skip"}
      BY <2>2 DEF Load
    <3>3. QED  BY <3>1, <3>2
  <2>3. CASE StoreHandle(t)
    BY <2>3 DEF StoreHandle, Store, NoEp
  <2>4. CASE Scan(t) \/ Claim(t) \/ Label(t)
    <3>1. /\ due' = due /\ pc[t] \notin {"inc", "put"}
          /\ Game # t => pc'[Game] = pc[Game] /\ want'[Game] = want[Game]
      BY <2>4 DEF Scan, Claim, Label, Leave, Thread
    <3>2. QED  BY <3>1
  <2>5. QED  BY <1>2, <2>1, <2>2, <2>3, <2>4 DEF Step
<1>3. ASSUME NEW t \in Thread, NEW ep \in Ep, OpenPipe(t, ep) PROVE DueIsHandled'
  BY <1>3 DEF OpenPipe, Enter
<1>4. ASSUME NEW t \in Thread, NEW ep \in Ep, InterruptTransfer(t, ep)
      PROVE  DueIsHandled'
  BY <1>4 DEF InterruptTransfer, Enter, Thread
<1>5. ASSUME NEW t \in Thread, NEW ep \in Ep, ClosePipe(t, ep) PROVE DueIsHandled'
  BY <1>5 DEF ClosePipe, local
<1>6. QED  BY <1>1, <1>2, <1>3, <1>4, <1>5 DEF Next

LEMMA CallRange ==
  TypeOK => \A t \in Thread : CallLeft(t) \in 0 .. 7 + MaxPipes
BY HooksAssumption DEF TypeOK, CallLeft

(* A thread's own step takes it on, to the end of the pool at most.        *)
LEMMA CallLess ==
  ASSUME TypeOK, NEW t \in Thread, Step(t)
  PROVE  CallLeft(t)' < CallLeft(t)
<1>0. MaxPipes \in Nat /\ at[t] \in 0 .. MaxPipes
  BY HooksAssumption DEF TypeOK
<1>1. CASE Scan(t)
  <2>1. \/ pc[t] = "scan" /\ pc'[t] \in {"idle", "claim"}
        \/ /\ pc[t] = "scan" /\ pc'[t] = "scan" /\ at[t] # MaxPipes
           /\ at'[t] = at[t] + 1
    BY <1>1 DEF Scan, Leave, TypeOK
  <2>2. QED  BY <1>0, <2>1 DEF CallLeft
<1>2. CASE ~Scan(t)
  <2>1. \/ pc[t] = "inc" /\ pc'[t] = "put"
        \/ pc[t] = "skip" /\ pc'[t] = "skipput"
        \/ pc[t] = "put" /\ pc'[t] \in {"skip", "scan", "idle"}
        \/ pc[t] = "skipput" /\ pc'[t] \in {"scan", "idle"}
        \/ pc[t] = "claim" /\ pc'[t] = "label"
        \/ pc[t] = "label" /\ pc'[t] = "idle"
    <3>1. CASE Load(t) \/ Claim(t)
      BY <3>1 DEF Load, Claim, TypeOK
    <3>2. CASE StoreHandle(t)
      BY <3>2 DEF StoreHandle, Store, TypeOK
    <3>3. CASE StoreSequence(t) \/ Label(t)
      BY <3>3 DEF StoreSequence, Store, Label, Leave, TypeOK
    <3>4. QED  BY <1>2, <3>1, <3>2, <3>3 DEF Step
  <2>2. pc'[t] = "scan" => at'[t] \in 0 .. MaxPipes
    <3>1. pc'[t] = "scan" => at' = at
      BY <1>2 DEF Step, Load, StoreHandle, StoreSequence, Claim, Label, Leave, TypeOK
    <3>2. QED  BY <1>0, <3>1
  <2>3. QED  BY <1>0, <2>1, <2>2 DEF CallLeft
<1>3. QED  BY <1>1, <1>2

(* Nobody else's step does anything to it.                                 *)
LEMMA CallKept ==
  ASSUME TypeOK, NEW t \in Thread, [Next]_vars, ~Step(t), pc[t] # "idle"
  PROVE  CallLeft(t)' = CallLeft(t)
<1> SUFFICES pc'[t] = pc[t] /\ at'[t] = at[t]
  BY DEF CallLeft
<1>1. CASE Steal \/ Trigger \/ AttachReturns \/ UNCHANGED vars
  BY <1>1 DEF Steal, Trigger, AttachReturns, vars, local
<1>2. ASSUME NEW u \in Thread, Step(u) PROVE pc'[t] = pc[t] /\ at'[t] = at[t]
  <2>1. u # t
    BY <1>2
  <2>2. QED
    BY <1>2, <2>1 DEF Step, Load, StoreHandle, StoreSequence, Scan, Claim, Label,
                      Leave, TypeOK
<1>3. ASSUME NEW u \in Thread, NEW ep \in Ep,
             OpenPipe(u, ep) \/ InterruptTransfer(u, ep)
      PROVE  pc'[t] = pc[t] /\ at'[t] = at[t]
  BY <1>3 DEF OpenPipe, InterruptTransfer, Enter, TypeOK, Thread
<1>4. ASSUME NEW u \in Thread, NEW ep \in Ep, ClosePipe(u, ep)
      PROVE  pc'[t] = pc[t] /\ at'[t] = at[t]
  BY <1>4 DEF ClosePipe, local
<1>5. QED  BY <1>1, <1>2, <1>3, <1>4 DEF Next

(* A call of a hook takes at most 7 + MaxPipes steps of its own thread,    *)
(* whatever the other thread does to the pool and the counter, and a       *)
(* transfer whose done_cb is due is in such a call                         *)
(* (usb_hooks.c:519-546, 722).                                             *)
THEOREM CallsAreBounded ==
  Spec => /\ [](DueIsHandled /\ \A t \in Thread : CallLeft(t) \in 0 .. 7 + MaxPipes)
          /\ [][\A t \in Thread :
                  /\ Step(t) => CallLeft(t)' < CallLeft(t)
                  /\ ~Step(t) /\ pc[t] # "idle" => CallLeft(t)' = CallLeft(t)]_vars
<1>1. Init => DueIsHandled
  BY DEF Init, DueIsHandled
<1>2. Spec => []DueIsHandled
  BY <1>1, DueStep, TypeCorrect, PTL DEF Spec
<1>3. TypeOK /\ [Next]_vars =>
        [\A t \in Thread :
           /\ Step(t) => CallLeft(t)' < CallLeft(t)
           /\ ~Step(t) /\ pc[t] # "idle" => CallLeft(t)' = CallLeft(t)]_vars
  BY CallLess, CallKept
<1>4. QED  BY PTL, TypeCorrect, CallRange, <1>2, <1>3 DEF Spec

=============================================================================
