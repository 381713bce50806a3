---------------------------- MODULE Worker_proofs ----------------------------
(***************************************************************************)
(* Proofs about Worker, for any number of times the plugin is loaded.      *)
(***************************************************************************)
EXTENDS Worker, TLAPS

(* The inductive invariant holds before anything is loaded.                *)
LEMMA InvInit == Init => IInv
<1> SUFFICES ASSUME Init PROVE IInv
  OBVIOUS
<1>1. TypeOK
  BY DEF Init, TypeOK, Nowhere, Module, Phase
<1>2. OneWorker
  <2>1. ASSUME NEW i \in Image PROVE threads[i] = 0 /\ phase[i] = "none"
    BY <2>1 DEF Init
  <2>2. ASSUME NEW i \in Image
        PROVE  /\ threads[i] = IF phase[i] \in {"none", "exited"} THEN 0 ELSE 1
               /\ ~(threads[i] > 0)
    <3>1. ~(threads[i] > 0)
      <4>1. ~(0 > 0)
        OBVIOUS
      <4>2. QED  BY <2>1, <4>1
    <3>2. QED  BY <2>1, <3>1
  <2>3. QED  BY <2>2 DEF OneWorker
<1>3. ASSUME NEW i \in Image PROVE LifeOf(i)
  BY <1>3 DEF Init, LifeOf, Alive, Nowhere
<1>4. QED  BY <1>1, <1>2, <1>3 DEF IInv

(* What a stop does after the driver.                                      *)
LeaveNetwork(i) == CloseSocket(i) \/ ForgetSocket(i) \/ Unload(i)

(* The types, one step at a time.                                          *)
LEMMA TypeStep == IInv /\ [Next]_vars => TypeOK'
<1> SUFFICES ASSUME IInv, [Next]_vars PROVE TypeOK'
  OBVIOUS
<1> USE DEF TypeOK, Module, Phase, opd, ldd
<1>1. TypeOK
  BY DEF IInv
<1>2. ASSUME NEW i \in Image, Start(i) PROVE TypeOK'
  <2>1. threads[i] + 1 \in Nat
    BY <1>1
  <2>2. threads' \in [Image -> Nat]
    BY <1>1, <1>2, <2>1 DEF Start
  <2>3. /\ module' \in [Image -> Module] /\ phase' \in [Image -> Phase]
        /\ tid' \in [Image -> BOOLEAN]
    BY <1>1, <1>2 DEF Start
  <2>4. QED  BY <1>1, <1>2, <2>2, <2>3 DEF Start
<1>3. ASSUME NEW i \in Image, Bind(i) \/ LeaveLoop(i) PROVE TypeOK'
  <2>1. threads[i] = 1
    BY <1>3 DEF IInv, OneWorker, Bind, LeaveLoop
  <2>2. threads[i] - 1 \in Nat
    BY <2>1
  <2>3. threads' \in [Image -> Nat]
    BY <1>1, <1>3, <2>2 DEF Bind, LeaveLoop, ExitThread
  <2>4. /\ phase' \in [Image -> Phase]
        /\ sock' \in [Image -> BOOLEAN]
    <3>1. CASE Bind(i)
      BY <1>1, <3>1 DEF Bind, ExitThread
    <3>2. CASE LeaveLoop(i)
      BY <1>1, <3>2 DEF LeaveLoop, ExitThread
    <3>3. QED  BY <1>3, <3>1, <3>2
  <2>5. UNCHANGED <<module, tid, shutdown, online, kind, fallback, opd, patched, ldd>>
    BY <1>3 DEF Bind, LeaveLoop
  <2>6. QED  BY <1>1, <2>3, <2>4, <2>5
<1>4. ASSUME NEW i \in Image, WaitReady(i) PROVE TypeOK'
  BY <1>1, <1>4 DEF WaitReady
<1>5. ASSUME NEW i \in Image, Install(i) PROVE TypeOK'
  <2>1. /\ kind' \in [Image -> {"none", "usb", "opd"}]
        /\ patched' \in Image \union {NoImage}
    BY <1>1, <1>5 DEF Install
  <2>2. ops' \in [Image -> BOOLEAN]
    BY <1>1, <1>5 DEF Install
  <2>3. phase' \in [Image -> Phase] /\ fallback' \in [Image -> BOOLEAN]
    BY <1>1, <1>5 DEF Install
  <2>4. UNCHANGED <<module, tid, shutdown, threads, sock, online, hotplug, outbox,
                    inbox, ldd>>
    BY <1>5 DEF Install
  <2>5. QED  BY <1>1, <2>1, <2>2, <2>3, <2>4
<1>6. ASSUME NEW i \in Image, Round(i) PROVE TypeOK'
  BY <1>1, <1>6 DEF Round
<1>7. ASSUME NEW i \in Image, Stop(i) \/ Join(i) \/ ShutHooks(i) \/ LeaveNetwork(i)
      PROVE  TypeOK'
  BY <1>1, <1>7 DEF Stop, Join, ShutHooks, LeaveNetwork, CloseSocket, ForgetSocket,
                    Unload
<1>8. ASSUME NEW i \in Image, OpdRegisterLdd(i) \/ OpdTransfer(i) PROVE TypeOK'
  BY <1>1, <1>8 DEF OpdRegisterLdd, OpdTransfer
<1>9. ASSUME NEW i \in Image, LddInit(i) \/ ShutLdd(i) PROVE TypeOK'
  <2>1. /\ registered' \in [Image -> BOOLEAN] /\ extra' \subseteq Image
        /\ claimed' \in [Image -> Device \union {NoDevice}]
    <3>1. registered' \in [Image -> BOOLEAN]
      BY <1>1, <1>9 DEF LddInit, ShutLdd
    <3>2. extra' \subseteq Image
      BY <1>1, <1>9 DEF LddInit, ShutLdd
    <3>3. claimed' \in [Image -> Device \union {NoDevice}]
      BY <1>1, <1>9 DEF LddInit, ShutLdd
    <3>4. QED  BY <3>1, <3>2, <3>3
  <2>2. /\ refused' \in [Image -> BOOLEAN]
        /\ attached' \in [Image -> SUBSET Device]
        /\ module' \in [Image -> Module] /\ phase' \in [Image -> Phase]
    BY <1>1, <1>9 DEF LddInit, ShutLdd
  <2>3. QED  BY <1>1, <1>9, <2>1, <2>2 DEF LddInit, ShutLdd
<1>10. ASSUME NEW i \in Image, NEW d \in Device, LddAttach(i, d) \/ LddDetach(i, d)
       PROVE  TypeOK'
  <2>1. /\ claimed' \in [Image -> Device \union {NoDevice}]
        /\ attached' \in [Image -> SUBSET Device]
    BY <1>1, <1>10 DEF LddAttach, LddDetach
  <2>2. QED  BY <1>1, <1>10, <2>1 DEF LddAttach, LddDetach
<1>11. CASE UNCHANGED vars
  BY <1>1, <1>11 DEF vars
<1>12. QED
  BY <1>2, <1>3, <1>4, <1>5, <1>6, <1>7, <1>8, <1>9, <1>10, <1>11
     DEF Next, WorkerStep, StopStep, LeaveNetwork

StepOf(i) ==
  \/ Start(i) \/ WorkerStep(i) \/ Stop(i) \/ StopStep(i)
  \/ OpdRegisterLdd(i) \/ OpdTransfer(i)
  \/ \E d \in Device : LddAttach(i, d) \/ LddDetach(i, d)

(* A step of one image changes the life of that image only.                *)
LEMMA OthersLive ==
  ASSUME IInv, NEW i \in Image, NEW j \in Image, i # j,
         StepOf(i)
  PROVE  /\ module'[j] = module[j] /\ phase'[j] = phase[j]
         /\ threads'[j] = threads[j] /\ (tid'[j] <=> tid[j])
         /\ (sock'[j] <=> sock[j]) /\ (online'[j] <=> online[j])
         /\ kind'[j] = kind[j]
         /\ (registered'[j] <=> registered[j]) /\ (j \in extra' <=> j \in extra)
         /\ claimed'[j] = claimed[j] /\ attached'[j] = attached[j]
         /\ (refused'[j] <=> refused[j])
<1> USE DEF IInv, TypeOK, opd, ldd
<1>1. CASE Start(i)
  BY <1>1 DEF Start
<1>2. CASE Bind(i) \/ LeaveLoop(i)
  BY <1>2 DEF Bind, LeaveLoop, ExitThread
<1>3. CASE WaitReady(i)
  BY <1>3 DEF WaitReady
<1>4. CASE Install(i)
  BY <1>4 DEF Install
<1>5. CASE Round(i) \/ OpdRegisterLdd(i) \/ OpdTransfer(i)
  BY <1>5 DEF Round, OpdRegisterLdd, OpdTransfer
<1>6. CASE Stop(i) \/ StopStep(i)
  BY <1>6 DEF Stop, StopStep, Join, ShutHooks, ShutLdd, CloseSocket, ForgetSocket,
              Unload
<1>7. CASE LddInit(i)
  BY <1>7 DEF LddInit
<1>8. CASE \E d \in Device : LddAttach(i, d) \/ LddDetach(i, d)
  BY <1>8 DEF LddAttach, LddDetach, Callable
<1>9. QED
  BY <1>1, <1>2, <1>3, <1>4, <1>5, <1>6, <1>7, <1>8 DEF WorkerStep, StepOf

(* What OneWorker and LifeOf say of one image together.                    *)
Healthy(i) ==
  /\ threads[i] = IF phase[i] \in {"none", "exited"} THEN 0 ELSE 1
  /\ threads[i] > 0 => module[i] \in {"resident", "joining"}
  /\ LifeOf(i)

(* Each action keeps the image it belongs to healthy.                      *)
LEMMA OwnLife ==
  ASSUME IInv, NEW i \in Image, Healthy(i),
         StepOf(i)
  PROVE  Healthy(i)'
<1> USE DEF IInv, TypeOK, opd, ldd, Healthy, LifeOf, Alive, Closed, Module, Phase
<1>1. CASE Start(i)
  BY <1>1 DEF Start
<1>2. CASE Bind(i)
  BY <1>2 DEF Bind, ExitThread
<1>3. CASE LeaveLoop(i)
  BY <1>3 DEF LeaveLoop, ExitThread
<1>4. CASE WaitReady(i)
  BY <1>4 DEF WaitReady
<1>5. CASE Install(i)
  BY <1>5 DEF Install
<1>6. CASE Round(i) \/ OpdRegisterLdd(i) \/ OpdTransfer(i)
  BY <1>6 DEF Round, OpdRegisterLdd, OpdTransfer
<1>7. CASE Stop(i)
  BY <1>7 DEF Stop
<1>8. CASE Join(i)
  BY <1>8 DEF Join
<1>9. CASE ShutHooks(i) \/ LeaveNetwork(i)
  BY <1>9 DEF ShutHooks, LeaveNetwork, CloseSocket, ForgetSocket, Unload
<1>10. CASE ShutLdd(i)
  BY <1>10 DEF ShutLdd
<1>11. CASE LddInit(i)
  BY <1>11 DEF LddInit
<1>12. CASE \E d \in Device : LddAttach(i, d) \/ LddDetach(i, d)
  BY <1>12 DEF LddAttach, LddDetach, Callable
<1>13. QED
  BY <1>1, <1>2, <1>3, <1>4, <1>5, <1>6, <1>7, <1>8, <1>9, <1>10, <1>11, <1>12
     DEF WorkerStep, StopStep, StepOf, LeaveNetwork

(* Every image is healthy after every step.                                *)
LEMMA InvStep == IInv /\ [Next]_vars => IInv'
<1> SUFFICES ASSUME IInv, [Next]_vars PROVE IInv'
  OBVIOUS
<1>1. \A j \in Image : Healthy(j)
  BY DEF IInv, OneWorker, Healthy
<1>2. TypeOK'
  BY TypeStep
<1>3. ASSUME NEW j \in Image PROVE Healthy(j)'
  <2>1. CASE UNCHANGED vars
    BY <1>1, <2>1 DEF vars, ldd, Healthy, LifeOf, Alive, Closed
  <2>2. CASE Next
    <3>1. PICK i \in Image : StepOf(i)
      BY <2>2 DEF Next, StepOf
    <3>2. CASE i = j
      BY <1>1, <3>1, <3>2, OwnLife
    <3>3. CASE i # j
      <4>1. /\ module'[j] = module[j] /\ phase'[j] = phase[j]
            /\ threads'[j] = threads[j] /\ (tid'[j] <=> tid[j])
            /\ (sock'[j] <=> sock[j]) /\ (online'[j] <=> online[j])
            /\ kind'[j] = kind[j]
            /\ (registered'[j] <=> registered[j]) /\ (j \in extra' <=> j \in extra)
            /\ claimed'[j] = claimed[j] /\ attached'[j] = attached[j]
            /\ (refused'[j] <=> refused[j])
        BY <3>1, <3>3, OthersLive
      <4>2. QED  BY <1>1, <4>1 DEF Healthy, LifeOf, Alive, Closed
    <3>4. QED  BY <3>2, <3>3
  <2>3. QED  BY <2>1, <2>2
<1>4. QED  BY <1>2, <1>3 DEF IInv, OneWorker, Healthy

(* Every image is in a state that its stage of life allows: a worker runs  *)
(* from module_start to module_stop at most, and what it needs was set up  *)
(* before and is taken down after it (main.c).                             *)
THEOREM LivesAreOrderly == Spec => []IInv
BY InvInit, InvStep, PTL DEF Spec

(* However often an image is started it has one worker, and none once it   *)
(* is being taken down (main.c:76-81, module_stop).                        *)
THEOREM AtMostOneWorker == Spec => []OneWorker
<1>1. IInv => OneWorker
  BY DEF IInv
<1>2. QED  BY <1>1, LivesAreOrderly, PTL

(* The worker's heartbeats find an open socket and a known server.         *)
THEOREM WorkerStaysOnline == Spec => []WorkerIsOnline
<1>1. IInv => WorkerIsOnline
  BY DEF IInv, LifeOf, WorkerIsOnline
<1>2. QED  BY <1>1, LivesAreOrderly, PTL

(* Hooks have the network from their installation until network_shutdown,  *)
(* and a hook that the game still reaches after that takes the socket for  *)
(* open only while network_shutdown is between closing and forgetting it.  *)
THEOREM HooksStayOnline == Spec => []HooksAreOnline
<1>1. IInv => HooksAreOnline
  BY DEF IInv, LifeOf, HooksAreOnline
<1>2. QED  BY <1>1, LivesAreOrderly, PTL

(* The kernel keeps the driver of an unloaded image only if it refused to  *)
(* give it up, and an image's device is one its driver has (ldd_driver.c). *)
THEOREM DriverStaysLoaded == Spec => []DriverIsLoaded
<1>1. ASSUME IInv, NEW i \in Image
      PROVE  /\ i \in extra => registered[i] \/ refused[i]
             /\ i \in extra /\ module[i] \in {"absent", "gone"} => refused[i]
             /\ claimed[i] # NoDevice => claimed[i] \in attached[i]
  BY <1>1 DEF IInv, LifeOf
<1>2. IInv => DriverIsLoaded
  BY <1>1 DEF DriverIsLoaded
<1>3. QED  BY <1>2, LivesAreOrderly, PTL

-----------------------------------------------------------------------------
(* A stop takes at most twelve steps of the worker and of module_stop: the    *)
(* half of StopCompletes that needs no fairness.                           *)

(* The stages the worker and the stop have before them, once it began.     *)
PhaseLeft(i) ==
  IF phase[i] = "ldd"     THEN 6 ELSE
  IF phase[i] = "bind"    THEN 5 ELSE
  IF phase[i] = "wait"    THEN 4 ELSE
  IF phase[i] = "retry"   THEN 3 ELSE
  IF phase[i] = "install" THEN 2 ELSE
  IF phase[i] = "loop"    THEN 1 ELSE 0

ModuleLeft(i) ==
  IF module[i] = "joining" THEN 6 ELSE
  IF module[i] = "hooks"   THEN 5 ELSE
  IF module[i] = "ldd"     THEN 4 ELSE
  IF module[i] = "network" THEN 3 ELSE
  IF module[i] = "closing" THEN 2 ELSE
  IF module[i] = "closed"  THEN 1 ELSE 0

StopLeft(i) == PhaseLeft(i) + ModuleLeft(i)

(* A stop has been announced to the worker, and there is one to wait for.  *)
Announced(i) ==
  /\ module[i] \in {"joining", "hooks", "ldd", "network", "closing", "closed"} =>
       shutdown[i]
  /\ shutdown[i] => module[i] \notin {"absent", "resident"}
  /\ Alive(i) => phase[i] # "none"

LEMMA AnnouncedInit == Init => \A i \in Image : Announced(i)
BY DEF Init, Announced, Alive, Nowhere

(* A step of one image leaves the stop of another alone.                   *)
LEMMA OthersStop ==
  ASSUME IInv, NEW i \in Image, NEW j \in Image, i # j, StepOf(i)
  PROVE  /\ module'[j] = module[j] /\ phase'[j] = phase[j]
         /\ (shutdown'[j] <=> shutdown[j])
<1>1. module'[j] = module[j] /\ phase'[j] = phase[j]
  BY OthersLive
<1>2. shutdown' = shutdown \/ Stop(i)
  BY DEF StepOf, Start, WorkerStep, LddInit, Bind, WaitReady, Install, Round,
         LeaveLoop, StopStep, Join, ShutHooks, ShutLdd, CloseSocket, ForgetSocket,
         Unload, OpdRegisterLdd, OpdTransfer, LddAttach, LddDetach
<1>3. QED  BY <1>1, <1>2 DEF Stop, IInv, TypeOK

(* Each step of the image announces a stop before it makes one.            *)
LEMMA OwnStop ==
  ASSUME IInv, NEW i \in Image, Announced(i), StepOf(i)
  PROVE  Announced(i)'
<1> USE DEF IInv, TypeOK, LifeOf, Announced, Alive
<1>1. CASE Start(i)
  BY <1>1 DEF Start
<1>2. CASE Stop(i)
  BY <1>2 DEF Stop
<1>3. CASE StopStep(i)
  BY <1>3 DEF StopStep, Join, ShutHooks, ShutLdd, CloseSocket, ForgetSocket, Unload
<1>4. CASE LddInit(i) \/ Bind(i) \/ WaitReady(i) \/ Install(i) \/ LeaveLoop(i)
  <2>1. UNCHANGED <<module, shutdown>> /\ phase'[i] # "none"
    BY <1>4 DEF LddInit, Bind, WaitReady, Install, LeaveLoop, ExitThread
  <2>2. QED  BY <2>1
<1>5. CASE UNCHANGED <<module, shutdown, phase>>
  BY <1>5
<1>6. QED
  BY <1>1, <1>2, <1>3, <1>4, <1>5
     DEF StepOf, WorkerStep, Round, OpdRegisterLdd, OpdTransfer, LddAttach, LddDetach

LEMMA AnnouncedStep ==
  IInv /\ (\A j \in Image : Announced(j)) /\ [Next]_vars
    => \A j \in Image : Announced(j)'
<1> SUFFICES ASSUME IInv, \A j \in Image : Announced(j), [Next]_vars,
                    NEW j \in Image
             PROVE  Announced(j)'
  OBVIOUS
<1>1. CASE UNCHANGED vars
  BY <1>1 DEF vars, Announced, Alive
<1>2. ASSUME NEW i \in Image, StepOf(i) PROVE Announced(j)'
  <2>1. CASE i = j
    BY <1>2, <2>1, OwnStop
  <2>2. CASE i # j
    BY <1>2, <2>2, OthersStop DEF Announced, Alive
  <2>3. QED  BY <2>1, <2>2
<1>3. QED  BY <1>1, <1>2 DEF Next, StepOf

LEMMA StopLeftRange ==
  ASSUME NEW i
  PROVE  StopLeft(i) \in 0 .. 12
BY DEF StopLeft, PhaseLeft, ModuleLeft

(* After the announcement each step of the worker and of the stop is one   *)
(* fewer to make.                                                          *)
LEMMA StopLeftLess ==
  ASSUME IInv, NEW i \in Image, shutdown[i], WorkerStep(i) \/ StopStep(i)
  PROVE  StopLeft(i)' < StopLeft(i)
<1> USE DEF StopLeft, PhaseLeft, ModuleLeft
<1>1. CASE StopStep(i)
  <2>1. /\ phase' = phase
        /\ \/ module[i] = "joining" /\ module'[i] = "hooks"
           \/ module[i] = "hooks" /\ module'[i] = "ldd"
           \/ module[i] = "ldd" /\ module'[i] = "network"
           \/ module[i] = "network" /\ module'[i] = "closing"
           \/ module[i] = "closing" /\ module'[i] = "closed"
           \/ module[i] = "closed" /\ module'[i] = "gone"
    BY <1>1 DEF IInv, TypeOK, StopStep, Join, ShutHooks, ShutLdd, CloseSocket,
                ForgetSocket, Unload
  <2>2. QED  BY <2>1
<1>2. CASE WorkerStep(i)
  <2>1. /\ module' = module
        /\ \/ phase[i] = "ldd" /\ phase'[i] = "bind"
           \/ phase[i] = "bind" /\ phase'[i] \in {"wait", "exited"}
           \/ phase[i] = "wait" /\ phase'[i] = "retry"
           \/ phase[i] = "retry" /\ phase'[i] = "install"
           \/ phase[i] = "install" /\ phase'[i] = "loop"
           \/ phase[i] = "loop" /\ phase'[i] = "exited"
    BY <1>2 DEF IInv, TypeOK, WorkerStep, LddInit, Bind, WaitReady, Install, Round,
                LeaveLoop, ExitThread
  <2>2. QED  BY <2>1
<1>3. QED  BY <1>1, <1>2

(* Whatever else happens makes it no longer: nobody starts a worker in an  *)
(* image that is being stopped.                                            *)
LEMMA StopLeftKept ==
  ASSUME IInv, NEW i \in Image, shutdown[i], Announced(i), [Next]_vars
  PROVE  StopLeft(i)' <= StopLeft(i)
<1>0. StopLeft(i) <= StopLeft(i)
  BY StopLeftRange
<1>1. CASE module'[i] = module[i] /\ phase'[i] = phase[i]
  BY <1>0, <1>1 DEF StopLeft, PhaseLeft, ModuleLeft
<1>2. CASE UNCHANGED vars
  BY <1>1, <1>2 DEF vars
<1>3. ASSUME NEW j \in Image, StepOf(j) PROVE StopLeft(i)' <= StopLeft(i)
  <2>1. CASE i # j
    BY <1>1, <1>3, <2>1, OthersStop
  <2>2. CASE i = j /\ (WorkerStep(i) \/ StopStep(i))
    <3>1. StopLeft(i)' < StopLeft(i)
      BY <2>2, StopLeftLess
    <3>2. StopLeft(i) \in 0 .. 12 /\ StopLeft(i)' \in 0 .. 12
      BY StopLeftRange DEF StopLeft, PhaseLeft, ModuleLeft
    <3>3. QED  BY <3>1, <3>2
  <2>3. CASE i = j /\ (Start(i) \/ Stop(i))
    BY <2>3 DEF Announced, Start, Stop
  <2>4. CASE UNCHANGED <<module, phase>>
    BY <1>1, <2>4
  <2>5. QED
    BY <1>3, <2>1, <2>2, <2>3, <2>4
       DEF StepOf, OpdRegisterLdd, OpdTransfer, LddAttach, LddDetach
<1>4. QED  BY <1>2, <1>3 DEF Next, StepOf

(* A stop is announced before the worker is waited for, the worker is one  *)
(* that will exit, and from the announcement on every step of either is    *)
(* one of at most twelve: module_stop (main.c) cannot go round in circles. *)
THEOREM StopIsBounded ==
  Spec => /\ [](\A i \in Image :
                  /\ StopLeft(i) \in 0 .. 12
                  /\ module[i] = "joining" => shutdown[i] /\ phase[i] # "none")
          /\ [][\A i \in Image :
                  shutdown[i] =>
                    /\ WorkerStep(i) \/ StopStep(i) => StopLeft(i)' < StopLeft(i)
                    /\ StopLeft(i)' <= StopLeft(i)]_vars
<1> DEFINE A == \A i \in Image : Announced(i)
           P == \A i \in Image :
                  /\ StopLeft(i) \in 0 .. 12
                  /\ module[i] = "joining" => shutdown[i] /\ phase[i] # "none"
           S == \A i \in Image :
                  shutdown[i] =>
                    /\ WorkerStep(i) \/ StopStep(i) => StopLeft(i)' < StopLeft(i)
                    /\ StopLeft(i)' <= StopLeft(i)
<1>1. Init => A
  BY AnnouncedInit
<1>2. IInv /\ A /\ [Next]_vars => A'
  BY AnnouncedStep
<1>3. A => P
  BY StopLeftRange DEF Announced, Alive
<1>4. IInv /\ A /\ [Next]_vars => [S]_vars
  BY StopLeftLess, StopLeftKept
<1> HIDE DEF A, P, S
<1>5. Spec => []P /\ [][S]_vars
  BY <1>1, <1>2, <1>3, <1>4, LivesAreOrderly, PTL DEF Spec
<1>6. QED  BY <1>5 DEF P, S

=============================================================================
