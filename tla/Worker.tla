------------------------------- MODULE Worker -------------------------------
(***************************************************************************)
(* The life of the plugin: module_start, the worker thread and module_stop *)
(* of sprx-plugin/main.c, with the network state of network.c, the USB     *)
(* driver (an "extra LDD") of ldd_driver.c and the hooks of opd_hooks.c,   *)
(* which are the fallback for those of usb_hooks.c.                        *)
(*                                                                         *)
(* The injector may load the plugin again: each load is an image with its  *)
(* own globals, and nothing makes it stop the image loaded before.  All    *)
(* run in the game's process, whose USB entry points belong to the first   *)
(* image that found and patched them.                                      *)
(***************************************************************************)
EXTENDS Integers

CONSTANTS
  Image,     \* the times the plugin is loaded
  NoImage,   \* nobody has patched the game
  Device,    \* USB devices with the IDs the driver is registered for
  NoDevice   \* the driver has claimed none

ASSUME WorkerAssumption == NoImage \notin Image /\ NoDevice \notin Device

VARIABLES
  module,    \* where each image is in its life, see Module
  tid,       \* g_worker_tid is valid
  shutdown,  \* g_shutdown
  threads,   \* worker threads alive
  phase,     \* where the worker is, see Phase
  sock,      \* the image has a socket bound to port 28472
  online,    \* network_send's guard: initialized, socket_fd >= 0, server_known
  kind,      \* the hooks that were installed
  fallback,  \* use_opd_fallback
  ops,       \* OPD hooks: the game's LddOps are known
  hotplug,   \* hotplug_fired
  outbox,    \* OPD hooks: g_out_new, an OUT report waits for the worker
  inbox,     \* OPD hooks: g_in_ready, an IN report waits for the game
  patched,   \* the image the game's USB calls go to
  registered,  \* g_ldd.registered
  claimed,     \* g_ldd.device: the device the driver was attached to last
  extra,       \* the kernel: images whose driver it knows
  attached,    \* the kernel: the devices each image's driver has
  refused      \* history: the kernel refused to give up an image's driver

opd  == <<ops, hotplug, outbox, inbox>>
ldd  == <<registered, claimed, extra, attached, refused>>
vars == <<module, tid, shutdown, threads, phase, sock, online, kind, fallback,
          opd, patched, ldd>>

(* From "joining" to "closed" are the stages of module_stop; an image that  *)
(* is "gone" has been unloaded.                                            *)
Module == {"absent", "resident", "joining", "hooks", "ldd", "network", "closing",
           "closed", "gone"}
Phase  == {"none", "ldd", "bind", "wait", "retry", "install", "loop", "exited"}

TypeOK ==
  /\ module \in [Image -> Module]
  /\ phase \in [Image -> Phase]
  /\ threads \in [Image -> Nat]
  /\ kind \in [Image -> {"none", "usb", "opd"}]
  /\ tid \in [Image -> BOOLEAN] /\ shutdown \in [Image -> BOOLEAN]
  /\ sock \in [Image -> BOOLEAN] /\ online \in [Image -> BOOLEAN]
  /\ fallback \in [Image -> BOOLEAN] /\ ops \in [Image -> BOOLEAN]
  /\ hotplug \in [Image -> BOOLEAN] /\ outbox \in [Image -> BOOLEAN]
  /\ inbox \in [Image -> BOOLEAN]
  /\ patched \in Image \union {NoImage}
  /\ registered \in [Image -> BOOLEAN] /\ extra \subseteq Image
  /\ claimed \in [Image -> Device \union {NoDevice}]
  /\ attached \in [Image -> SUBSET Device]
  /\ refused \in [Image -> BOOLEAN]

Nowhere == [i \in Image |-> FALSE]

Init ==
  /\ module = [i \in Image |-> "absent"]
  /\ phase = [i \in Image |-> "none"]
  /\ threads = [i \in Image |-> 0]
  /\ kind = [i \in Image |-> "none"]
  /\ tid = Nowhere /\ shutdown = Nowhere /\ sock = Nowhere /\ online = Nowhere
  /\ fallback = Nowhere /\ ops = Nowhere /\ hotplug = Nowhere
  /\ outbox = Nowhere /\ inbox = Nowhere
  /\ patched = NoImage
  /\ registered = Nowhere /\ refused = Nowhere /\ extra = {}
  /\ claimed = [i \in Image |-> NoDevice]
  /\ attached = [i \in Image |-> {}]

-----------------------------------------------------------------------------
(* module_start.                                                           *)

(* Mutant: every call creates a thread.                                    *)
StartAgain(i) ==
  /\ module[i] \in {"absent", "resident"} /\ threads[i] < 2
  /\ module' = [module EXCEPT ![i] = "resident"]
  /\ tid' = [tid EXCEPT ![i] = TRUE]
  /\ threads' = [threads EXCEPT ![i] = @ + 1]
  /\ phase' = [phase EXCEPT ![i] = "ldd"]
  /\ UNCHANGED <<shutdown, sock, online, kind, fallback, opd, patched, ldd>>

(* PS3MAPI may call it several times; only the first call creates a worker.*)
(* If that fails the image does not stay resident.                         *)
Start(i) ==
  /\ module[i] \in {"absent", "resident"} /\ ~tid[i]
  /\ \/ /\ module' = [module EXCEPT ![i] = "resident"]
        /\ tid' = [tid EXCEPT ![i] = TRUE]
        /\ threads' = [threads EXCEPT ![i] = @ + 1]
        /\ phase' = [phase EXCEPT ![i] = "ldd"]
     \/ /\ module' = [module EXCEPT ![i] = "gone"]
        /\ UNCHANGED <<tid, threads, phase>>
  /\ UNCHANGED <<shutdown, sock, online, kind, fallback, opd, patched, ldd>>

-----------------------------------------------------------------------------
(* worker_thread.                                                          *)

ExitThread(i) ==
  /\ phase' = [phase EXCEPT ![i] = "exited"]
  /\ threads' = [threads EXCEPT ![i] = @ - 1]

(* ldd_driver_init, which the worker tries first of all and again when the *)
(* network is up: loads and initialises the USB library and registers the  *)
(* driver, each of which may fail.                                         *)
LddInit(i) ==
  /\ phase[i] \in {"ldd", "retry"}
  /\ phase' = [phase EXCEPT ![i] = IF @ = "ldd" THEN "bind" ELSE "install"]
  /\ \/ registered[i] /\ UNCHANGED <<registered, claimed, extra>>
     \/ /\ ~registered[i] /\ claimed' = [claimed EXCEPT ![i] = NoDevice]
        /\ \E done \in BOOLEAN :
             /\ registered' = [registered EXCEPT ![i] = done]
             /\ extra' = IF done THEN extra \union {i} ELSE extra
  /\ UNCHANGED <<module, tid, shutdown, threads, sock, online, kind, fallback,
                 opd, patched, attached, refused>>

(* network_init: SO_REUSEADDR lets a bind succeed that finds the port in   *)
(* use; after 120 failures the worker gives up.                            *)
Bind(i) ==
  /\ phase[i] = "bind"
  /\ \/ /\ sock' = [sock EXCEPT ![i] = TRUE]
        /\ phase' = [phase EXCEPT ![i] = "wait"]
        /\ UNCHANGED threads
     \/ ExitThread(i) /\ UNCHANGED sock
  /\ UNCHANGED <<module, tid, shutdown, online, kind, fallback, opd, patched,
                 ldd>>

(* Mutant: hooks before the network.                                       *)
SkipWait(i) ==
  /\ phase[i] = "wait"
  /\ phase' = [phase EXCEPT ![i] = "retry"]
  /\ UNCHANGED <<module, tid, shutdown, threads, sock, online, kind, fallback,
                 opd, patched, ldd>>

(* network_wait_ready and network_set_server.                              *)
WaitReady(i) ==
  /\ phase[i] = "wait"
  /\ online' = [online EXCEPT ![i] = TRUE]
  /\ phase' = [phase EXCEPT ![i] = "retry"]
  /\ UNCHANGED <<module, tid, shutdown, threads, sock, kind, fallback, opd,
                 patched, ldd>>

(* The hooks of usb_hooks.c or, if they cannot be installed, those of      *)
(* opd_hooks.c.  Entry points that another image has patched are no longer *)
(* recognised; usb_hook_init reports success even if it recognised none.   *)
(* Whether the loop serves the fallback hooks depends on the return code   *)
(* of the last initialisation tried.                                       *)
Install(i) ==
  /\ phase[i] = "install"
  /\ \E usb, fall \in {0, -1} :
       LET ret  == IF usb = 0 THEN usb ELSE fall
           mine == IF patched = NoImage THEN i ELSE patched
       IN  /\ \/ /\ usb = 0
                 /\ kind' = [kind EXCEPT ![i] = "usb"]
                 /\ patched' \in {patched, mine} /\ UNCHANGED ops
              \/ /\ usb # 0 /\ fall = 0
                 /\ kind' = [kind EXCEPT ![i] = "opd"]
                 /\ patched' = mine
                 /\ \E found \in BOOLEAN : ops' = [ops EXCEPT ![i] = found]
              \/ /\ usb # 0 /\ fall # 0
                 /\ UNCHANGED <<kind, patched, ops>>
           /\ fallback' = [fallback EXCEPT ![i] = ret # 0]
  /\ phase' = [phase EXCEPT ![i] = "loop"]
  /\ UNCHANGED <<module, tid, shutdown, threads, sock, online, hotplug, outbox,
                 inbox, ldd>>

(* One round of the main loop: hotplug, the OUT report to the server, a    *)
(* datagram to the IN mailbox, heartbeat.  (The deferred attach for the    *)
(* other hooks is module UsbHooks.)                                        *)
Round(i) ==
  /\ phase[i] = "loop" /\ ~shutdown[i]
  /\ \E fired, received \in BOOLEAN :
       /\ hotplug' = [hotplug EXCEPT ![i] = @ \/ (fallback[i] /\ ops[i] /\ fired)]
       /\ inbox' = [inbox EXCEPT ![i] =
                     @ \/ (fallback[i] /\ kind[i] = "opd" /\ received)]
  /\ outbox' = [outbox EXCEPT ![i] = @ /\ ~fallback[i]]
  /\ UNCHANGED <<module, tid, shutdown, threads, phase, sock, online, kind,
                 fallback, ops, patched, ldd>>

(* Mutant: the loop runs as long as there is a network.                    *)
LeaveOffline(i) ==
  /\ phase[i] = "loop" /\ shutdown[i] /\ ~online[i]
  /\ ExitThread(i)
  /\ UNCHANGED <<module, tid, shutdown, sock, online, kind, fallback, opd,
                 patched, ldd>>

LeaveLoop(i) ==
  /\ phase[i] = "loop" /\ shutdown[i]
  /\ ExitThread(i)
  /\ UNCHANGED <<module, tid, shutdown, sock, online, kind, fallback, opd,
                 patched, ldd>>

-----------------------------------------------------------------------------
(* module_stop, before the image is unloaded.                              *)

Stop(i) ==
  /\ module[i] = "resident"
  /\ module' = [module EXCEPT ![i] = "joining"]
  /\ shutdown' = [shutdown EXCEPT ![i] = TRUE]
  /\ UNCHANGED <<tid, threads, phase, sock, online, kind, fallback, opd, patched,
                 ldd>>

(* Mutant: the worker is told to stop and not waited for.                  *)
Detach(i) ==
  /\ module[i] = "joining"
  /\ tid' = [tid EXCEPT ![i] = FALSE]
  /\ module' = [module EXCEPT ![i] = "hooks"]
  /\ UNCHANGED <<shutdown, threads, phase, sock, online, kind, fallback, opd,
                 patched, ldd>>

Join(i) ==
  /\ module[i] = "joining" /\ (tid[i] => phase[i] = "exited")
  /\ tid' = [tid EXCEPT ![i] = FALSE]
  /\ module' = [module EXCEPT ![i] = "hooks"]
  /\ UNCHANGED <<shutdown, threads, phase, sock, online, kind, fallback, opd,
                 patched, ldd>>

(* opd_hooks_shutdown forgets the LddOps, usb_hook_shutdown the pipes;     *)
(* neither touches what was patched in the game.                           *)
ShutHooks(i) ==
  /\ module[i] = "hooks"
  /\ module' = [module EXCEPT ![i] = "ldd"]
  /\ ops' = [ops EXCEPT ![i] = FALSE]
  /\ UNCHANGED <<tid, shutdown, threads, phase, sock, online, kind, fallback,
                 hotplug, outbox, inbox, patched, ldd>>

(* Mutant: without a device there is nothing to unregister.                *)
ShutLddIdle(i) ==
  /\ module[i] = "ldd"
  /\ module' = [module EXCEPT ![i] = "network"]
  /\ registered' = [registered EXCEPT ![i] = FALSE]
  /\ claimed' = [claimed EXCEPT ![i] = NoDevice]
  /\ \/ /\ registered[i] /\ claimed[i] # NoDevice /\ extra' = extra \ {i}
        /\ attached' = [attached EXCEPT ![i] = {}]
     \/ claimed[i] = NoDevice /\ UNCHANGED <<extra, attached>>
  /\ UNCHANGED <<tid, shutdown, threads, phase, sock, online, kind, fallback,
                 opd, patched, refused>>

(* ldd_driver_shutdown: the kernel gives up the driver and takes its       *)
(* devices from it, or refuses to, which is only logged: the image forgets *)
(* the driver either way.                                                  *)
ShutLdd(i) ==
  /\ module[i] = "ldd"
  /\ module' = [module EXCEPT ![i] = "network"]
  /\ registered' = [registered EXCEPT ![i] = FALSE]
  /\ claimed' = [claimed EXCEPT ![i] = NoDevice]
  /\ \/ /\ registered[i] /\ extra' = extra \ {i}
        /\ attached' = [attached EXCEPT ![i] = {}] /\ UNCHANGED refused
     \/ /\ registered[i] /\ refused' = [refused EXCEPT ![i] = TRUE]
        /\ UNCHANGED <<extra, attached>>
     \/ ~registered[i] /\ UNCHANGED <<extra, attached, refused>>
  /\ UNCHANGED <<tid, shutdown, threads, phase, sock, online, kind, fallback,
                 opd, patched>>

(* network_shutdown closes the socket first ...                            *)
CloseSocket(i) ==
  /\ module[i] = "network"
  /\ module' = [module EXCEPT ![i] = "closing"]
  /\ sock' = [sock EXCEPT ![i] = FALSE]
  /\ UNCHANGED <<tid, shutdown, threads, phase, online, kind, fallback, opd,
                 patched, ldd>>

(* ... and then forgets it; from here on network_send returns at once.     *)
ForgetSocket(i) ==
  /\ module[i] = "closing"
  /\ module' = [module EXCEPT ![i] = "closed"]
  /\ online' = [online EXCEPT ![i] = FALSE]
  /\ UNCHANGED <<tid, shutdown, threads, phase, sock, kind, fallback, opd,
                 patched, ldd>>

(* debug_shutdown, the return from module_stop and the unloading.          *)
Unload(i) ==
  /\ module[i] = "closed"
  /\ module' = [module EXCEPT ![i] = "gone"]
  /\ UNCHANGED <<tid, shutdown, threads, phase, sock, online, kind, fallback,
                 opd, patched, ldd>>

-----------------------------------------------------------------------------
(* The kernel calls the driver (ldd_probe, ldd_attach, ldd_detach).  What  *)
(* a call into an image that was unloaded does is not modelled.            *)
Callable(i) == i \in extra /\ module[i] # "gone"

(* Every device is claimed; a second one takes the place of the first.     *)
LddAttach(i, d) ==
  /\ Callable(i) /\ \A j \in Image : d \notin attached[j]
  /\ attached' = [attached EXCEPT ![i] = @ \union {d}]
  /\ claimed' = [claimed EXCEPT ![i] = d]
  /\ UNCHANGED <<module, tid, shutdown, threads, phase, sock, online, kind,
                 fallback, opd, patched, registered, extra, refused>>

(* Another device than the one claimed is ignored.                         *)
LddDetach(i, d) ==
  /\ Callable(i) /\ d \in attached[i]
  /\ attached' = [attached EXCEPT ![i] = @ \ {d}]
  /\ claimed' = [claimed EXCEPT ![i] = IF @ = d THEN NoDevice ELSE @]
  /\ UNCHANGED <<module, tid, shutdown, threads, phase, sock, online, kind,
                 fallback, opd, patched, registered, extra, refused>>

-----------------------------------------------------------------------------
(* The game calls the OPD hooks of the image it is patched to.  They do    *)
(* not look at g_hooks_active; in an image that is gone there is nothing   *)
(* left to call.                                                           *)
Reached(i) == patched = i /\ kind[i] = "opd" /\ module[i] # "gone"

OpdRegisterLdd(i) ==
  /\ Reached(i) /\ ~ops[i]
  /\ ops' = [ops EXCEPT ![i] = TRUE]
  /\ UNCHANGED <<module, tid, shutdown, threads, phase, sock, online, kind,
                 fallback, hotplug, outbox, inbox, patched, ldd>>

(* An OUT report replaces the one that waits, an IN takes what is there.   *)
OpdTransfer(i) ==
  /\ Reached(i)
  /\ \/ outbox' = [outbox EXCEPT ![i] = TRUE] /\ UNCHANGED inbox
     \/ inbox' = [inbox EXCEPT ![i] = FALSE] /\ UNCHANGED outbox
  /\ UNCHANGED <<module, tid, shutdown, threads, phase, sock, online, kind,
                 fallback, ops, hotplug, patched, ldd>>

-----------------------------------------------------------------------------
WorkerStep(i) ==
  LddInit(i) \/ Bind(i) \/ WaitReady(i) \/ Install(i) \/ Round(i) \/ LeaveLoop(i)

StopStep(i) ==
  \/ Join(i) \/ ShutHooks(i) \/ ShutLdd(i)
  \/ CloseSocket(i) \/ ForgetSocket(i) \/ Unload(i)

Next ==
  \E i \in Image :
    \/ Start(i) \/ WorkerStep(i) \/ Stop(i) \/ StopStep(i)
    \/ OpdRegisterLdd(i) \/ OpdTransfer(i)
    \/ \E d \in Device : LddAttach(i, d) \/ LddDetach(i, d)

Spec == Init /\ [][Next]_vars

(* The worker is scheduled and its waits are bounded (12 and 5 seconds, and*)
(* the rounds of the search in module Install); a stop that began goes on. *)
FairSpec ==
  Spec /\ \A i \in Image : WF_vars(WorkerStep(i)) /\ WF_vars(StopStep(i))

-----------------------------------------------------------------------------
(* Properties.                                                             *)

(* Before and after the parts of a stop that take something down.          *)
Alive(i)  == module[i] \in {"resident", "joining"}
Closed(i) == module[i] \in {"closing", "closed", "gone"}

(* "Only create one worker thread to avoid port binding conflicts"         *)
(* (main.c:77), however often an image is started; and no worker runs in   *)
(* an image that was unloaded.                                             *)
OneWorker ==
  \A i \in Image :
    /\ threads[i] = IF phase[i] \in {"none", "exited"} THEN 0 ELSE 1
    /\ threads[i] > 0 => module[i] \in {"resident", "joining"}

(* The loop's heartbeats never use a socket that a stop has closed, or an  *)
(* interface that is not up.                                               *)
WorkerIsOnline == \A i \in Image : phase[i] = "loop" => sock[i] /\ online[i]

(* From their installation until network_shutdown (main.c:119) hooks have  *)
(* the network they use.  Nothing takes them back, so the game can reach   *)
(* them until the image is unloaded; but a hook that then begins to send   *)
(* finds the socket closed while it believes in it only inside             *)
(* network_shutdown, between socketclose and socket_fd = -1.               *)
HooksAreOnline ==
  \A i \in Image :
    kind[i] # "none" =>
      /\ ~Closed(i) => sock[i] /\ online[i]
      /\ online[i] /\ ~sock[i] => module[i] = "closing"

(* The kernel is left with the driver of an image that is unloaded only if *)
(* it refused to give it up (ldd_driver.c:166-173), never because a stop   *)
(* or a failed registration lost track of it; and the device an image      *)
(* takes for its own is one that its driver has.                           *)
DriverIsLoaded ==
  \A i \in Image :
    /\ i \in extra => registered[i] \/ refused[i]
    /\ i \in extra /\ module[i] \in {"absent", "gone"} => refused[i]
    /\ claimed[i] # NoDevice => claimed[i] \in attached[i]

(* The inductive invariant.                                                *)
LifeOf(i) ==
  /\ tid[i] <=> Alive(i)
  /\ phase[i] \notin {"none", "exited"} => Alive(i)
  /\ phase[i] \in {"wait", "retry", "install", "loop"} => sock[i]
  /\ phase[i] \in {"retry", "install", "loop"} => online[i]
  /\ kind[i] # "none" =>
       /\ phase[i] \in {"loop", "exited"}
       /\ module[i] # "absent"
       /\ ~Closed(i) => sock[i] /\ online[i]
  /\ online[i] /\ ~sock[i] => module[i] = "closing"
  /\ module[i] = "absent" => phase[i] = "none"
  /\ registered[i] => i \in extra
  /\ registered[i] => module[i] \in {"resident", "joining", "hooks", "ldd"}
  /\ i \in extra => registered[i] \/ refused[i]
  /\ refused[i] => module[i] = "network" \/ Closed(i)
  /\ attached[i] # {} => i \in extra
  /\ claimed[i] # NoDevice => claimed[i] \in attached[i]

IInv == TypeOK /\ OneWorker /\ \A i \in Image : LifeOf(i)

(* A stop gets through: the worker sees g_shutdown whatever it is doing,   *)
(* and the image is unloaded.                                              *)
StopCompletes ==
  \A i \in Image : (module[i] = "joining") ~> (module[i] = "gone")

(* "With OPD hooks (fallback), the loop also handles HID forwarding"       *)
(* (main.c:268): an OUT report the OPD hooks took from the game goes to    *)
(* the server, unless the plugin is stopped.                               *)
OpdReportsAreForwarded ==
  \A i \in Image : outbox[i] ~> (~outbox[i] \/ shutdown[i])

=============================================================================
