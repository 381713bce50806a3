# LD-ToyPad Bridge: TLA+ verification project

The repository replaces a LEGO Dimensions Toy Pad by software: a plugin in the
game's process on the console hooks the USB calls of the game and talks UDP to
a server on a PC, where users put virtual toys on a virtual pad. This directory
holds TLA+ models of that program, TLC runs over small instances of them, and
TLAPS proofs for every instance. All paths below are relative to the
repository.

## 1. Inventory

### Components, their state and their operations

| Component | State | Operations |
|---|---|---|
| USB hooks, `sprx-plugin/usb_hooks.c` | pool of 8 fake pipes, counter `next_pipe_id`, stolen LddOps, trampoline page | open, close, interrupt and control transfers, descriptor and registration hooks, installation and ready file, shutdown |
| Trampolines, `sprx-plugin/trampoline_gen.c` | 16 instructions per hook | save, swap and restore the TOC around a hook |
| OPD hooks, `sprx-plugin/opd_hooks.c` | LddOps of the game, one OUT and one IN mailbox | registration hook, interrupt hook, hotplug, fetch/push, scan, shutdown |
| Worker, `sprx-plugin/main.c` | thread id, `g_shutdown`, fallback flag, one-shot triggers | `module_start`, start-up chain, main loop, calls into the game, `module_stop` |
| Plugin networking, `sprx-plugin/network.c` | socket, own address, server address, probe and heartbeat times | bind, wait for the interface, beacon salvo, send, receive, heartbeat, probe, shutdown |
| Pad descriptors, `sprx-plugin/toypad_state.c` | constant tables, a response buffer | control and interrupt transfers on behalf of the hooks |
| LDD driver, `sprx-plugin/ldd_driver.c` | registered flag, the device claimed last | probe, attach, detach, init, shutdown |
| Virtual pad, `ld-toypad-server/virtual-toys.js` | three zones of 3, 1 and 3 slots; the catalogue | place, remove, read a zone with a hint |
| UDP server, `ld-toypad-server/server.js` | client address, beacon timer | packet handler, beacons |
| HTTP API, telemetry, CLI, `ld-toypad-server/server.js` | last LED packet and inferred zones | place, remove, status, commands |
| Web UI, `ld-toypad-server/web/app.js` | copy of the zones, glow times, modal | refresh, place, remove |
| Injector, `ld-toypad-server/scripts/inject-sprx.js` | process it works on, the page it read | unload, load, wait for the ready file, redirect libusbd |
| Pairing daemon, `deck/ds3-pair-daemon.c` | flags and address shared by three threads, the pairing file, the USB gadget | control, input and main thread, clean-up |
| Gamepad daemon, overlay, scripts, analysis tools | none of interest | event forwarding, another program's user interface, one-shot tools |

### How they interact

* The injector loads the plugin into the game's process, possibly again. The
  plugin patches words of the game's memory and publishes its trampoline page
  in a file; the injector reads the file and patches libusbd itself.
* The game's USB thread then runs the hooks through the trampolines. An
  interrupt IN transfer sends a POLL datagram, takes at most one datagram from
  the socket and wakes the game with `done_cb`, inside the hook; an OUT
  transfer sends DATA_OUT.
* The worker thread shares the hooks' state without a lock: it fires the
  game's own `attach`, which opens pipes, and sends heartbeats. The kernel
  calls its driver back when a device is plugged in.
* The server is one event loop: packet handler, HTTP handlers, CLI and timer
  are callbacks that do not interleave. Each datagram is answered once.
* Users edit the pad through HTTP or the CLI; a poll reads it.
* While it has no client the server broadcasts a beacon every second, and
  hears its own broadcasts.
* Independently of all this, the pairing daemon makes a Deck pose as a
  DualShock 3 on USB and saves the Bluetooth address the console tells it; a
  shell script starts it and looks at its exit code and the file.

### What is hard

* Datagrams are lost, delayed, reordered and dropped from full buffers, and
  nothing retries or matches replies to requests: the game sees the answer to
  some earlier poll. Whatever it sees must have been true, and recent enough.
* Two threads work on the pipe pool and its counter without a lock.
* The server may restart at any time and forgets everything.
* Starts, stops and second loads of the plugin meet a worker in waits of
  minutes that do not look at the stop flag, and a game that stays patched.
* The game runs while it is patched, and may end at any step; the ready file
  outlives it.
* Hooks are entered from foreign code, call foreign code and are called again
  from there, with three different TOCs.
* The pairing daemon's threads share plain globals and block in reads that only
  the clean-up after their join would end.

`PROJECT.json` lists each of these hazards at its line with the properties
that cover it, and says why where none does.

### What makes each component correct

* Path of a toy (pad, server, network, hooks): nothing is shown that was not
  on the pad; on an ordered network nothing is shown out of order; what is
  placed is shown, what is removed for good stops being shown.
* Pipe pool: a handle the game holds leads to its own endpoint's slot and was
  never given out before; no slot is lost; every interrupt transfer completes.
* Registration: the client really spoke and is none of the addresses to skip;
  beacons stop; everybody who talks is answered; the server's answers to itself
  do not multiply.
* Life of the plugin: one worker per image; the network is up before the hooks
  and the loop, and until `network_shutdown`; the kernel knows the driver of an
  unloaded image only if it refused to give it up; a stop gets through.
* Installation: a redirected call always finds complete hooks of its own
  process; the ready file names finished work only; every wait ends.
* Calls: everybody runs with its own TOC and returns to its caller; arguments,
  results and preserved registers get through the hand-written code.
* Pairing: what is saved is one console's whole address or, after a failed write
  or a kill, its first bytes; the exit code never denies a pairing that was
  saved; a gadget is served from when it is bound until the daemon stops;
  whoever waited for the threads leaves nothing mounted.

## 2. Modules

| Module | Models | Used by |
|---|---|---|
| `VirtualToys` | zones and their slots, place, remove, read | `Bridge` (EXTENDS), `VirtualToys_proofs` |
| `ToyPad` | what the game is promised: reports that show the pad of some moment | `Bridge` (INSTANCE) |
| `Bridge` | poll, reply, receive; OUT reports, heartbeats, beacons, edits, restarts | `MCBridge`, `Bridge_proofs` |
| `UsbHooks` | pipe pool and counter, step by step, for two threads | `MCUsbHooks`, `UsbHooks_proofs` |
| `PipeTable` | what callers of the pool are promised: numbers given out once, opens refused only when it is full | `UsbHooks` (INSTANCE) |
| `Registration` | beacons, echoes, client registration, answers | `MCRegistration`, `Registration_proofs` |
| `Worker` | starts, start-up chain, USB driver, main loop, fallback mailboxes, stops, second loads | `MCWorker`, `Worker_proofs` |
| `Publication` | what the ready file promises its reader | `Install` (INSTANCE) |
| `Install` | the plugin's installation, the ready file, the injector, the game that ends and returns | `MCInstall`, `Install_proofs` |
| `Calls` | trampolines executed from their encodings; hooks, libusbd, callbacks, the worker's assembly | `MCCalls`, `Calls_proofs` |
| `Pairing` | the pairing daemon's three threads, the console, signals and kills | `MCPairing`, `Pairing_proofs` |

The `MC*` modules give the constants values that a `.cfg` cannot write. The
`*_proofs` modules hold the theorems, their lemmas and the measures these count
with. Operators marked "Mutant" are faulty forms of the definition they stand
before: no specification uses them; they show that a property would notice the
fault.

### Bridge, VirtualToys, ToyPad

An IN transfer is two actions, `InPoll` and `InReceive`, so everything else can
happen between the send and the receive (usb_hooks.c:770 and 773). The network
is two sequences of datagrams in flight, the socket buffer a third. `Sent`
loses the new datagram, appends it, or on a full link pushes out the oldest;
`Arrive` drops what does not fit the socket buffer; with `Ordered = FALSE` any
datagram in flight may be next. `Handle` is the message handler with
`processPacket` for the three requests the plugin's loop and hooks send.
`ReportOf` is the whole decision of the IN hook: status byte 0 copies the
payload, anything else gives the 0x55 dummy. A reply to OUT data has status 0
and a payload of zeroes, hence `Blank`.

Left out: the sequence byte of requests (nothing reads it but `getZoneState`,
which gets any hint of `Hints`), packet layouts, tag bytes, the telemetry that
OUT data updates, read and write tag requests (nothing in the repository sends
them), the trace that `network_recv` writes to a file, and `--delay`, which
lengthens a reply's way but does not change it.

`padLog`, `shown` and the `at` of a datagram are history variables. They tie
what the game sees to what was on the pad, and no action reads them to decide
anything.

`ToyPad` is the promise: the pad changes, and a report shows nothing or an
entry of the log of its contents, never an earlier one than last time if the
network keeps order. `IsAToyPad` states that `Bridge` implements it; the
refinement mapping is the identity on `padLog`, `report` and `shown`.

### UsbHooks

The increments of `next_pipe_id` are a `Load` and a store, and `alloc_pipe` is
taken apart where its accesses to shared memory are: `Scan` one slot at a time,
`Claim`, then `Label` for what `OpenPipe` writes afterwards. Transfers of the
game's thread use the same counter. The worker calls the hooks only inside the
one attach it fires (`Trigger`, `AttachReturns`). `due` is a transfer that was
accepted and whose `done_cb` has not been called.

Nothing in the code prevents the worker's attach from overlapping the game's
calls, nor the counter from wrapping after 2^32 transfers, and after either the
pool really may hold the same handle twice. The properties of the pool
therefore hold `Calm`: until calls have overlapped or the counter has wrapped.
`overlapped` and `wrapped` record that and are read by no action.
`InterruptsComplete` has no such limit.

`PipeTable` is the pool for a caller: it draws a number that is greater than
all before, enters it for an endpoint that has none or refuses because the table
is full, and deletes an entry when it is closed. `IsAPipeTable` states that the
pool implements it while `Calm`. The refinement mapping takes the table from
what the game holds (`HandlesOut`), not from the slots, the last number from
`next`, and `drawn` from a thread that is inside `alloc_pipe` (`Drawn`); the
scan and the write to the slot are stutters, the return is the step.

Left out: control transfers and the descriptor hook, pass-through to the real
USB stack (no state of the plugin changes), and shutdown.

### Registration

`Talk` is any machine sending a packet, `Receive` the arrival of what the
server sent. The broadcast of `Beacon` also goes into the server's own
`inbox` as a packet from `Self`. The addresses that do not register are written
into the code, 127.0.0.1 and 192.168.0.17 among them: `Loopback` is the first,
`fixed` says whether the server has the second or nobody does, and `Skipped` is
the list. `Handle` has the order of the code: while no client is known, packets
from `Skipped` are dropped and any other sender registers, be it the server
itself; after that every packet is answered to where it came from, including to
`Self`.

### Worker

Every load is an image with its own globals; a function over `Image` is a C
global. `LddInit` is tried before the network and again after it. `Install`
keeps the code's one variable `ret`, because `use_opd_fallback` is computed
from whatever was assigned to it last. The stages of `module_stop` are steps,
so the game, the kernel and other images may act between them;
`network_shutdown` is two, `CloseSocket` and `ForgetSocket`, and what follows
it until the image is gone is a third, `Unload`; until then the hooks can be
reached. `patched` is the image that the game's entry points lead to; an image
that finds them patched does not recognise them. `extra` and `attached` are the
kernel's: the drivers it knows and the devices it has handed to them. It takes
a driver's devices away when it is unregistered, or refuses to unregister it,
which `refused` records; what it would do to a driver whose image is gone is
not modelled (`Callable`). `network_wait_ready` and the assignment of the
server's address are one step: no hook is installed in between, so nobody can
tell.

Left out: `toypad_state`, the debug log, and the deferred attach (it is in
`UsbHooks` and `Calls`).

### Install, Publication

The stages of `usb_hook_init` are `Search` (30 rounds of up to 20 scans of the
memory, until libusbd is found), `Allocate`, `Stub` and `Opd` one hook at a
time, `OpenProbe`, `Patch` one word of the game's memory at a time, and the
four file operations of `write_ipc_file`, each of which may fail without the
caller noticing. The game's dynamic linker fills in words while the scan goes
on (`Resolve`), and `GameExit` ends the process between any two steps: pages,
words and libusbd's code are gone, the files stay. A page is a number in the
order of allocation over all processes, `base` separates those of the process
that runs.

The injector is `Begin` to `Finish`: unload what was loaded, load, poll for the
file 80 times, look for libusbd, write five preambles one by one. Each request
goes to the process it found first, and fails when that is gone. It takes any
answer to a load for success and gives up after three that did not come, so
whether the plugin was loaded and what the injector does next are independent
in `Load`. `ReportLength` computes what the formatting in `write_ipc_file`
comes to, from the number of digits of the addresses.

`Publication` is the promise of the ready file. The refinement mapping takes
`published` from what an injector would read (`Named(ready)`, a value that is
no page when the file is incomplete) and `installed` from the preambles.

### Calls

The machine has the registers, link and count register and a stack of frames of
which two words matter. `Trampoline(h)` is the sixteen words that
`create_hook_trampoline` stores, from the register of the TOC argument and two
addresses; `Decode` gives them meaning and `Execute` runs them.
`call_game_opd` (main.c) is run from its assembly with its operands where the
constraints allow. Compiled code is an entry, a body and a return from a call,
and keeps the ABI's promises, no more: volatile registers hold junk after it.
The game calls in by a redirected word (descriptor with the plugin's TOC) or by
libusbd's descriptor and the preamble; a hook passes on, calls `done_cb`, or
returns; the game may call again from `done_cb`. In either case what a hook is
handed as the game's TOC is not the game's: the descriptor by which the
trampoline was entered has replaced it. `PassesEntryToc` says which TOC it is
(`EntryToc`), and section 4 what the comments say.

### Pairing

Each thread's place in its loop is a variable; copies of the address are made
byte by byte (`CopyByte`, `SaveByte`), so that main and the control thread can
interleave inside them. FunctionFS is modelled from how the daemon uses it:
queued events, a read that blocks without one, a request that is cancelled by
the next, a file system that is not unmounted while ep0 is open. `SaveClose`
lets any number of the bytes reach the file, since the results of `fprintf` and
`fclose` are not looked at; `saved` records that all did. `Signal` may come at
any moment; `Kill` is kept to the one that leaves more behind than the gadget,
between truncating and writing the file. That a file which was written is lost
with the power, for want of an `fsync`, is not modelled.

## 3. Runs

| Run | Question | Instance | Result |
|---|---|---|---|
| `bridge_ordered` | does the game see a faithful pad on a network that loses but does not reorder? | 2 toys, edits of centre and left zone, 1 datagram per link, 2 in the socket | holds |
| `bridge_udp` | what is left when it reorders, too? | same, 2 datagrams in flight to the console, centre edits | tags stay true, outdated replies run out, removed toys are forgotten; order is not promised |
| `hooks` | do handles and slots match, is the pool a table of pipes, and does every interrupt transfer complete? | 2 slots, counter modulo 4, 2 threads, 3 pipes to open | holds |
| `discovery` | is the console found and everybody answered, and do the server's answers to itself not multiply? | 2 machines and a local program, a server with and without the address in its list, buffer of 2, one restart | holds |
| `discovery_echo` | do the server's own packets die out? | as `discovery` | violated: one that is queued behind the first client packet is answered to the server for ever |
| `worker` | are starts and stops orderly, what do the hooks find of the network, and which drivers are left behind? | 2 loads, 2 devices | holds |
| `worker_opd` | are reports taken by the fallback hooks forwarded? | 2 loads | violated: the loop serves them only when they are not installed |
| `install` | do redirected calls find hooks, and is the ready file what it says? | 2 hooks, 3 words, 2 pages, 2 games, 2 rounds of each wait, 2 scans in a round | holds |
| `install_stale` | does the injector install a page of the process it installs it in? | as `install` | violated: it deletes the stale file in another directory |
| `calls` | has everybody its own TOC and a way back, and what do the trampolines and the worker's assembly leave alone? | the 8 hooks with their registers, 12 frames | holds |
| `pairing` | what may be in the file after writes that fail and kills, and is the daemon clean at its end? | addresses of 2 bytes, requests of 5 kinds, a file of another console | holds |
| `pairing_exit` | does it exit once it has saved? | as `pairing` | violated: with a quiet console it joins a thread that is never woken |

The types are the first conjunct of each `IInv`. `Registration` needs no such
strengthening: its `TypeOK` is inductive by itself and proved (`TypeCorrect`), so
its run goes to properties instead.

### Bounds and why they suffice

* Two toys tell "this toy" from "another one"; `MaxLog = 3` contents of the
  centre zone let a toy be placed, replaced or removed, and placed again
  while replies of both earlier moments are under way. One slot per zone: only
  the centre zone is polled and it has one in the code as well.
* One datagram per link on the ordered network, with two in the socket, has
  replies of different moments queued behind each other; reordering needs two
  in flight and has them. `MaxNoise` bounds datagrams that are not polls or
  their answers, which are one per 3 seconds against one per transfer.
* Two slots against three pipes make the pool run full; a counter modulo 4
  makes it wrap through zero and skip it. The device opened in the game's
  thread has only its IN pipe opened, which keeps the run short.
* Two machines make one the client and leave one that is not. `InCap = 2` has
  an own beacon queued behind a first packet. `fixed` takes both its values.
* Two loads are a ghost and its successor; images share only `patched` and the
  port, so a third adds nothing that a second does not. Two devices let the
  second take the first one's place in `claimed`.
* `install`: three words for one hook are one more than the scan redirects, two
  pages and two games have a stale file of an earlier process and of an earlier
  load, two rounds, of two scans each, let a wait go on, start another round
  and run out. Numbers of 1 and of 8 digits are the extremes of the report's
  length.
* `calls` runs the real constants. Twelve frames are the game calling a hook
  that calls the game back, three times over; what is below the top three
  frames can only be returned to, and the proof covers every depth.
* `pairing`: two bytes are enough to read a half-copied address. The requests
  are one of each kind that the control thread tells apart.

The runs of `Worker`, `Install` and `Pairing` do not check deadlock, because
there the system really stops: when both images are gone, when the pages and
games of the run are used up, when the daemon has exited.

### Fairness and why the code justifies it

* `Bridge`: the game's thread polls again after every `done_cb`; node's event
  loop takes what its socket has; both are weak fairness. Three strong fairness
  conditions say that the network is lossy but fair: of a kind of datagram that
  is sent again and again some get through. No fairness of users, OUT
  transfers, heartbeats, beacons or restarts is assumed.
* `UsbHooks`: both threads are scheduled inside a hook. Nobody need call one.
* `Registration`: the event loop runs; packets under way arrive or are lost; a
  machine that keeps sending (the worker's heartbeat, every 3 seconds) gets
  one through now and then. The timer needs no fairness.
* `Worker`: a worker gets on, since each wait of its start-up chain is a loop
  with a bound; a stop that began goes on. Nobody need stop a module.
* `Install`: the plugin's worker and the injector are scheduled. The game, its
  linker and the user who starts an injection are free.
* `Pairing`: the three threads are scheduled and main's waits end with the
  clock. `Ends` is checked under `TalkativeSpec`, in which the console or the
  cable keeps causing events; without that it is false, which is what
  `pairing_exit` shows under `FairSpec`.
* `Calls` has no liveness property.

## 4. Disagreements and open points

`PROJECT.json`, "findings", quotes both sides of the four that a run shows:

1. Own packets are skipped only while there is no client (server.js:466), and a
   discovery packet is answered by one: the server may talk to itself for ever.
2. `use_opd_fallback` (main.c:272) comes from the wrong return code: set when no
   hooks are installed, clear when the fallback ones are.
3. The injector deletes a stale ready file in /dev_hdd0/tmp, while the plugin
   writes it and the injector reads it in /dev_hdd0/plugins.
4. The pairing daemon joins its control thread before it closes ep0, so that
   with a quiet console it does not exit.

What follows was met while reading the code. No run checks it, most of it
because a glance at the line settles it.

Network and server:

* The hooks poll zone 1 only (usb_hooks.c:761): toys on the left and right zone
  never reach the game, and the sequence number modulo the number of toys
  (virtual-toys.js:308), which only matters for zones with several slots, never
  has an effect.
* The addresses to skip are literals (server.js:468). A server at another
  address than 192.168.0.17 is registered as its own client by its first
  beacon, though server.js:463 says "skip our own IPs";
  docs/DIAGNOSTIC-GUIDE-2026-07-22.md:67-76 tells whoever has such an address
  to change the plugin only. `ClientHasSpoken` therefore names the list and not
  the server; a client of that kind stops the beacons and does not keep the
  console from being answered (`TalkersAreServed`).
* A simulator on the server's own machine, which sends from 127.0.0.1, is never
  registered, although docs/DIAGNOSTIC-GUIDE-2026-07-22.md:31 and
  simulate-ps3.js:6-16 expect it.
* "Sequence counter for packet matching" (network.h:111): nothing matches it.
  Acknowledgements of OUT reports share status 0 with answers to polls and
  become IN reports of zeroes.
* SO_REUSEADDR (network.c:101), which the comment at network.c:69-74 rules out,
  lets a second load of the plugin bind the port of a first that was not
  stopped.

Hooks and pool:

* `my_cellUsbdControlTransfer` never calls `done_cb` (usb_hooks.c:933), unlike
  what the comment at 722 asks of transfers.
* The counter that usb_hooks.h:101 calls monotonic is incremented by two
  threads without a lock and can go back.
* `opd_hooks_shutdown` and `usb_hook_shutdown` restore nothing (opd_hooks.h:35:
  "Restore original OPD values."): from main.c:119 until the image is unloaded
  the game reaches hooks whose socket is closed, for a moment without their
  knowing it (network.c:323-328), and after that no code at all. The pool is
  cleared while the game holds its handles (usb_hooks.c:1428).
* A second OUT report replaces the first in the fallback's mailbox before the
  worker has fetched it (opd_hooks.c:66).

Installation and calls:

* The scan redirects any word that holds a target address. The plugin's own
  copies for passing calls on would be among them if the loader put them in the
  range scanned (usb_hooks.c:1352), and the hooks would then call themselves.
* `usb_hook_init` returns 0 when it redirected nothing, so that the fallback is
  not tried; failures to write or rename the ready file are ignored.
* The search gives up "after 150s of retries" (usb_hooks.c:1236) only where the
  probe file cannot be opened. Each of its 30 rounds is otherwise up to 20 scans
  5 seconds apart, 50 minutes in all, against the injector's 80 seconds. A stop
  waits for the whole of it.
* The injector reports a load as successful whatever the answer says
  (inject-sprx.js:279) and as failed when the answers were lost.
* Words are redirected to descriptors (OPDs), while trampoline_gen.c:9-15 says
  that the stubs which read those words do not dereference them.
* Passing a call on enters libusbd four instructions in, which are skipped even
  when no preamble stands there.
* A call that is passed on never runs "with the game's TOC", as
  usb_hooks.c:554-556 has it, nor with what libusbd needs by usb_hooks.c:696
  ("libusbd.sprx uses game's TOC"): for a call through a redirected word r2 is
  the plugin's, from the descriptor (usb_hooks.c:1308), and libusbd runs with
  that; for one through libusbd's own descriptor it is libusbd's.
  `PassesEntryToc` states which two values occur; run `calls` has both.
* `hook.h`, which nobody uses, encodes `mtctr r11` as 0x7D6B03A6; 0x7D6903A6 is
  right.

Driver, descriptors, pairing:

* `ldd_recv_in`, `ldd_send_out` and `ldd_has_device` are called by nobody;
  ldd_driver.h:56 wants `ldd_driver_init` "after network_init()", main.c calls it
  before and again after. A device that is attached second and then detached
  leaves the first unclaimed. That the kernel refuses to unregister the driver
  is only logged (ldd_driver.c:170-173): the image forgets the driver and is
  unloaded, and the kernel knows a driver without code. `DriverIsLoaded` says
  that this is the only way to it.
* The registration hooks replace the pad's IDs by another vendor's
  (usb_hooks.c:570-574), while the plugin's own driver registers for the pad's.
* Control transfers report wLength as the length written where toypad_state.h
  says "length of descriptor data written"; the configuration descriptor
  declares a report descriptor of 63 bytes, the table has 29; some requests
  return positive values where the header says "0 on success".
* A pairing daemon that could not save still exits with 0, since the exit code
  tells of the handshake. If the file could not be written, it also prints
  "Pairing data saved" and leaves an empty file or part of one
  (ds3-pair-daemon.c:308-314), with which deck/ldtoypad.sh:170 is satisfied.
  `SuccessIsReported` therefore promises only the other direction and that an
  address was heard, `FileIsUnmixed` what the file may hold.
* After the handshake, a timeout or a signal the gadget stays bound without
  anybody on ep0 until the daemon unbinds it (ds3-pair-daemon.c:586-588).
* When the gadget cannot be bound, the daemon unmounts FunctionFS while ep0 is
  open and its threads run, which does not succeed, and returns 1 with the file
  system mounted (ds3-pair-daemon.c:529 and 535-540).

## 5. Proofs

Assumptions are the ASSUMEs of the modules: distinct model values, catalogue
entries that are toys, positive capacities with a centre zone of one slot,
positive bounds, for `Calls` addresses that differ and fit a `lis`.
Everything below holds for every value of the constants.

### Safety and refinement

* `Bridge_proofs`. `TypeCorrect`; `TagsStayTrue`, the inductive invariant;
  `NoInventedTag`; `BridgeIsAToyPad`, the refinement. That tags are true is
  inductive with little more than `LogTracksPad`: a reply is built from the pad
  as it is, which is the last entry of the log, and the log only grows. That
  reports do not go back in time needs `TagsInOrder`: along socket and link the
  moments shown increase, and none is before the one shown last. The lemma
  `CenterPoll` shows why the hint does not matter (one slot), `SentFacts` and
  `RemoveAtFacts` what the network may do to a sequence.
  `OldRepliesDrain` counts the replies that show an earlier moment: at most
  what the two buffers hold, and without edits of the centre zone they only
  get fewer, by one for each that the game is shown. Sets of positions are
  compared through injections (`NoMore`), which is what losing, moving and
  delivering one datagram have in common.
* `UsbHooks_proofs`. `TypeCorrect` for all interleavings. `PoolStaysExact`: the
  inductive `IInv` says that while `Calm` one call is under way at most, it
  works on the current counter value, no slot in use carries that value or a
  larger one, and handles and slots match one to one. Uniqueness needs the
  order (`handle <= next`) since nothing in the code compares handles.
  `HandlesStayTracked` and `NoSlotIsLost` follow. `PoolIsAPipeTable` is the
  refinement: `Matched` and `Accounted` make handles and used slots the same
  number, so that a scan that finds nothing means a full table, and `Distinct`
  makes the handle that is entered a new one.
* `Registration_proofs`. `TypeCorrect`; `ClientSpoke`, which ties the client to
  the packets handled since the start, both ways, whether or not the server has
  the address in its list. `EchoesDoNotMultiply`: with a client, each step puts
  at most as many of the server's own packets into its socket as it takes out.
* `VirtualToys_proofs`. About the operators of the pad, for outer zones and
  catalogues of any size, in any state of the right type; this covers what the
  hooks never ask for, the zones with several slots. The ranks of the
  occupied slots are one-to-one and onto `0 .. k - 1` (by counting), so that
  `SlotFor`'s CHOOSE has one candidate. Hence `PollsShowTheZone` (every toy of
  the zone and no other), `PollsGoRound` (the next slot with a toy, from the
  last to the first) and `ARoundShowsEachOnce`. `PlacingReplacesNothing` and
  `RemovingTakesOne` say which slot a request gets that names none, and that
  it is refused only when the zone is full or empty; the slot is the least of
  a set, by `WellFoundedInduction`.
* `Worker_proofs`. `LivesAreOrderly`, an invariant per image (`LifeOf`) that
  ties the worker's place, the network and the kernel's view of the driver to
  the image's stage, through the stages of `network_shutdown` and a refusal of
  the kernel to the end; a step of one image leaves the others alone
  (`OthersLive`) and keeps its own (`OwnLife`). That `refused` is all that
  parts the kernel's view from the image's is what `DriverStaysLoaded` needs.
  Its consequences are `AtMostOneWorker`, `WorkerStaysOnline`,
  `HooksStayOnline` and `DriverStaysLoaded`.
* `Install_proofs`. `InstallIsOrderly`: `Stages` says what lies behind each
  stage (from the scan on the page is complete and of this process), which
  `CallsFindHooks` needs; `FileIsKnown` says that the file is whole, complete
  and no later than the plugin's page, and `ReadIsKnown` that whatever an
  injector holds or has installed was named by the file at some time. With the
  numbering of pages these give the refinement, `ReadyFileIsAPublication`:
  what is renamed into place is always later than what was there.
* `Calls_proofs`. `TrampolineIsAsDocumented` decodes the sixteen words for any
  register and any addresses. `CallsAreOrderly` is the invariant of a machine
  with an unbounded stack: `Chain` says who may stand on whom (`On`) and what the
  frames below hold (`TocOf`, `ReturnOf`), `InTrampoline`, `InAssembly` and
  `InCode` what the registers hold at each instruction. `EachRunsWithItsToc`,
  `EveryReturnIsToItsFrame` and `LibusbdGetsTheEntryToc` follow, the last from
  what `Sound` says a trampoline's frame was `given`.
  `HandWrittenCodeIsTransparent` goes through the instructions: each writes one
  register (`WritesOne`), and for those that stand in a trampoline or in
  `call_game_opd` it is none of the arguments, the result or the preserved
  ones (`TransparentStep`).
* `Pairing_proofs`. `PairingIsOrderly`: `Copying` ties the flags to the copy (a
  later copy writes the same bytes again, which is why main may read while one
  is under way), `Stages` ties the threads, the gadget and ep0 together. Five
  properties follow, among them `FileStaysUnmixed`: what reaches the file is
  the beginning of `line`, and `line` is only filled once the flags are set.

### Nothing goes round in circles

A liveness property needs two things: that whoever has something to do is
scheduled, which is the fairness and is out of the prover's reach, and that it
does not go on for ever. The second half is an action property, and is proved
wherever the first is assumed of a thread. Each theorem below has a measure, a
number that every step of its owner lowers, that no step of anybody else
raises, and that is positive while there is something to do.

| Theorem | Measure | Bound | Liveness it is half of |
|---|---|---|---|
| `CallsAreBounded` (`UsbHooks`) | steps left in a thread's call of the hooks | 7 and one per slot | `InterruptsComplete` |
| `StopIsBounded` (`Worker`) | steps of the worker and of `module_stop` after the announcement | 12 | `StopCompletes` |
| `InitialisationIsBounded`, `InjectionIsBounded` (`Install`) | steps of `usb_hook_init`, of one run of the injector | sums of the rounds times their scans, hooks, words and preambles | `WaitsEnd` |
| `StoppingIsBounded` (`Pairing`) | steps of the three threads once `g_running` is cleared | 22 and two per byte of the address | `Ends` |
| `OldRepliesDrain` (`Bridge`) | replies that show an earlier moment | the two buffers | `RemovedToyIsForgotten` |

`CallsAreBounded` does not need `Calm`: it holds for overlapping calls and a
counter that wraps, and adds that a `done_cb` that is due belongs to a call
that is under way (`DueIsHandled`). `StopIsBounded` and `StoppingIsBounded` add
that nobody joins a thread that was never started. `StoppingIsBounded` does not
contradict `pairing_exit`: the threads have few steps left, but one of them may
wait in a read for ever.

### Only model-checked

* Liveness under fairness: `PlacedToyIsReported`, `RemovedToyIsForgotten`,
  `BeaconsCease`, `TalkersAreServed`, `StopCompletes`, `InterruptsComplete`,
  `WaitsEnd`, `Ends`. Of the five in the table above the half that needs no
  fairness is proved. `PlacedToyIsReported`, `BeaconsCease` and
  `TalkersAreServed` rest on strong fairness of a lossy network altogether, and
  there is no number that only falls.
* What the pool still holds after an overlap or a wrap, apart from its types and
  `CallsAreBounded`: nothing is promised there, since nothing is true.
* The four violated properties, which are refuted by a run.

## 6. What could follow

1. Shutdown of the hooks under open pipes (usb_hooks.c:1411) in `UsbHooks`, once
   the code says what the game's handles are to become.
2. The fields that `toypad_state.c` fills in, against the requests of a real
   enumeration: whether the game accepts them is not in the repository.
3. Outer zones in the runs of `Bridge`, once the hooks poll them; what the pad
   answers there is proved already (`VirtualToys_proofs`).
4. The web UI, which edits by slot on a copy of the zones (web/app.js:534).

## 7. Not modelled

* The cache flush after code is written, and what the memory scans of
  `opd_hooks_init` find: the former is a matter of the hardware, the latter a
  choice in `Worker`.
* USB descriptors and HID state: constant tables, copied into the caller's
  buffer; the interrupt handlers of `toypad_state.c` are called by nobody.
* The debug log (`debug.c`): a ring written by two threads and read by nobody.
* HTTP API beyond edits, LED telemetry, CLI: what they keep is shown to users
  and read by no other part. The web UI holds a copy of the pad; the
  server checks zone, slot and toy of every edit anew, and `Bridge` takes edits
  with any arguments at any moment.
* `inject-early.js`, the launch of the game and the progress display of
  `inject-sprx.js`: an earlier variant and messages.
* `ds3-gamepad-daemon.py`, the overlay, image catalogue tools, shell,
  PowerShell and Python scripts: forwarding of events, user interface of another
  program, one-shot input and output without state that outlives them.
