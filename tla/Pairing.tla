------------------------------- MODULE Pairing ------------------------------
(***************************************************************************)
(* deck/ds3-pair-daemon.c: the Deck poses as a DualShock 3 on USB until    *)
(* the console has told it its Bluetooth address, which is saved in a file *)
(* for the scripts that connect later.                                     *)
(*                                                                         *)
(* Three threads share plain globals: main waits, saves and cleans up; the *)
(* control thread answers the console on ep0; the input thread keeps ep1   *)
(* busy with idle reports.  The kernel's FunctionFS queues ep0's events    *)
(* and blocks a read when there is none, a write on ep1 when no console    *)
(* polls it.  An address is copied byte by byte; a byte is represented by  *)
(* whose address it is from.                                               *)
(***************************************************************************)
EXTENDS Naturals, Sequences

CONSTANTS
  Console,   \* the address of the console at the other end of the cable
  Deck,      \* the Deck's own
  Zero,      \* bytes nobody has written
  NoFile,    \* there is no pairing file
  OldFile,   \* what an earlier run may have left
  MacLen,    \* bytes of an address (6)
  Requests   \* the control requests a console may send

ASSUME PairingAssumption ==
  /\ MacLen \in Nat \ {0}
  /\ Console \notin {Deck, Zero} /\ Deck # Zero

Byte    == 1 .. MacLen
Whose   == {Console, Deck, Zero}
Mac     == [Byte -> Whose]
Of(who) == [k \in Byte |-> who]

(* bRequest, report id and the length of the data a SET_REPORT brings:     *)
(* "full" is the 8 bytes and more that hold an address.                    *)
ReportId == {"01", "F2", "F5", "F7", "F8", "EF", "F4"}
Request  == [req : {"get", "set", "idle", "unknown"}, id : ReportId,
             len : {"none", "short", "full"}]

ASSUME RequestsAssumption == Requests \subseteq Request

VARIABLES
  main,      \* where the main thread is
  control,   \* where the control thread is
  input,     \* where the input thread is
  running,   \* g_running
  enabled,   \* g_usb_enabled
  complete,  \* g_handshake_complete
  valid,     \* g_ps3_mac_valid
  ps3mac,    \* g_ps3_mac
  f5,        \* report_f5, its address bytes
  copied,    \* bytes of the address the control thread has copied
  cur,       \* the request the control thread handles
  line,      \* bytes of the address main has formatted
  file,      \* the pairing file
  saved,     \* history: all of what this run wrote has reached the file
  code,      \* the exit code
  mounted,   \* the gadget's FunctionFS is mounted
  ep0,       \* g_ep0_fd is open
  bound,     \* the gadget is bound to the UDC
  host,      \* it has configured the gadget: "on", or "away"
  events,    \* FunctionFS: events queued on ep0
  pending    \* FunctionFS: the last request

shared == <<running, enabled, complete, valid, ps3mac, f5>>
kernel == <<mounted, ep0, bound, host, events, pending>>
result == <<line, file, saved, code>>
vars   == <<main, control, input, shared, copied, cur, result, kernel>>

Event == {"setup", "enable", "disable", "suspend"}

NoRequest == [req |-> "idle", id |-> "01", len |-> "none"]

FlagsType ==
  /\ running \in BOOLEAN /\ enabled \in BOOLEAN /\ complete \in BOOLEAN
  /\ valid \in BOOLEAN /\ saved \in BOOLEAN
  /\ mounted \in BOOLEAN /\ ep0 \in BOOLEAN /\ bound \in BOOLEAN

PlacesType ==
  /\ main \in {"setup", "open", "start", "bind", "enumerate", "handshake", "open_file",
               "format", "cleanup", "join_input", "join_control", "close",
               "return", "exited", "killed"}
  /\ control \in {"none", "check", "read", "setup", "data", "copy", "flag",
                  "done", "gone"}
  /\ input \in {"none", "open", "check", "write", "done", "gone"}
  /\ host \in {"on", "away"}
  /\ code \in {0, 1}

DataType ==
  /\ ps3mac \in Mac /\ f5 \in Mac
  /\ copied \in 0 .. MacLen
  /\ line \in Seq(Whose) /\ Len(line) <= MacLen
  /\ file \in Seq(Whose) \union {NoFile} \union OldFile
  /\ cur \in Request /\ pending \in Request
  /\ events \subseteq Event

TypeOK == FlagsType /\ PlacesType /\ DataType

Init ==
  /\ main = "setup" /\ control = "none" /\ input = "none"
  /\ running = TRUE
  /\ enabled = FALSE /\ complete = FALSE /\ valid = FALSE
  /\ ps3mac = Of(Zero) /\ f5 = Of(Deck)
  /\ copied = 0 /\ cur = NoRequest
  /\ line = <<>> /\ saved = FALSE /\ code = 1
  /\ file \in {NoFile} \union OldFile
  /\ mounted = FALSE /\ ep0 = FALSE /\ bound = FALSE
  /\ host = "away"
  /\ events = {} /\ pending = NoRequest

-----------------------------------------------------------------------------
(* The main thread.                                                        *)

(* Nothing checks whether the shell commands succeed.                      *)
SetupConfigfs ==
  /\ main = "setup" /\ main' = "open"
  /\ mounted' \in BOOLEAN
  /\ UNCHANGED <<control, input, shared, copied, cur, result, ep0, bound, host,
                 events, pending>>

(* A file system cannot be unmounted while ep0 is open.                    *)
TeardownConfigfs(open) ==
  /\ mounted' = (mounted /\ open)
  /\ bound' = FALSE /\ host' = "away" /\ events' = {}

(* main returns; the threads that are left end with the process.           *)
Exit(c) ==
  /\ main' = "exited" /\ code' = c
  /\ control' = IF control = "none" THEN "none" ELSE "gone"
  /\ input' = IF input = "none" THEN "none" ELSE "gone"
  /\ ep0' = FALSE
  /\ UNCHANGED <<shared, copied, cur, line, file, saved, pending>>

OpenEp0 ==
  /\ main = "open"
  /\ \/ TeardownConfigfs(FALSE) /\ Exit(1)
     \/ /\ mounted
        /\ main' = "start" /\ ep0' = TRUE
        /\ UNCHANGED <<control, input, shared, copied, cur, result, mounted,
                       bound, host, events, pending>>

StartThreads ==
  /\ main = "start" /\ main' = "bind"
  /\ control' = "check" /\ input' = "open"
  /\ UNCHANGED <<shared, copied, cur, result, kernel>>

(* There may be no UDC, or another gadget holds it.                        *)
Bind ==
  /\ main = "bind"
  /\ \/ TeardownConfigfs(TRUE) /\ Exit(1)
     \/ /\ main' = "enumerate" /\ bound' = TRUE
        /\ UNCHANGED <<control, input, shared, copied, cur, result, mounted, ep0,
                       host, events, pending>>

Goto(stage) ==
  /\ main' = stage
  /\ UNCHANGED <<control, input, enabled, complete, valid, ps3mac, f5,
                 copied, cur, result, kernel>>

(* The console has enumerated the gadget, or main is through waiting: 30   *)
(* seconds are over or a signal has come.                                  *)
WaitEnable ==
  /\ main = "enumerate"
  /\ \/ enabled /\ Goto("handshake") /\ UNCHANGED running
     \/ ~enabled /\ Goto("join_input") /\ running' = FALSE

(* Mutant: the address is saved however the wait ended.                    *)
WaitUnchecked ==
  /\ main = "handshake"
  /\ Goto("open_file") /\ UNCHANGED running

(* The handshake is complete, or 60 seconds are over, or a signal has come.*)
WaitHandshake ==
  /\ main = "handshake"
  /\ Goto(IF complete /\ valid THEN "open_file" ELSE "cleanup")
  /\ UNCHANGED running

(* save_pairing truncates the file; what it formats is buffered until the  *)
(* file is closed.                                                         *)
SaveOpen ==
  /\ main = "open_file"
  /\ \/ main' = "cleanup" /\ UNCHANGED file
     \/ main' = "format" /\ file' = <<>>
  /\ UNCHANGED <<control, input, shared, copied, cur, line, saved, code, kernel>>

SaveByte ==
  /\ main = "format" /\ Len(line) < MacLen
  /\ line' = Append(line, ps3mac[Len(line) + 1])
  /\ UNCHANGED <<main, control, input, shared, copied, cur, file, saved, code,
                 kernel>>

(* The results of fprintf and fclose are not looked at: on a full disk or  *)
(* after an error only the first bytes, or none, reach the file, and main  *)
(* goes on as if all of them had.                                          *)
SaveClose ==
  /\ main = "format" /\ Len(line) = MacLen
  /\ main' = "cleanup"
  /\ \E n \in 0 .. MacLen : file' = SubSeq(line, 1, n) /\ saved' = (n = MacLen)
  /\ UNCHANGED <<control, input, shared, copied, cur, line, code, kernel>>

Cleanup ==
  /\ main = "cleanup"
  /\ Goto("join_input") /\ running' = FALSE

JoinInput ==
  /\ main = "join_input" /\ input = "done"
  /\ Goto("join_control") /\ UNCHANGED running

(* Mutant: the control thread is not waited for.                           *)
JoinNobody ==
  /\ main = "join_control"
  /\ Goto("close") /\ UNCHANGED running

JoinControl ==
  /\ main = "join_control" /\ control = "done"
  /\ Goto("close") /\ UNCHANGED running

(* Mutant: the gadget is taken down before ep0 is closed.                  *)
CloseLate ==
  /\ main = "close" /\ main' = "return"
  /\ ep0' = FALSE /\ TeardownConfigfs(ep0)
  /\ UNCHANGED <<control, input, shared, copied, cur, result, pending>>

Close ==
  /\ main = "close" /\ main' = "return"
  /\ ep0' = FALSE /\ TeardownConfigfs(ep0')
  /\ UNCHANGED <<control, input, shared, copied, cur, result, pending>>

(* Mutant: the exit code tells how the daemon was stopped.                 *)
ReturnStopped ==
  /\ main = "return" /\ Exit(IF running THEN 0 ELSE 1)
  /\ UNCHANGED <<mounted, bound, host, events>>

Return ==
  /\ main = "return" /\ Exit(IF complete THEN 0 ELSE 1)
  /\ UNCHANGED <<mounted, bound, host, events>>

-----------------------------------------------------------------------------
(* The control thread.                                                     *)

ControlGoes(stage) ==
  /\ control' = stage
  /\ UNCHANGED <<main, input, running, result, mounted, ep0, bound, host>>

(* Mutant: the loop does not look at g_running.                            *)
ControlForever ==
  /\ control = "check"
  /\ ControlGoes("read")
  /\ UNCHANGED <<enabled, complete, valid, ps3mac, f5, copied, cur, events,
                 pending>>

ControlLoop ==
  /\ control = "check"
  /\ ControlGoes(IF running THEN "read" ELSE "done")
  /\ UNCHANGED <<enabled, complete, valid, ps3mac, f5, copied, cur, events,
                 pending>>

(* The read blocks until there is an event; one that fails is tried again. *)
ReadEvent(e) ==
  /\ control = "read" /\ e \in events
  /\ events' = events \ {e}
  /\ \/ /\ e = "setup"
        /\ ControlGoes("setup") /\ cur' = pending /\ pending' = NoRequest
        /\ UNCHANGED enabled
     \/ /\ e = "enable"
        /\ ControlGoes("check") /\ enabled' = TRUE
        /\ UNCHANGED <<cur, pending>>
     \/ /\ e \in {"disable", "suspend"}
        /\ ControlGoes("check") /\ UNCHANGED <<enabled, cur, pending>>
  /\ UNCHANGED <<complete, valid, ps3mac, f5, copied>>

(* FunctionFS drops a request when the next has come or the cable is out.  *)
Cancelled == host = "away" \/ "setup" \in events

(* GET_REPORT answers with the report's template (of which only the address*)
(* in F5 ever matters), at most 64 bytes of it, and stalls on an unknown id*)
(* as on an unknown request; SET_IDLE is acknowledged.                     *)
Answer ==
  /\ control = "setup" /\ cur.req # "set"
  /\ ControlGoes("check") /\ cur' = NoRequest
  /\ UNCHANGED <<enabled, complete, valid, ps3mac, f5, copied, events, pending>>

(* A SET_REPORT without data is acknowledged at once.                      *)
SetReport ==
  /\ control = "setup" /\ cur.req = "set"
  /\ \/ cur.len = "none" /\ ControlGoes("check") /\ cur' = NoRequest
     \/ cur.len # "none" /\ ControlGoes("data") /\ UNCHANGED cur
  /\ UNCHANGED <<enabled, complete, valid, ps3mac, f5, copied, events, pending>>

IsAddress == cur.id = "F5" /\ cur.len = "full" /\ ~Cancelled

TakeData ==
  /\ control = "data"
  /\ ControlGoes(IF IsAddress THEN "copy" ELSE "check")
  /\ copied' = 0 /\ cur' = NoRequest
  /\ UNCHANGED <<enabled, ps3mac, f5, events, pending>>

(* Mutant: the flags are set before the address is copied.                 *)
ReadDataEager ==
  /\ TakeData
  /\ valid' = (valid \/ IsAddress) /\ complete' = (complete \/ IsAddress)

(* The data of a SET_REPORT, none of one that was cancelled; then it is    *)
(* acknowledged.  (report_ef, which is only ever read back, is left out.)  *)
ReadData == TakeData /\ UNCHANGED <<complete, valid>>

(* memcpy to g_ps3_mac, which main may be reading.                         *)
CopyByte ==
  /\ control = "copy" /\ copied < MacLen
  /\ copied' = copied + 1
  /\ ps3mac' = [ps3mac EXCEPT ![copied + 1] = Console]
  /\ ControlGoes("copy")
  /\ UNCHANGED <<enabled, complete, valid, f5, cur, events, pending>>

(* Mutant: report F5 keeps the Deck's address.                             *)
StoreHalf ==
  /\ control = "copy" /\ copied = MacLen
  /\ ControlGoes("flag")
  /\ valid' = TRUE /\ copied' = 0
  /\ UNCHANGED <<enabled, complete, ps3mac, f5, cur, events, pending>>

Store ==
  /\ control = "copy" /\ copied = MacLen
  /\ ControlGoes("flag")
  /\ valid' = TRUE /\ f5' = Of(Console)
  /\ copied' = 0
  /\ UNCHANGED <<enabled, complete, ps3mac, cur, events, pending>>

(* The handshake is complete; the request is acknowledged.                 *)
Flag ==
  /\ control = "flag"
  /\ ControlGoes("check")
  /\ complete' = TRUE
  /\ UNCHANGED <<enabled, valid, ps3mac, f5, copied, cur, events, pending>>

-----------------------------------------------------------------------------
(* The input thread.                                                       *)

InputGoes(stage) ==
  /\ input' = stage
  /\ UNCHANGED <<main, control, shared, copied, cur, result, kernel>>

(* 50 tries of 100 ms, as long as the daemon runs.                         *)
OpenEp1 == input = "open" /\ (InputGoes("check") \/ InputGoes("done"))

InputLoop ==
  /\ input = "check"
  /\ InputGoes(IF running /\ ~complete THEN "write" ELSE "done")

(* The write blocks until a console takes the report.                      *)
WriteReport == input = "write" /\ host = "on" /\ InputGoes("check")

-----------------------------------------------------------------------------
(* The console, the cable and the user.                                    *)

(* FunctionFS queues an event of a kind once, and a configuration change   *)
(* leaves nothing queued but a suspend.  (It keeps their order; here they  *)
(* are read in any order.)                                                 *)
Queued(e) ==
  {e} \union (IF e \in {"setup", "suspend"} THEN events
             ELSE events \intersect {"suspend"})

HostSteps ==
  UNCHANGED <<main, control, shared, copied, cur, result, mounted, ep0, bound>>

Enumerate ==
  /\ bound /\ host = "away"
  /\ host' = "on" /\ events' = Queued("enable") /\ pending' = NoRequest
  /\ UNCHANGED input /\ HostSteps

Ask ==
  /\ host = "on"
  /\ pending' \in Requests /\ events' = Queued("setup")
  /\ UNCHANGED <<input, host>> /\ HostSteps

Suspend ==
  /\ host = "on" /\ "suspend" \notin events
  /\ events' = Queued("suspend")
  /\ UNCHANGED <<input, host, pending>> /\ HostSteps

(* A write under way on ep1 fails.                                         *)
Unplug ==
  /\ host = "on" /\ host' = "away"
  /\ events' = Queued("disable") /\ pending' = NoRequest
  /\ input' = IF input = "write" THEN "check" ELSE input
  /\ HostSteps

Ended == main \in {"exited", "killed"}

(* Ctrl+C or SIGTERM.                                                      *)
Signal ==
  /\ ~Ended
  /\ running' = FALSE
  /\ Goto(main)

(* SIGKILL, at the one moment that leaves more behind than the gadget: the *)
(* file is truncated and not yet written.                                  *)
Kill ==
  /\ main = "format"
  /\ main' = "killed"
  /\ control' = "gone" /\ input' = "gone"
  /\ ep0' = FALSE /\ bound' = FALSE /\ host' = "away" /\ events' = {}
  /\ UNCHANGED <<shared, copied, cur, result, mounted, pending>>

-----------------------------------------------------------------------------
MainStep ==
  \/ SetupConfigfs \/ OpenEp0 \/ StartThreads \/ Bind \/ WaitEnable \/ WaitHandshake
  \/ SaveOpen \/ SaveByte \/ SaveClose
  \/ Cleanup \/ JoinInput \/ JoinControl \/ Close \/ Return

ControlStep ==
  \/ ControlLoop \/ (\E e \in Event : ReadEvent(e)) \/ Answer \/ SetReport
  \/ ReadData \/ CopyByte \/ Store \/ Flag

InputStep == OpenEp1 \/ InputLoop \/ WriteReport

HostStep == Enumerate \/ Ask \/ Suspend \/ Unplug

Next == MainStep \/ ControlStep \/ InputStep \/ HostStep \/ Signal \/ Kill

Spec == Init /\ [][Next]_vars

(* The threads are scheduled, and main's waits end with the clock.  What   *)
(* the console does is not the daemon's to promise.                        *)
FairSpec ==
  /\ Spec
  /\ WF_vars(MainStep) /\ WF_vars(ControlStep) /\ WF_vars(InputStep)

(* The console, or the cable, keeps causing events.                        *)
TalkativeSpec == FairSpec /\ WF_vars(HostStep)

-----------------------------------------------------------------------------
(* Properties.                                                             *)

(* A file that all of the writing has reached holds the whole address of   *)
(* the console, however the copy of the control thread and main's reading  *)
(* of it interleave.                                                       *)
SavedIsWhole == saved => file = Of(Console)

(* A run whose writing reached the file says so to the scripts             *)
(* (ldtoypad.sh:170 asks for exit code 0 and the file); one that says so   *)
(* has at least heard an address, saved or not.                            *)
SuccessIsReported ==
  main = "exited" => /\ saved => code = 0
                     /\ code = 0 => ps3mac = Of(Console)

(* No thread uses ep0 once it is closed.  The gadget is bound only after   *)
(* the control thread was started ("silly mistake", comment at             *)
(* ds3-pair-daemon.c:513-516), and the thread is there as long as g_running*)
(* is set.  No longer: after a signal, a timeout or the handshake it is    *)
(* joined (586) before the gadget is unbound (588), which nobody serves in *)
(* between.                                                                *)
Ep0IsServed ==
  /\ control \in {"check", "read", "setup", "data", "copy", "flag"} => ep0
  /\ bound => control # "none"
  /\ bound /\ control \in {"done", "gone"} => ~running

(* Whoever has waited for the threads leaves no file system behind: it is  *)
(* closed by all before it is unmounted.  The one way to return that does  *)
(* leave it is the failed bind (529-540), which unmounts while ep0 is open:*)
(* it returns 1, and no console has ever seen the gadget.                  *)
NothingLeft ==
  /\ main = "return" => ~mounted
  /\ main = "exited" /\ mounted => code = 1 /\ ~enabled

(* What an earlier run has left in the file is given up only once this run *)
(* has heard the whole address, and never mixed with it: after that, be it *)
(* a kill or an error of the write, the file holds the first bytes of this *)
(* run's address, at best all and at worst none of them.                   *)
FileIsUnmixed ==
  \/ file \in {NoFile} \union OldFile
  \/ /\ ps3mac = Of(Console)
     /\ \E n \in 0 .. MacLen : file = [k \in 1 .. n |-> Console]

(* The inductive invariant: the flags follow the copy, a later copy writes *)
(* the same bytes again, main reads only after the flags.                  *)
Copying ==
  /\ \A k \in Byte : ps3mac[k] \in {Zero, Console}
  /\ control = "copy" => \A k \in 1 .. copied : ps3mac[k] = Console
  /\ control = "flag" \/ valid => ps3mac = Of(Console)
  /\ control = "flag" \/ complete => valid
  /\ f5 = IF valid THEN Of(Console) ELSE Of(Deck)

Stages ==
  /\ main \in {"setup", "open", "start"} <=> control = "none" /\ ~Ended
  /\ control = "gone" => Ended
  /\ Ended => control \in {"none", "gone"}
  /\ main \in {"close", "return"} => control = "done"
  /\ control = "done" => ~running
  /\ main \in {"setup", "open", "return", "exited", "killed"} <=> ~ep0
  /\ bound => ep0 /\ main \notin {"start", "bind"}
  /\ main \in {"open_file", "format"} => complete
  /\ \A k \in 1 .. Len(line) : line[k] = Console
  /\ saved => complete /\ main \in {"cleanup", "join_input", "join_control",
                                    "close", "return", "exited"}
  /\ main \in {"setup", "open", "start", "bind"} =>
       ~enabled /\ events = {} /\ host = "away"

IInv ==
  /\ TypeOK
  /\ SavedIsWhole /\ SuccessIsReported /\ Ep0IsServed /\ NothingLeft
  /\ FileIsUnmixed
  /\ Copying /\ Stages

(* If the console or the cable keeps causing events, the daemon ends.      *)
Ends == <>Ended

(* "Exits once the handshake completes and pairing data is saved."         *)
(* (ds3-pair-daemon.c:13)                                                  *)
ExitsOnceSaved == saved ~> Ended

=============================================================================
