------------------------------- MODULE Install ------------------------------
(***************************************************************************)
(* How the hooks of sprx-plugin/usb_hooks.c get into the game.             *)
(*                                                                         *)
(* The injector (ld-toypad-server/scripts/inject-sprx.js) loads the plugin *)
(* into the game's process.  Its worker waits for libusbd, builds a page   *)
(* of trampolines, redirects the words of the game's memory that refer to  *)
(* libusbd's functions, and publishes the page in a file.  The injector    *)
(* polls for that file and redirects libusbd's functions themselves.  The  *)
(* game runs all the while, may end between any two steps and be started   *)
(* again; the files outlive it.                                            *)
(*                                                                         *)
(* Pages are numbered in the order they are allocated, over all processes. *)
(* One load of the plugin lives at a time (more are in module Worker).     *)
(***************************************************************************)
EXTENDS Naturals

CONSTANTS
  NHooks,      \* functions hooked (8)
  NPreambles,  \* the first of them, which the injector redirects (5)
  Words,       \* words of the game's memory that may refer to libusbd
  Target,      \* Target[w]: the hook for what word w refers to, 0 for none
  Unresolved,  \* a word the dynamic linker has not filled in
  Libusbd,     \* a word with the address of a libusbd function
  NoFile, Garbage,
  Digits,      \* how many hexadecimal digits a number has (1 .. 8)
  MaxTries,    \* rounds of the search for libusbd (30)
  MaxAttempts, \* scans of the memory in a round (20)
  MaxWaits,    \* rounds of the injector's wait for the file (80)
  MaxPage,     \* pages allocated in a run (bound)
  MaxGames     \* times the game is started (bound)

Hook     == 1 .. NHooks
Preamble == 1 .. NPreambles
Page     == 1 .. MaxPage
NoPage   == 0
BufLen   == 512

ASSUME InstallAssumption ==
  /\ NHooks \in Nat \ {0} /\ NPreambles \in 0 .. NHooks
  /\ Words \in Nat /\ Target \in [1 .. Words -> 0 .. NHooks]
  /\ MaxTries \in Nat \ {0} /\ MaxAttempts \in Nat \ {0}
  /\ MaxWaits \in Nat \ {0}
  /\ MaxPage \in Nat /\ MaxGames \in Nat
  /\ {Unresolved, Libusbd} \intersect Page = {} /\ Unresolved # Libusbd
  /\ NoFile \notin [page : Page, whole : BOOLEAN]
  /\ Garbage \notin Nat
  /\ Digits \subseteq 1 .. 8

VARIABLES
  games,     \* the process the game runs in, counted
  libusbd,   \* the game has loaded libusbd.sprx
  word,      \* what the words refer to: a page, once redirected
  preamble,  \* the pages that libusbd's functions were redirected to
  pages,     \* pages allocated
  base,      \* pages allocated in processes that are gone
  built,     \* history: pages whose trampolines and OPDs are complete
  stage,     \* where usb_hook_init is; "running" and "failed" after it
  tries,     \* rounds of the search, and attempts of this round
  page,      \* trampoline_base
  stubs,     \* trampolines written
  opds,      \* OPDs written
  at,        \* the word the scan looks at
  found,     \* words redirected, per hook
  pos,       \* length of the formatted report
  tmp,       \* ld_hooks.tmp
  ready,     \* ld_hooks_ready.txt
  inj,       \* where the injector is
  pid,       \* the process it works on
  waits,     \* rounds of its wait
  got,       \* the page it read from the file
  next       \* the function it redirects next

process == <<games, libusbd, word, preamble, base>>
image   == <<stage, tries, page, stubs, opds, at, found, pos>>
disk    == <<tmp, ready>>
injector == <<inj, pid, waits, got, next>>
vars    == <<process, pages, built, image, disk, injector>>

File == [page : Page, whole : BOOLEAN]

StateType ==
  /\ games \in Nat /\ pages \in 0 .. MaxPage /\ base \in 0 .. pages
  /\ built \subseteq 1 .. pages
  /\ page \in 0 .. pages
  /\ stubs \in 0 .. NHooks /\ opds \in 0 .. NHooks
  /\ at \in 1 .. Words + 1
  /\ pos \in Nat
  /\ pid \in Nat /\ waits \in Nat /\ next \in Nat \ {0}
  /\ tries \in [round : Nat, attempt : Nat]

PlaceType ==
  /\ libusbd \in BOOLEAN
  /\ stage \in {"none", "search", "alloc", "stubs", "opds", "probe", "patch",
                "open", "write", "close", "rename", "running", "failed"}
  /\ inj \in {"idle", "unload", "load", "wait", "probe", "write"}

DataType ==
  /\ word \in [1 .. Words -> {Unresolved, Libusbd} \union Page]
  /\ preamble \in [Preamble -> {NoPage, Garbage} \union Page]
  /\ found \in [Hook -> 0 .. 2]
  /\ tmp \in {NoFile} \union File /\ ready \in {NoFile} \union File
  /\ got \in {NoPage, Garbage} \union Page

TypeOK == StateType /\ PlaceType /\ DataType

FirstTry == [round |-> 0, attempt |-> 0]

Init ==
  /\ games = 1 /\ libusbd = FALSE
  /\ word = [w \in 1 .. Words |-> Unresolved]
  /\ preamble = [h \in Preamble |-> NoPage]
  /\ pages = 0 /\ base = 0 /\ built = {}
  /\ stage = "none" /\ tries = FirstTry /\ page = NoPage
  /\ stubs = 0 /\ opds = 0 /\ at = 1 /\ found = [h \in Hook |-> 0] /\ pos = 0
  /\ tmp = NoFile /\ ready = NoFile
  /\ inj = "idle" /\ pid = 0 /\ waits = 0 /\ got = NoPage /\ next = 1

-----------------------------------------------------------------------------
(* usb_hook_init.                                                          *)

Goto(s) == stage' = s

(* Mutant: rounds and attempts that are not counted.                       *)
SearchOn ==
  /\ stage = "search"
  /\ \/ libusbd /\ Goto("alloc")
     \/ ~libusbd /\ Goto("search")
  /\ UNCHANGED <<process, pages, built, tries, page, stubs, opds, at, found,
                 pos, disk, injector>>

(* usb_hook_init searches in rounds; a round is up to MaxAttempts scans of *)
(* the memory for libusbd's name, all of them 5 seconds apart.  A page of  *)
(* memory is probed by writing it to a file; when that cannot be opened the*)
(* round is over at once.                                                  *)
Search ==
  /\ stage = "search"
  /\ \/ libusbd /\ Goto("alloc") /\ tries' = FirstTry
     \/ /\ tries.attempt + 1 < MaxAttempts /\ Goto("search")
        /\ tries' = [tries EXCEPT !.attempt = @ + 1]
     \/ /\ tries.round + 1 < MaxTries /\ Goto("search")
        /\ tries' = [round |-> tries.round + 1, attempt |-> 0]
     \/ tries.round + 1 >= MaxTries /\ Goto("failed") /\ tries' = FirstTry
  /\ UNCHANGED <<process, pages, built, page, stubs, opds, at, found, pos, disk,
                 injector>>

Allocate ==
  /\ stage = "alloc"
  /\ \/ Goto("failed") /\ UNCHANGED <<page, pages>>
     \/ /\ pages < MaxPage
        /\ pages' = pages + 1 /\ page' = pages'
        /\ Goto("stubs")
  /\ UNCHANGED <<process, built, tries, stubs, opds, at, found, pos, disk,
                 injector>>

(* Mutant: the game is redirected before the OPDs are written.             *)
StubEager ==
  /\ stage = "stubs" /\ stubs < NHooks
  /\ stubs' = stubs + 1
  /\ Goto(IF stubs' = NHooks THEN "probe" ELSE "stubs")
  /\ UNCHANGED <<process, pages, built, tries, page, opds, at, found, pos, disk,
                 injector>>

Stub ==
  /\ stage = "stubs" /\ stubs < NHooks
  /\ stubs' = stubs + 1
  /\ Goto(IF stubs' = NHooks THEN "opds" ELSE "stubs")
  /\ UNCHANGED <<process, pages, built, tries, page, opds, at, found, pos, disk,
                 injector>>

Opd ==
  /\ stage = "opds" /\ opds < NHooks
  /\ opds' = opds + 1
  /\ \/ opds' < NHooks /\ Goto("opds") /\ UNCHANGED built
     \/ opds' = NHooks /\ Goto("probe") /\ built' = built \union {page}
  /\ UNCHANGED <<process, pages, tries, page, stubs, at, found, pos, disk,
                 injector>>

(* The file for the probes; without it nothing is redirected.              *)
OpenProbe ==
  /\ stage = "probe"
  /\ Goto("patch") \/ Goto("open")
  /\ UNCHANGED <<process, pages, built, tries, page, stubs, opds, at, found, pos,
                 disk, injector>>

(* The scan of the game's memory, a word at a time: at most two words are  *)
(* redirected for each function, those that refer to it at this moment.    *)
Patch ==
  /\ stage = "patch" /\ at <= Words
  /\ at' = at + 1
  /\ LET h == Target[at]
     IN  \/ /\ word[at] = Libusbd /\ h # 0 /\ found[h] < 2
            /\ word' = [word EXCEPT ![at] = page]
            /\ found' = [found EXCEPT ![h] = @ + 1]
         \/ /\ word[at] # Libusbd \/ h = 0 \/ found[h] = 2
            /\ UNCHANGED <<word, found>>
  /\ UNCHANGED <<games, libusbd, preamble, base, pages, built, stage, tries, page,
                 stubs, opds, pos, disk, injector>>

Patched ==
  /\ stage = "patch" /\ at > Words
  /\ Goto("open") /\ at' = 1 /\ found' = [h \in Hook |-> 0]
  /\ UNCHANGED <<process, pages, built, tries, page, stubs, opds, pos, disk,
                 injector>>

(* write_ipc_file.  A line is KEY=0x and the hexadecimal digits without    *)
(* leading zeros; the names of the hooks have 8 letters but for CLOSEPIPE  *)
(* and GETDEVDESC.  d digits for addresses, o for what the RegisterLdd     *)
(* hooks have captured so far.                                             *)
Line(key, digits) == key + 3 + digits + 1

(* Mutant: a line more, for the address of the heartbeat.                  *)
ReportLengthMore(d, o) ==
  13 + Line(10, d) + 6 * Line(14, d) + Line(15, d) + Line(16, d)
     + 6 * Line(15, d) + Line(16, d) + Line(17, d) + Line(16, 3) + Line(7, o)
     + Line(9, d)

ReportLength(d, o) ==
  13 + Line(10, d) + 6 * Line(14, d) + Line(15, d) + Line(16, d)
     + 6 * Line(15, d) + Line(16, d) + Line(17, d) + Line(16, 3) + Line(7, o)

(* Mutant: the file is opened without O_TRUNC.                             *)
OpenKeep ==
  /\ stage = "open" /\ Goto("write")
  /\ \E d, o \in Digits : pos' = ReportLength(d, o)
  /\ tmp' = IF tmp = NoFile THEN [page |-> page, whole |-> FALSE] ELSE tmp
  /\ UNCHANGED <<process, pages, built, tries, page, stubs, opds, at, found,
                 ready, injector>>

(* What fails from here on is not noticed by usb_hook_init.                *)
OpenTmp ==
  /\ stage = "open"
  /\ \E d, o \in Digits : pos' = ReportLength(d, o)
  /\ \/ tmp' = [page |-> page, whole |-> FALSE] /\ Goto("write")
     \/ UNCHANGED tmp /\ Goto("running")
  /\ UNCHANGED <<process, pages, built, tries, page, stubs, opds, at, found,
                 ready, injector>>

(* Mutant: a short write is not noticed.                                   *)
WriteUnchecked ==
  /\ stage = "write" /\ Goto("close")
  /\ tmp' \in {tmp, [tmp EXCEPT !.whole = TRUE]}
  /\ pos' = 0
  /\ UNCHANGED <<process, pages, built, tries, page, stubs, opds, at, found, ready,
                 injector>>

WriteTmp ==
  /\ stage = "write"
  /\ \/ tmp' = [tmp EXCEPT !.whole = TRUE] /\ Goto("close")
     \/ UNCHANGED tmp /\ Goto("running")
  /\ pos' = 0
  /\ UNCHANGED <<process, pages, built, tries, page, stubs, opds, at, found, ready,
                 injector>>

CloseTmp ==
  /\ stage = "close"
  /\ Goto("rename") \/ Goto("running")
  /\ UNCHANGED <<process, pages, built, tries, page, stubs, opds, at, found, pos,
                 disk, injector>>

(* Mutant: the scan goes on after the file was published.                  *)
RenameFirst ==
  /\ stage = "rename" /\ Goto("patch")
  /\ ready' = tmp /\ tmp' = NoFile
  /\ UNCHANGED <<process, pages, built, tries, page, stubs, opds, at, found, pos,
                 injector>>

RenameTmp ==
  /\ stage = "rename" /\ Goto("running")
  /\ \/ ready' = tmp /\ tmp' = NoFile
     \/ UNCHANGED disk
  /\ UNCHANGED <<process, pages, built, tries, page, stubs, opds, at, found, pos,
                 injector>>

-----------------------------------------------------------------------------
(* The game.                                                               *)

NoImage ==
  /\ stage' = "none" /\ tries' = FirstTry /\ page' = NoPage
  /\ stubs' = 0 /\ opds' = 0 /\ at' = 1 /\ found' = [h \in Hook |-> 0] /\ pos' = 0

(* libusbd is loaded when the game first needs it.                         *)
LoadLibusbd ==
  /\ ~libusbd /\ libusbd' = TRUE
  /\ UNCHANGED <<games, word, preamble, base, pages, built, image, disk, injector>>

(* The dynamic linker fills in a word when the game first uses it.         *)
Resolve(w) ==
  /\ libusbd /\ word[w] = Unresolved
  /\ word' = [word EXCEPT ![w] = Libusbd]
  /\ UNCHANGED <<games, libusbd, preamble, base, pages, built, image, disk,
                 injector>>

(* The game ends at any moment and is started again.                       *)
GameExit ==
  /\ games < MaxGames /\ games' = games + 1
  /\ libusbd' = FALSE
  /\ word' = [w \in 1 .. Words |-> Unresolved]
  /\ preamble' = [h \in Preamble |-> NoPage]
  /\ base' = pages
  /\ NoImage
  /\ UNCHANGED <<pages, built, disk, injector>>

-----------------------------------------------------------------------------
(* The injector.  Each of its requests goes to a process it found before;  *)
(* one to a process that is gone fails.                                    *)

Moves(s) == inj' = s /\ UNCHANGED <<process, pages, built, disk>>

Ends == Moves("idle") /\ pid' = 0 /\ waits' = 0 /\ got' = NoPage /\ next' = 1

Begin ==
  /\ inj = "idle"
  /\ Moves("unload") /\ pid' = games
  /\ UNCHANGED <<waits, got, next, image>>

(* module_stop, and the image is gone, or the request fails.  What was     *)
(* redirected stays redirected and the page allocated.  The file that is   *)
(* deleted next has the name of the ready file but is in /dev_hdd0/tmp.    *)
Unload ==
  /\ inj = "unload" /\ Moves("load")
  /\ \/ pid = games /\ stage \in {"running", "failed"} /\ NoImage
     \/ UNCHANGED image
  /\ UNCHANGED <<pid, waits, got, next>>

(* module_start; the worker's way to usb_hook_init is module Worker.  Up to*)
(* three requests, of which one may load the plugin.  The injector goes on *)
(* after any answer, whatever it says, and gives up after three that did   *)
(* not come: neither tells whether the plugin was loaded.                  *)
Load ==
  /\ inj = "load"
  /\ \/ /\ pid = games /\ stage = "none" /\ pages < MaxPage
        /\ stage' = "search"
        /\ UNCHANGED <<tries, page, stubs, opds, at, found, pos>>
     \/ UNCHANGED image
  /\ \/ Moves("wait") /\ UNCHANGED <<pid, waits, got, next>>
     \/ Ends

(* What pollInitProgress finds in the log has no consequence.              *)
Named(f) == IF f.whole THEN f.page ELSE Garbage

Await ==
  /\ inj = "wait"
  /\ \/ /\ ready # NoFile
        /\ got' = Named(ready) /\ Moves("probe") /\ UNCHANGED waits
        /\ UNCHANGED <<pid, next>>
     \/ /\ waits + 1 < MaxWaits
        /\ Moves("wait") /\ waits' = waits + 1 /\ UNCHANGED <<pid, got, next>>
     \/ waits + 1 >= MaxWaits /\ Ends
  /\ UNCHANGED image

(* It looks for libusbd itself, at fewer addresses than the plugin.        *)
SmartProbe ==
  /\ inj = "probe"
  /\ \/ /\ pid = games /\ libusbd
        /\ Moves("write") /\ UNCHANGED <<pid, waits, got, next>>
     \/ Ends
  /\ UNCHANGED image

(* Four instructions at the start of the function that jump to the page;   *)
(* a request that fails is passed over.                                    *)
WritePreamble ==
  /\ inj = "write" /\ next <= NPreambles
  /\ next' = next + 1
  /\ \/ pid = games /\ preamble' = [preamble EXCEPT ![next] = got]
     \/ UNCHANGED preamble
  /\ UNCHANGED <<games, libusbd, word, base, pages, built, image, disk, inj, pid,
                 waits, got>>

Finish ==
  /\ inj = "write" /\ next > NPreambles
  /\ Ends /\ UNCHANGED image

-----------------------------------------------------------------------------
InitStep ==
  \/ Search \/ Allocate \/ Stub \/ Opd \/ OpenProbe \/ Patch \/ Patched
  \/ OpenTmp \/ WriteTmp \/ CloseTmp \/ RenameTmp

InjectorStep ==
  Unload \/ Load \/ Await \/ SmartProbe \/ WritePreamble \/ Finish

GameStep ==
  LoadLibusbd \/ (\E w \in 1 .. Words : Resolve(w)) \/ GameExit

Next == InitStep \/ InjectorStep \/ GameStep \/ Begin

Spec == Init /\ [][Next]_vars

(* The plugin's worker and the injector are scheduled; the game and the    *)
(* user do as they like.                                                   *)
FairSpec == Spec /\ WF_vars(InitStep) /\ WF_vars(InjectorStep)

-----------------------------------------------------------------------------
(* Properties.                                                             *)

(* Pages of the process that runs now.                                     *)
Own == base + 1 .. pages

(* A call of the game that was redirected finds a complete page of its own *)
(* process, at whatever moment the game makes it.                          *)
CallsFindHooks ==
  \A w \in 1 .. Words : word[w] \in {Unresolved, Libusbd} \union (built \intersect Own)

(* Once the file names the page of the plugin that runs, no word is        *)
(* redirected any more: ready means ready.                                 *)
ReadyMeansReady ==
  ready # NoFile /\ ready.page = page => stage = "running"

(* The report fits the buffer it is formatted in (usb_hooks.c:350), with   *)
(* the zero at its end.                                                    *)
ReportFits == pos < BufLen

(* The ready file is what module Publication promises.                     *)
Published == INSTANCE Publication WITH
  published <- IF ready = NoFile THEN NoPage ELSE Named(ready),
  installed <- {preamble[h] : h \in Preamble} \ {NoPage}

IsPublication == Published!Spec

(* The inductive invariant: what each stage of usb_hook_init has behind it,*)
(* and what the file, the injector and libusbd know of it.                 *)
Stages ==
  /\ page # NoPage => page \in Own
  /\ stage \in {"none", "search", "alloc", "failed"} <=> page = NoPage
  /\ stage \in {"stubs", "opds"} => page \notin built
  /\ stage \in {"probe", "patch", "open", "write", "close", "rename"} =>
       page \in built
  /\ stage = "write" => tmp = [page |-> page, whole |-> FALSE]
  /\ stage \in {"close", "rename"} => tmp = [page |-> page, whole |-> TRUE]

FileIsKnown ==
  ready # NoFile =>
    /\ ready.whole /\ ready.page \in built
    /\ page # NoPage => ready.page <= page
    /\ page # NoPage /\ ready.page = page => stage = "running"

Known(p) == p # NoPage => ready # NoFile /\ p \in built /\ p <= ready.page

ReadIsKnown ==
  /\ inj \in {"probe", "write"} => got # NoPage
  /\ Known(got) /\ \A h \in Preamble : Known(preamble[h])

IInv ==
  /\ TypeOK /\ Stages /\ FileIsKnown /\ ReadIsKnown
  /\ CallsFindHooks /\ ReadyMeansReady /\ ReportFits

(* The plugin's search and the injector's waits come to an end, whatever   *)
(* the other side does.                                                    *)
WaitsEnd ==
  /\ (stage = "search") ~> (stage # "search")
  /\ (inj # "idle") ~> (inj = "idle")

(* "Delete stale papertrail files BEFORE injection so we can detect whether*)
(* module_start actually runs (vs reading old files)." (inject-sprx.js:252)*)
(* What the injector installs is a page of the process it installs it in.  *)
PreamblesAreFresh ==
  \A h \in Preamble : preamble[h] # NoPage => preamble[h] \in Own

=============================================================================
