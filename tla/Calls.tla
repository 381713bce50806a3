-------------------------------- MODULE Calls --------------------------------
(***************************************************************************)
(* Calls between the game, the plugin and libusbd (sprx-plugin).           *)
(*                                                                         *)
(* Each of the three has a table of contents (TOC) that r2 must point to   *)
(* while its code runs.  A call of the game that was redirected runs a     *)
(* trampoline, whose instructions create_hook_trampoline writes as numbers *)
(* (trampoline_gen.c); the hook may pass it on to libusbd or call the game *)
(* back, and the game may call again from there.  The worker calls the     *)
(* game through inline assembly (call_game_opd, main.c).                   *)
(*                                                                         *)
(* One thread is modelled: threads share neither registers nor stacks, and *)
(* none of this code keeps anything elsewhere.  Instructions are executed  *)
(* from their encodings.  A place in the code is <<kind, hook, index>>; in *)
(* compiled code index 0 is the entry, 1 the body, 2 the return from a     *)
(* call.  Of a stack frame only the words the code uses are kept: +4,      *)
(* where whoever is called saves the link register, and +0x28, for r2.     *)
(***************************************************************************)
EXTENDS Integers, Sequences

CONSTANTS
  NHooks,      \* functions hooked (8)
  Params,      \* Params[h]: the hook's parameters, the TOC not counted
  TocReg,      \* TocReg[h]: the register its trampoline puts the TOC in
  Passes,      \* hooks that may pass a call on to libusbd
  CallsBack,   \* hooks that may call the game back (done_cb)
  HookAt,      \* HookAt[h]: the address of the hook's code
  GameAt,      \* the address of the game's functions
  Sprx, GameToc, LibToc,  \* the TOC of the plugin, the game and libusbd
  MaxDepth     \* frames on the stack (bound)

Hook == 1 .. NHooks
Reg  == 0 .. 31 \ {1}     \* r1 is the stack

ASSUME CallsAssumption ==
  /\ NHooks \in Nat /\ MaxDepth \in Nat \ {0}
  /\ Params \in [Hook -> 0 .. 7]
  /\ TocReg \in [Hook -> 3 .. 10] /\ \A h \in Hook : TocReg[h] = 3 + Params[h]
  /\ Passes \subseteq Hook /\ CallsBack \subseteq Hook
  /\ HookAt \in [Hook -> Nat]
  /\ \A h \in Hook : HookAt[h] # GameAt /\ HookAt[h] \div 65536 < 32768
  /\ \A h, k \in Hook : HookAt[h] = HookAt[k] => h = k
  /\ GameAt \in Nat /\ GameToc \in Nat /\ LibToc \in Nat
  /\ Sprx \in Nat /\ Sprx \div 65536 < 32768

VARIABLES
  pc,     \* where the thread is
  gpr,    \* the general registers
  lr,     \* the link register
  ctr,    \* the count register
  stack   \* the frames

vars == <<pc, gpr, lr, ctr, stack>>

n   == Len(stack)
Top == stack[n]

Junk    == 0
Nowhere == <<"nowhere", 0, 0>>

(* A frame: whose it is, its size, its two words; "given" is the TOC that  *)
(* was in r2 on entry or, of a hook, its parameter game_toc.               *)
NewFrame(of, h, size, given) ==
  [of |-> of, h |-> h, size |-> size, given |-> given, lr |-> Nowhere, toc |-> Junk]

Init ==
  /\ \/ pc = <<"game", 0, 1>>   /\ gpr = [r \in Reg |-> IF r = 2 THEN GameToc ELSE Junk]
     \/ pc = <<"worker", 0, 1>> /\ gpr = [r \in Reg |-> IF r = 2 THEN Sprx ELSE Junk]
  /\ lr = Nowhere /\ ctr = Junk
  /\ stack = <<NewFrame(pc[1], 0, 112, gpr[2])>>

-----------------------------------------------------------------------------
(* Instructions.  A word is given by its two halves.                       *)

(* create_hook_trampoline, as first written: "mr r2, toc_arg_reg".         *)
(* Mutant.                                                                 *)
TrampolineOld(h) ==
  << <<\h9421, \hFFA0>>, <<\h7C08, \h02A6>>, <<\h9001, \h0064>>,
     <<\h9041, \h0028>>, <<\h7C00 + TocReg[h] * 32 + 2, \h1378>>,
     <<\h3C40, Sprx \div 65536>>, <<\h6042, Sprx % 65536>>,
     <<\h3D80, HookAt[h] \div 65536>>, <<\h618C, HookAt[h] % 65536>>,
     <<\h7D89, \h03A6>>, <<\h4E80, \h0421>>, <<\h8041, \h0028>>,
     <<\h8001, \h0064>>, <<\h7C08, \h03A6>>, <<\h3821, \h0060>>,
     <<\h4E80, \h0020>> >>

(* Mutant: the link register in the trampoline's own frame, where the hook *)
(* saves its own.                                                          *)
TrampolineOwn(h) ==
  << <<\h9421, \hFFA0>>, <<\h7C08, \h02A6>>, <<\h9001, \h0004>>,
     <<\h9041, \h0028>>, <<\h7C40 + TocReg[h], \h1378>>,
     <<\h3C40, Sprx \div 65536>>, <<\h6042, Sprx % 65536>>,
     <<\h3D80, HookAt[h] \div 65536>>, <<\h618C, HookAt[h] % 65536>>,
     <<\h7D89, \h03A6>>, <<\h4E80, \h0421>>, <<\h8041, \h0028>>,
     <<\h8001, \h0004>>, <<\h7C08, \h03A6>>, <<\h3821, \h0060>>,
     <<\h4E80, \h0020>> >>

(* Mutant: the hook's address in r4, the second argument, not in r12.      *)
TrampolineScratch(h) ==
  << <<\h9421, \hFFA0>>, <<\h7C08, \h02A6>>, <<\h9001, \h0064>>,
     <<\h9041, \h0028>>, <<\h7C40 + TocReg[h], \h1378>>,
     <<\h3C40, Sprx \div 65536>>, <<\h6042, Sprx % 65536>>,
     <<\h3C80, HookAt[h] \div 65536>>, <<\h6084, HookAt[h] % 65536>>,
     <<\h7C89, \h03A6>>, <<\h4E80, \h0421>>, <<\h8041, \h0028>>,
     <<\h8001, \h0064>>, <<\h7C08, \h03A6>>, <<\h3821, \h0060>>,
     <<\h4E80, \h0020>> >>

Trampoline(h) ==
  << <<\h9421, \hFFA0>>, <<\h7C08, \h02A6>>, <<\h9001, \h0064>>,
     <<\h9041, \h0028>>, <<\h7C40 + TocReg[h], \h1378>>,
     <<\h3C40, Sprx \div 65536>>, <<\h6042, Sprx % 65536>>,
     <<\h3D80, HookAt[h] \div 65536>>, <<\h618C, HookAt[h] % 65536>>,
     <<\h7D89, \h03A6>>, <<\h4E80, \h0421>>, <<\h8041, \h0028>>,
     <<\h8001, \h0064>>, <<\h7C08, \h03A6>>, <<\h3821, \h0060>>,
     <<\h4E80, \h0020>> >>

Instr(op, t, a, i) == [op |-> op, t |-> t, a |-> a, i |-> i]

(* The instructions that occur.  lis is addis with register field 0, mr is *)
(* or of a register with itself, and a bit of the word in bcctr links.     *)
Decode(w) ==
  LET op == w[1] \div 1024
      t  == (w[1] \div 32) % 32
      a  == w[1] % 32
      b  == w[2] \div 2048
      xo == (w[2] \div 2) % 1024
      d  == IF w[2] < 32768 THEN w[2] ELSE w[2] - 65536
  IN  CASE op = 37 /\ t = 1 /\ a = 1 -> Instr("stwu", t, a, d)
        [] op = 36 /\ a = 1          -> Instr("stw", t, a, d)
        [] op = 32 /\ a = 1          -> Instr("lwz", t, a, d)
        [] op = 14 /\ t = 1 /\ a = 1 -> Instr("addi", t, a, d)
        [] op = 15 /\ a = 0          -> Instr("lis", t, a, w[2])
        [] op = 24                   -> Instr("ori", t, a, w[2])
        [] op = 31 /\ xo = 444       -> Instr("or", t, a, b)
        [] op = 31 /\ xo = 339 /\ a = 8 /\ b = 0 -> Instr("mflr", t, 0, 0)
        [] op = 31 /\ xo = 467 /\ a = 8 /\ b = 0 -> Instr("mtlr", t, 0, 0)
        [] op = 31 /\ xo = 467 /\ a = 9 /\ b = 0 -> Instr("mtctr", t, 0, 0)
        [] op = 19 /\ xo = 528 /\ w[2] % 2 = 1   -> Instr("bctrl", t, a, 0)
        [] op = 19 /\ xo = 16 /\ w[2] % 2 = 0    -> Instr("blr", t, a, 0)
        [] OTHER -> Instr("illegal", 0, 0, 0)

(* call_game_opd's assembly, its operands in r31 (code) and r30 (toc): any *)
(* but those it says it destroys.                                          *)
(* Mutant: the TOC in r11, which is volatile.                              *)
CallGameVolatile ==
  << Instr("stwu", 1, 1, -128), Instr("mflr", 0, 0, 0), Instr("stw", 0, 1, 132),
     Instr("or", 2, 11, 2), Instr("or", 30, 2, 30), Instr("mtctr", 31, 0, 0),
     Instr("or", 29, 3, 29), Instr("bctrl", 20, 0, 0), Instr("or", 11, 2, 11),
     Instr("lwz", 0, 1, 132), Instr("mtlr", 0, 0, 0), Instr("addi", 1, 1, 128) >>

CallGame ==
  << Instr("stwu", 1, 1, -128), Instr("mflr", 0, 0, 0), Instr("stw", 0, 1, 132),
     Instr("stw", 2, 1, 40), Instr("or", 30, 2, 30), Instr("mtctr", 31, 0, 0),
     Instr("or", 29, 3, 29), Instr("bctrl", 20, 0, 0), Instr("lwz", 2, 1, 40),
     Instr("lwz", 0, 1, 132), Instr("mtlr", 0, 0, 0), Instr("addi", 1, 1, 128) >>

-----------------------------------------------------------------------------
(* Execution.                                                              *)

NextPc == [pc EXCEPT ![3] = @ + 1]

(* The word at d(r1): in this frame or in the one below.                   *)
Place(d) ==
  IF d < Top.size THEN [frame |-> n, word |-> d]
  ELSE [frame |-> n - 1, word |-> d - Top.size]

Stwu(x) ==
  /\ x.op = "stwu"
  /\ stack' = Append(stack, NewFrame(pc[1], pc[2], 0 - x.i, gpr[2]))
  /\ pc' = NextPc /\ UNCHANGED <<gpr, lr, ctr>>

Stw(x) ==
  /\ x.op = "stw"
  /\ LET p == Place(x.i)
     IN  \/ p.word = 4  /\ stack' = [stack EXCEPT ![p.frame].lr = gpr[x.t]]
         \/ p.word = 40 /\ stack' = [stack EXCEPT ![p.frame].toc = gpr[x.t]]
  /\ pc' = NextPc /\ UNCHANGED <<gpr, lr, ctr>>

Lwz(x) ==
  /\ x.op = "lwz"
  /\ LET p == Place(x.i)
     IN  \/ p.word = 4  /\ gpr' = [gpr EXCEPT ![x.t] = stack[p.frame].lr]
         \/ p.word = 40 /\ gpr' = [gpr EXCEPT ![x.t] = stack[p.frame].toc]
  /\ pc' = NextPc /\ UNCHANGED <<lr, ctr, stack>>

Addi(x) ==
  /\ x.op = "addi" /\ x.i = Top.size
  /\ stack' = SubSeq(stack, 1, n - 1)
  /\ pc' = NextPc /\ UNCHANGED <<gpr, lr, ctr>>

(* The low half that ori fills in is zero here.                            *)
Compute(x) ==
  /\ \/ x.op = "lis"  /\ gpr' = [gpr EXCEPT ![x.t] = x.i * 65536]
     \/ x.op = "ori"  /\ gpr' = [gpr EXCEPT ![x.a] = gpr[x.t] + x.i]
     \/ x.op = "or"   /\ gpr' = [gpr EXCEPT ![x.a] = IF x.t = x.i THEN gpr[x.t] ELSE Junk]
     \/ x.op = "mflr" /\ gpr' = [gpr EXCEPT ![x.t] = lr]
  /\ pc' = NextPc /\ UNCHANGED <<lr, ctr, stack>>

Move(x) ==
  /\ \/ x.op = "mtlr"  /\ lr' = gpr[x.t] /\ UNCHANGED ctr
     \/ x.op = "mtctr" /\ ctr' = gpr[x.t] /\ UNCHANGED lr
  /\ pc' = NextPc /\ UNCHANGED <<gpr, stack>>

Branch(x) ==
  /\ \/ /\ x.op = "bctrl" /\ lr' = NextPc
        /\ \/ \E h \in Hook : ctr = HookAt[h] /\ pc' = <<"hook", h, 0>>
           \/ ctr = GameAt /\ pc' = <<"game", 0, 0>>
     \/ x.op = "blr" /\ pc' = lr /\ UNCHANGED lr
  /\ UNCHANGED <<gpr, ctr, stack>>

Execute(x) ==
  \/ Stwu(x) \/ Stw(x) \/ Lwz(x) \/ Addi(x) \/ Compute(x) \/ Move(x) \/ Branch(x)

RunTrampoline ==
  \E h \in Hook, i \in 1 .. 16 :
    pc = <<"tramp", h, i - 1>> /\ Execute(Decode(Trampoline(h)[i]))

RunAssembly ==
  \E i \in 1 .. Len(CallGame) : pc = <<"asm", 0, i - 1>> /\ Execute(CallGame[i])

-----------------------------------------------------------------------------
(* Compiled code.  It saves the link register in the frame below its own,  *)
(* calls through a descriptor (OPD) after saving r2, which the call loads  *)
(* from the descriptor, and restores r2 on return.  Of the registers it    *)
(* preserves r2 and r13 on.                                                *)

Destroyed == [r \in Reg |-> IF r \in {0} \union 3 .. 12 THEN Junk ELSE gpr[r]]

(* A hook keeps its last parameter.                                        *)
Enter ==
  /\ pc[1] \in {"game", "hook", "lib"} /\ pc[3] = 0
  /\ stack' = Append([stack EXCEPT ![n].lr = lr],
                     NewFrame(pc[1], pc[2], 112,
                              IF pc[1] = "hook" THEN gpr[3 + Params[pc[2]]] ELSE gpr[2]))
  /\ pc' = NextPc /\ gpr' = Destroyed /\ ctr' = Junk /\ UNCHANGED lr

CallTo(place, toc) ==
  /\ n < MaxDepth
  /\ stack' = [stack EXCEPT ![n].toc = gpr[2]]
  /\ gpr' = [gpr EXCEPT ![2] = toc]
  /\ lr' = NextPc /\ pc' = place /\ UNCHANGED ctr

(* The game calls libusbd: through a word that was redirected, to a        *)
(* descriptor with the plugin's TOC (usb_hooks.c:1306), or by libusbd's own*)
(* descriptor, and the start of the function jumps to the trampoline.      *)
CallByWord ==
  /\ pc = <<"game", 0, 1>>
  /\ \E h \in Hook : CallTo(<<"tramp", h, 0>>, Sprx)

CallByPreamble ==
  /\ pc = <<"game", 0, 1>>
  /\ \E h \in Hook : CallTo(<<"tramp", h, 0>>, LibToc)

(* The hook passes the call on, past the preamble.                         *)
PassOn ==
  /\ pc[1] = "hook" /\ pc[3] = 1 /\ pc[2] \in Passes
  /\ CallTo(<<"lib", pc[2], 0>>, Top.given)

CallBack ==
  /\ pc[1] = "hook" /\ pc[3] = 1 /\ pc[2] \in CallsBack
  /\ CallTo(<<"game", 0, 0>>, GameToc)

(* The worker calls probe or attach.                                       *)
Trigger ==
  /\ pc = <<"worker", 0, 1>> /\ n < MaxDepth
  /\ gpr' = [gpr EXCEPT ![30] = GameToc, ![31] = GameAt]
  /\ pc' = <<"asm", 0, 0>> /\ UNCHANGED <<lr, ctr, stack>>

Triggered ==
  /\ pc = <<"asm", 0, Len(CallGame)>>
  /\ pc' = <<"worker", 0, 1>> /\ gpr' = Destroyed /\ UNCHANGED <<lr, ctr, stack>>

Return ==
  /\ pc[1] \in {"game", "hook", "lib"} /\ pc[3] = 1 /\ n > 1
  /\ stack' = SubSeq(stack, 1, n - 1)
  /\ pc' = stack[n - 1].lr /\ lr' = pc' /\ UNCHANGED <<gpr, ctr>>

Resume ==
  /\ pc[1] \in {"game", "hook"} /\ pc[3] = 2
  /\ pc' = [pc EXCEPT ![3] = 1]
  /\ gpr' = [Destroyed EXCEPT ![2] = Top.toc]
  /\ UNCHANGED <<lr, ctr, stack>>

Next ==
  \/ RunTrampoline \/ RunAssembly
  \/ Enter \/ CallByWord \/ CallByPreamble \/ PassOn \/ CallBack
  \/ Trigger \/ Triggered \/ Return \/ Resume

Spec == Init /\ [][Next]_vars

-----------------------------------------------------------------------------
(* Properties.                                                             *)

(* The game, the hooks and the worker run with their own TOC in r2.        *)
(* (libusbd does not always: see PassesEntryToc.)                          *)
OwnToc ==
  /\ pc = <<"game", 0, 1>> => gpr[2] = GameToc
  /\ pc[1] = "hook" /\ pc[3] = 1 => gpr[2] = Sprx
  /\ pc = <<"worker", 0, 1>> => gpr[2] = Sprx

(* A return ends in the code whose frame is on the top of the stack.       *)
ReturnsToItsFrame ==
  \/ pc[1] \in {"game", "hook", "lib", "worker"} /\ pc[3] \in {1, 2}
  \/ pc[1] = "tramp" /\ pc[3] \in 1 .. 14
  \/ pc[1] = "asm" /\ pc[3] \in 1 .. 11
  => Top.of = pc[1] /\ Top.h = pc[2]

(* What r2 holds on entry to a trampoline: the plugin's TOC after a call by*)
(* a redirected word, libusbd's after one by libusbd's own descriptor.     *)
EntryToc == {Sprx, LibToc}

(* A call that is passed on runs in libusbd with what r2 held when its     *)
(* trampoline was entered, not with what the hook's code or an inner call  *)
(* left behind.  That is libusbd's TOC if the call came by its descriptor, *)
(* but the plugin's if it came by a redirected word, and in neither case   *)
(* the game's, with which the comments at usb_hooks.c:554-556 and 696 say  *)
(* libusbd is called.                                                      *)
PassesEntryToc ==
  pc[1] = "lib" /\ pc[3] = 1 =>
    /\ stack[n - 2].of = "tramp" /\ stack[n - 2].h = pc[2]
    /\ gpr[2] = stack[n - 2].given
    /\ gpr[2] \in EntryToc

(* A step that leaves the registers R alone.                               *)
Keeps(R) == \A r \in R : gpr'[r] = gpr[r]

(* The code that is written by hand is not seen by those it stands between:*)
(* the trampoline hands the hook the caller's arguments, and the caller the*)
(* hook's result; call_game_opd hands on the result of the game; both leave*)
(* alone the registers a call preserves.                                   *)
CallsAreTransparent ==
  [][ /\ pc[1] = "tramp" => Keeps(3 .. 2 + Params[pc[2]])
      /\ pc[1] = "tramp" /\ pc[3] \in 11 .. 15 => Keeps({3})
      /\ pc[1] = "asm" /\ pc[3] \in 8 .. 11 => Keeps({3})
      /\ pc[1] \in {"tramp", "asm"} => Keeps(13 .. 31) ]_vars

(* The inductive invariant: who may be on top of whom on the stack, what   *)
(* the words of the frames below the top hold, and what the registers hold *)
(* at each instruction.                                                    *)
Place3 == {"game", "hook", "lib", "worker", "tramp", "asm", "nowhere"} \X Nat \X Nat
Frame  == [of : {"game", "hook", "lib", "worker", "tramp", "asm"}, h : Nat,
           size : {96, 112, 128}, given : Nat, lr : Place3, toc : Nat]

On(f, g) ==
  /\ g.of = "tramp" => f.of = "game" /\ f.h = 0
  /\ g.of = "hook"  => f.of = "tramp" /\ f.h = g.h /\ f.given = g.given
  /\ g.of = "lib"   => f.of = "hook" /\ f.h = g.h
  /\ g.of = "asm"   => f.of = "worker" /\ f.h = 0
  /\ g.of = "game"  => f.of \in {"hook", "asm"}
  /\ g.of # "worker"

ReturnOf(f) ==
  IF f.of = "worker" THEN f.lr
  ELSE <<f.of, f.h, IF f.of = "tramp" THEN 11 ELSE IF f.of = "asm" THEN 8 ELSE 2>>

TocOf(f) ==
  IF f.of = "worker" THEN f.toc
  ELSE IF f.of = "tramp" THEN f.given
  ELSE IF f.of = "game" THEN GameToc ELSE Sprx

Sound(f) ==
  /\ f.of = "tramp" => f.size = 96 /\ f.h \in Hook /\ f.given \in EntryToc
  /\ f.of = "asm" => f.size = 128 /\ f.h = 0
  /\ f.of = "hook" => f.h \in Hook
  /\ f.of \in {"game", "worker"} => f.h = 0

Chain(s) ==
  /\ s \in Seq(Frame) /\ Len(s) > 0
  /\ \A k \in 1 .. Len(s) : Sound(s[k])
  /\ \A k \in 1 .. Len(s) - 1 : On(s[k], s[k + 1]) /\ s[k].toc = TocOf(s[k])
  /\ \A k \in 1 .. Len(s) - 2 : s[k].lr = ReturnOf(s[k])

Linked(s) == Len(s) > 1 => s[Len(s) - 1].lr = ReturnOf(s[Len(s) - 1])

High(v) == (v \div 65536) * 65536

InTrampoline(h, i) ==
  /\ i \in 1 .. 14 => Top.of = "tramp" /\ Top.h = h /\ n > 1
  /\ i \in {0, 15} => Top.of = "game" /\ Top.toc = GameToc /\ lr = ReturnOf(Top)
  /\ i = 0 => gpr[2] \in EntryToc
  /\ i \in 1 .. 5 => gpr[2] = Top.given
  /\ i \in {1, 14} => lr = ReturnOf(stack[n - 1])
  /\ i \in {2, 13} => gpr[0] = ReturnOf(stack[n - 1])
  /\ i \in 4 .. 14 => Top.toc = Top.given
  /\ i \in 5 .. 10 => gpr[TocReg[h]] = Top.given
  /\ i = 6 => gpr[2] = High(Sprx)
  /\ i \in 7 .. 10 => gpr[2] = Sprx
  /\ i = 8 => gpr[12] = High(HookAt[h])
  /\ i = 9 => gpr[12] = HookAt[h]
  /\ i = 10 => ctr = HookAt[h]
  /\ i \notin {1, 2} => Linked(stack)

InAssembly(i) ==
  /\ i \in 1 .. 11 => Top.of = "asm" /\ n > 1
  /\ i \in {0, 12} => Top.of = "worker" /\ n = 1
  /\ i \in 0 .. 3 \union 9 .. 12 => gpr[2] = Sprx
  /\ i \in {2, 10} => gpr[0] \in Place3
  /\ i \in 4 .. 11 => Top.toc = Sprx
  /\ i \in 0 .. 4 => gpr[30] = GameToc
  /\ i \in 0 .. 5 => gpr[31] = GameAt
  /\ i \in 5 .. 7 => gpr[2] = GameToc
  /\ i \in 6 .. 7 => ctr = GameAt
  /\ i \notin {1, 2} => Linked(stack)

InCode(kind, h, i) ==
  /\ i \in 0 .. 2 /\ Linked(stack)
  /\ i = 0 =>
       /\ Top.toc = TocOf(Top) /\ lr = ReturnOf(Top) /\ Top.of # "worker"
       /\ kind = "game" => h = 0 /\ Top.of \in {"hook", "asm"} /\ gpr[2] = GameToc
       /\ kind = "hook" => /\ Top.of = "tramp" /\ Top.h = h /\ gpr[2] = Sprx
                           /\ gpr[TocReg[h]] = Top.given
       /\ kind = "lib"  => Top.of = "hook" /\ Top.h = h /\ gpr[2] = Top.given
       /\ kind # "worker"
  /\ i = 1 =>
       /\ Top.of = kind /\ Top.h = h
       /\ kind = "game" => gpr[2] = GameToc
       /\ kind \in {"hook", "worker"} => gpr[2] = Sprx
       /\ kind = "worker" => n = 1
       /\ kind = "lib" => n > 1 /\ gpr[2] = stack[n - 1].given
  /\ i = 2 =>
       /\ kind \in {"game", "hook"}
       /\ Top.of = kind /\ Top.h = h /\ Top.toc = TocOf(Top)

IInv ==
  /\ pc \in Place3 /\ lr \in Place3 /\ ctr \in Nat
  /\ gpr = [r \in Reg |-> gpr[r]] /\ gpr[2] \in Nat
  /\ Chain(stack) /\ stack[1].of \in {"game", "worker"}
  /\ pc[1] # "nowhere"
  /\ pc[1] = "tramp" => pc[2] \in Hook /\ pc[3] \in 0 .. 15 /\ InTrampoline(pc[2], pc[3])
  /\ pc[1] = "asm" => pc[2] = 0 /\ pc[3] \in 0 .. 12 /\ InAssembly(pc[3])
  /\ pc[1] \in {"game", "hook", "lib", "worker"} => InCode(pc[1], pc[2], pc[3])

=============================================================================
