----------------------------- MODULE Calls_proofs ----------------------------
(***************************************************************************)
(* Proofs about Calls, for any number of hooks, any addresses and any depth*)
(* of the stack.                                                           *)
(***************************************************************************)
EXTENDS Calls, TLAPS

-----------------------------------------------------------------------------
(* What the words that create_hook_trampoline writes mean.                 *)

(* A half of a word.                                                       *)
IsHalf(i) == i \in Nat /\ i < 65536

LEMMA Halves ==
  ASSUME NEW v \in Nat
  PROVE  /\ v \div 65536 \in Nat /\ IsHalf(v % 65536)
         /\ High(v) + (v % 65536) = v /\ High(v) \in Nat
<1>1. v \div 65536 \in Nat /\ IsHalf(v % 65536)
  BY DEF IsHalf
<1>2. High(v) + (v % 65536) = v /\ High(v) \in Nat
  BY DEF High
<1>3. QED  BY <1>1, <1>2

LEMMA DecodeMr ==
  ASSUME NEW r \in 3 .. 10
  PROVE  Decode(<<\h7C40 + r, \h1378>>) = Instr("or", 2, r, 2)
<1>1. /\ (\h7C40 + r) \div 1024 = 31
      /\ ((\h7C40 + r) \div 32) % 32 = 2
      /\ (\h7C40 + r) % 32 = r
  OBVIOUS
<1>2. QED  BY <1>1 DEF Decode

LEMMA Constants ==
  /\ Sprx \in Nat /\ IsHalf(Sprx \div 65536) /\ IsHalf(Sprx % 65536)
  /\ GameAt \in Nat /\ GameToc \in Nat /\ LibToc \in Nat
  /\ \A h \in Hook : /\ h \in Nat /\ HookAt[h] \in Nat /\ HookAt[h] # GameAt
                     /\ IsHalf(HookAt[h] \div 65536)
                     /\ IsHalf(HookAt[h] % 65536)
                     /\ TocReg[h] \in 3 .. 10 /\ TocReg[h] = 3 + Params[h]
<1>1. ASSUME NEW v \in Nat, v \div 65536 < 32768
      PROVE  IsHalf(v \div 65536) /\ IsHalf(v % 65536)
  <2>1. v \div 65536 \in Nat /\ IsHalf(v % 65536)
    BY Halves
  <2>2. QED  BY <1>1, <2>1 DEF IsHalf
<1>2. Sprx \in Nat /\ Sprx \div 65536 < 32768
  BY CallsAssumption
<1>3. IsHalf(Sprx \div 65536) /\ IsHalf(Sprx % 65536)
  BY <1>1, <1>2
<1>4. ASSUME NEW h \in Hook
      PROVE  /\ h \in Nat /\ HookAt[h] \in Nat /\ HookAt[h] # GameAt
             /\ IsHalf(HookAt[h] \div 65536)
             /\ IsHalf(HookAt[h] % 65536)
             /\ TocReg[h] \in 3 .. 10 /\ TocReg[h] = 3 + Params[h]
  <2>1. HookAt[h] \in Nat /\ HookAt[h] # GameAt /\ HookAt[h] \div 65536 < 32768
    BY CallsAssumption
  <2>2. h \in Nat /\ TocReg[h] \in 3 .. 10 /\ TocReg[h] = 3 + Params[h]
    BY CallsAssumption DEF Hook
  <2>3. IsHalf(HookAt[h] \div 65536) /\ IsHalf(HookAt[h] % 65536)
    BY <1>1, <2>1
  <2>4. QED  BY <2>1, <2>2, <2>3
<1>5. GameAt \in Nat /\ GameToc \in Nat /\ LibToc \in Nat
  BY CallsAssumption
<1>6. QED  BY <1>2, <1>3, <1>4, <1>5

(* The trampoline is what its comments say (trampoline_gen.c:21).          *)
THEOREM TrampolineIsAsDocumented ==
  ASSUME NEW h \in Hook
  PROVE  /\ Decode(Trampoline(h)[1]) = Instr("stwu", 1, 1, 0 - 96)
         /\ Decode(Trampoline(h)[2]) = Instr("mflr", 0, 0, 0)
         /\ Decode(Trampoline(h)[3]) = Instr("stw", 0, 1, 100)
         /\ Decode(Trampoline(h)[4]) = Instr("stw", 2, 1, 40)
         /\ Decode(Trampoline(h)[5]) = Instr("or", 2, TocReg[h], 2)
         /\ Decode(Trampoline(h)[6]) = Instr("lis", 2, 0, Sprx \div 65536)
         /\ Decode(Trampoline(h)[7]) = Instr("ori", 2, 2, Sprx % 65536)
         /\ Decode(Trampoline(h)[8]) = Instr("lis", 12, 0, HookAt[h] \div 65536)
         /\ Decode(Trampoline(h)[9]) = Instr("ori", 12, 12, HookAt[h] % 65536)
         /\ Decode(Trampoline(h)[10]) = Instr("mtctr", 12, 0, 0)
         /\ Decode(Trampoline(h)[11]) = Instr("bctrl", 20, 0, 0)
         /\ Decode(Trampoline(h)[12]) = Instr("lwz", 2, 1, 40)
         /\ Decode(Trampoline(h)[13]) = Instr("lwz", 0, 1, 100)
         /\ Decode(Trampoline(h)[14]) = Instr("mtlr", 0, 0, 0)
         /\ Decode(Trampoline(h)[15]) = Instr("addi", 1, 1, 96)
         /\ Decode(Trampoline(h)[16]) = Instr("blr", 20, 0, 0)
<1>1. /\ Trampoline(h)[1] = <<\h9421, \hFFA0>> /\ Trampoline(h)[2] = <<\h7C08, \h02A6>>
      /\ Trampoline(h)[3] = <<\h9001, \h0064>> /\ Trampoline(h)[4] = <<\h9041, \h0028>>
      /\ Trampoline(h)[5] = <<\h7C40 + TocReg[h], \h1378>>
      /\ Trampoline(h)[6] = <<\h3C40, Sprx \div 65536>>
      /\ Trampoline(h)[7] = <<\h6042, Sprx % 65536>>
      /\ Trampoline(h)[8] = <<\h3D80, HookAt[h] \div 65536>>
  BY DEF Trampoline
<1>2. /\ Trampoline(h)[9] = <<\h618C, HookAt[h] % 65536>>
      /\ Trampoline(h)[10] = <<\h7D89, \h03A6>> /\ Trampoline(h)[11] = <<\h4E80, \h0421>>
      /\ Trampoline(h)[12] = <<\h8041, \h0028>> /\ Trampoline(h)[13] = <<\h8001, \h0064>>
      /\ Trampoline(h)[14] = <<\h7C08, \h03A6>> /\ Trampoline(h)[15] = <<\h3821, \h0060>>
      /\ Trampoline(h)[16] = <<\h4E80, \h0020>>
  BY DEF Trampoline
<1>3. Decode(<<\h9421, \hFFA0>>) = Instr("stwu", 1, 1, 0 - 96)
  BY DEF Decode
<1>4. Decode(<<\h7C08, \h02A6>>) = Instr("mflr", 0, 0, 0)
  BY DEF Decode
<1>5. Decode(<<\h9001, \h0064>>) = Instr("stw", 0, 1, 100)
  BY DEF Decode
<1>6. Decode(<<\h9041, \h0028>>) = Instr("stw", 2, 1, 40)
  BY DEF Decode
<1>7. Decode(<<\h7C40 + TocReg[h], \h1378>>) = Instr("or", 2, TocReg[h], 2)
  <2>1. TocReg[h] \in 3 .. 10
    BY Constants
  <2>2. QED  BY <2>1, DecodeMr
<1>8. /\ Decode(<<\h3C40, Sprx \div 65536>>) = Instr("lis", 2, 0, Sprx \div 65536)
      /\ Decode(<<\h3D80, HookAt[h] \div 65536>>) = Instr("lis", 12, 0, HookAt[h] \div 65536)
  <2> DEFINE x == Sprx \div 65536
             y == HookAt[h] \div 65536
  <2>1. IsHalf(x) /\ IsHalf(y)
    BY Constants
  <2> HIDE DEF x, y
  <2>2. Decode(<<\h3C40, x>>) = Instr("lis", 2, 0, x)
    BY <2>1 DEF Decode, IsHalf
  <2>3. Decode(<<\h3D80, y>>) = Instr("lis", 12, 0, y)
    BY <2>1 DEF Decode, IsHalf
  <2>4. QED  BY <2>2, <2>3 DEF x, y
<1>9. /\ Decode(<<\h6042, Sprx % 65536>>) = Instr("ori", 2, 2, Sprx % 65536)
      /\ Decode(<<\h618C, HookAt[h] % 65536>>) = Instr("ori", 12, 12, HookAt[h] % 65536)
  <2> DEFINE x == Sprx % 65536
             y == HookAt[h] % 65536
  <2>1. IsHalf(x) /\ IsHalf(y)
    BY Constants
  <2> HIDE DEF x, y
  <2>2. Decode(<<\h6042, x>>) = Instr("ori", 2, 2, x)
    BY <2>1 DEF Decode, IsHalf
  <2>3. Decode(<<\h618C, y>>) = Instr("ori", 12, 12, y)
    BY <2>1 DEF Decode, IsHalf
  <2>4. QED  BY <2>2, <2>3 DEF x, y
<1>10. Decode(<<\h7D89, \h03A6>>) = Instr("mtctr", 12, 0, 0)
  BY DEF Decode
<1>11. Decode(<<\h4E80, \h0421>>) = Instr("bctrl", 20, 0, 0)
  BY DEF Decode
<1>12. Decode(<<\h8041, \h0028>>) = Instr("lwz", 2, 1, 40)
  BY DEF Decode
<1>13. Decode(<<\h8001, \h0064>>) = Instr("lwz", 0, 1, 100)
  BY DEF Decode
<1>14. Decode(<<\h7C08, \h03A6>>) = Instr("mtlr", 0, 0, 0)
  BY DEF Decode
<1>15. Decode(<<\h3821, \h0060>>) = Instr("addi", 1, 1, 96)
  BY DEF Decode
<1>16. Decode(<<\h4E80, \h0020>>) = Instr("blr", 20, 0, 0)
  BY DEF Decode
<1>17. QED
  BY <1>1, <1>2, <1>3, <1>4, <1>5, <1>6, <1>7, <1>8, <1>9, <1>10, <1>11, <1>12,
     <1>13, <1>14, <1>15, <1>16

-----------------------------------------------------------------------------
(* The chain of frames under pushes, pops and stores.                      *)

LEMMA PushKeepsChain ==
  ASSUME NEW s, Chain(s), Linked(s), NEW f \in Frame, Sound(f),
         On(s[Len(s)], f), s[Len(s)].toc = TocOf(s[Len(s)])
  PROVE  /\ Chain(Append(s, f)) /\ Len(Append(s, f)) = Len(s) + 1
         /\ Append(s, f)[Len(s) + 1] = f /\ Append(s, f)[Len(s)] = s[Len(s)]
         /\ Append(s, f)[1] = s[1]
<1> DEFINE t == Append(s, f)
<1>1. s \in Seq(Frame) /\ Len(s) \in Nat /\ Len(s) > 0
  BY DEF Chain
<1>2. /\ t \in Seq(Frame) /\ Len(t) = Len(s) + 1 /\ t[Len(s) + 1] = f
      /\ \A k \in 1 .. Len(s) : t[k] = s[k]
  BY <1>1
<1>3. \A k \in 1 .. Len(t) : Sound(t[k])
  BY <1>1, <1>2 DEF Chain
<1>4. ASSUME NEW k \in 1 .. Len(t) - 1 PROVE On(t[k], t[k + 1]) /\ t[k].toc = TocOf(t[k])
  <2>1. CASE k = Len(s)
    BY <1>1, <1>2, <2>1
  <2>2. CASE k # Len(s)
    <3>1. k \in 1 .. Len(s) - 1 /\ k \in 1 .. Len(s) /\ k + 1 \in 1 .. Len(s)
      BY <1>1, <1>2, <2>2
    <3>2. t[k] = s[k] /\ t[k + 1] = s[k + 1]
      BY <1>2, <3>1
    <3>3. QED  BY <3>1, <3>2 DEF Chain
  <2>3. QED  BY <2>1, <2>2
<1>5. ASSUME NEW k \in 1 .. Len(t) - 2 PROVE t[k].lr = ReturnOf(t[k])
  <2>1. k \in 1 .. Len(s) - 1 /\ t[k] = s[k]
    BY <1>1, <1>2
  <2>2. CASE k = Len(s) - 1
    BY <1>1, <2>1, <2>2 DEF Linked
  <2>3. CASE k # Len(s) - 1
    <3>1. k \in 1 .. Len(s) - 2
      BY <1>1, <2>1, <2>3
    <3>2. QED  BY <2>1, <3>1 DEF Chain
  <2>4. QED  BY <2>2, <2>3
<1>6. Len(t) > 0
  BY <1>1, <1>2
<1>7. Chain(t)
  BY <1>2, <1>3, <1>4, <1>5, <1>6 DEF Chain
<1>8. t[Len(s)] = s[Len(s)] /\ t[1] = s[1]
  BY <1>1, <1>2
<1>9. QED  BY <1>2, <1>7, <1>8

LEMMA PopKeepsChain ==
  ASSUME NEW s, Chain(s), Linked(s), Len(s) > 1,
         NEW t, t = SubSeq(s, 1, Len(s) - 1)
  PROVE  /\ Chain(t) /\ Linked(t) /\ Len(t) = Len(s) - 1
         /\ t[Len(t)] = s[Len(s) - 1] /\ t[1] = s[1]
         /\ Len(t) > 1 => t[Len(t) - 1] = s[Len(s) - 2]
         /\ s[Len(s) - 1].toc = TocOf(s[Len(s) - 1])
         /\ s[Len(s) - 1].lr = ReturnOf(s[Len(s) - 1])
         /\ On(s[Len(s) - 1], s[Len(s)])
<1>1. s \in Seq(Frame) /\ Len(s) \in Nat
  BY DEF Chain
<1>2. /\ t \in Seq(Frame) /\ Len(t) = Len(s) - 1
      /\ \A k \in 1 .. Len(s) - 1 : t[k] = s[k]
  BY <1>1
<1>3. \A k \in 1 .. Len(t) : Sound(t[k])
  BY <1>1, <1>2 DEF Chain
<1>4. ASSUME NEW k \in 1 .. Len(t) - 1 PROVE On(t[k], t[k + 1]) /\ t[k].toc = TocOf(t[k])
  <2>1. k \in 1 .. Len(s) - 1 /\ k + 1 \in 1 .. Len(s) - 1
    BY <1>1, <1>2
  <2>2. t[k] = s[k] /\ t[k + 1] = s[k + 1]
    BY <1>2, <2>1
  <2>3. QED  BY <2>1, <2>2 DEF Chain
<1>5. \A k \in 1 .. Len(t) - 1 : t[k].lr = ReturnOf(t[k])
  <2>1. ASSUME NEW k \in 1 .. Len(t) - 1 PROVE t[k].lr = ReturnOf(t[k])
    <3>1. k \in 1 .. Len(s) - 2 /\ t[k] = s[k]
      BY <1>1, <1>2
    <3>2. QED  BY <3>1 DEF Chain
  <2>2. QED  BY <2>1
<1>6. Chain(t)
  <2>1. \A k \in 1 .. Len(t) - 2 : k \in 1 .. Len(t) - 1
    BY <1>1, <1>2
  <2>2. QED  BY <1>1, <1>2, <1>3, <1>4, <1>5, <2>1 DEF Chain
<1>7. Linked(t)
  BY <1>1, <1>2, <1>5 DEF Linked
<1>8. t[Len(t)] = s[Len(s) - 1] /\ t[1] = s[1]
      /\ (Len(t) > 1 => t[Len(t) - 1] = s[Len(s) - 2])
  BY <1>1, <1>2
<1>9. /\ s[Len(s) - 1].toc = TocOf(s[Len(s) - 1]) /\ On(s[Len(s) - 1], s[Len(s)])
      /\ s[Len(s) - 1].lr = ReturnOf(s[Len(s) - 1])
  BY <1>1 DEF Chain, Linked
<1>10. QED  BY <1>2, <1>6, <1>7, <1>8, <1>9

LEMMA Updated ==
  ASSUME NEW s \in Seq(Frame), NEW j \in 1 .. Len(s), NEW g \in Frame
  PROVE  LET t == [s EXCEPT ![j] = g]
         IN  /\ t \in Seq(Frame) /\ Len(t) = Len(s)
             /\ \A k \in 1 .. Len(s) : t[k] = IF k = j THEN g ELSE s[k]
OBVIOUS

(* Writes to a frame, as names.                                            *)
WritesLr(s, t, j, v) == t = [s EXCEPT ![j].lr = v]
WritesToc(s, t, v)   == t = [s EXCEPT ![Len(s)].toc = v]
SameOwner(f, g)      == g.of = f.of

(* Storing the link register of whoever runs in the frame below.           *)
LEMMA LinkKeepsChain ==
  ASSUME NEW s, Chain(s), NEW j \in 1 .. Len(s), j >= Len(s) - 1,
         NEW v \in Place3, s[j].of = "worker" \/ v = ReturnOf(s[j]),
         NEW t, WritesLr(s, t, j, v)
  PROVE  /\ Chain(t) /\ Len(t) = Len(s)
         /\ t[j].lr = ReturnOf(t[j])
         /\ \A k \in 1 .. Len(s) : k # j => t[k] = s[k]
         /\ SameOwner(s[1], t[1]) /\ SameOwner(s[j], t[j])
         /\ t[j].h = s[j].h /\ t[j].toc = s[j].toc /\ t[j].given = s[j].given
         /\ TocOf(t[j]) = TocOf(s[j])
<1>1. s \in Seq(Frame) /\ Len(s) \in Nat /\ Len(s) > 0
  BY DEF Chain
<1>2. \A k \in 1 .. Len(s) : s[k] \in Frame
  BY <1>1
<1> DEFINE g == [of |-> s[j].of, h |-> s[j].h, size |-> s[j].size,
                 given |-> s[j].given, lr |-> v, toc |-> s[j].toc]
<1>a. g \in Frame /\ g = [s[j] EXCEPT !.lr = v]
  BY <1>2 DEF Frame
<1>c. /\ g.of = s[j].of /\ g.h = s[j].h /\ g.toc = s[j].toc
      /\ g.given = s[j].given /\ g.size = s[j].size /\ g.lr = v
  OBVIOUS
<1> HIDE DEF g
<1>b. t = [s EXCEPT ![j] = g]
  BY <1>a DEF WritesLr
<1>3. /\ t \in Seq(Frame) /\ Len(t) = Len(s)
      /\ \A k \in 1 .. Len(s) : t[k] = IF k = j THEN g ELSE s[k]
  BY <1>1, <1>a, <1>b, Updated
<1>4. ASSUME NEW k \in 1 .. Len(s)
      PROVE  /\ t[k].of = s[k].of /\ t[k].h = s[k].h /\ t[k].toc = s[k].toc
             /\ t[k].given = s[k].given /\ t[k].size = s[k].size
             /\ k # j => t[k] = s[k]
             /\ k = j => t[k].lr = v
  BY <1>3, <1>c
<1>5. ASSUME NEW k \in 1 .. Len(s)
      PROVE  /\ TocOf(t[k]) = TocOf(s[k]) /\ (Sound(s[k]) => Sound(t[k]))
             /\ s[k].of # "worker" => ReturnOf(t[k]) = ReturnOf(s[k])
             /\ s[k].of = "worker" => ReturnOf(t[k]) = t[k].lr
  <2>1. TocOf(t[k]) = TocOf(s[k])
    BY <1>4 DEF TocOf
  <2>2. Sound(s[k]) => Sound(t[k])
    BY <1>4 DEF Sound
  <2>3. /\ s[k].of # "worker" => ReturnOf(t[k]) = ReturnOf(s[k])
        /\ s[k].of = "worker" => ReturnOf(t[k]) = t[k].lr
    BY <1>4 DEF ReturnOf
  <2>4. QED  BY <2>1, <2>2, <2>3
<1>6. ASSUME NEW k \in 1 .. Len(t) - 1 PROVE On(t[k], t[k + 1]) /\ t[k].toc = TocOf(t[k])
  <2>1. k \in 1 .. Len(s) /\ k + 1 \in 1 .. Len(s) /\ k \in 1 .. Len(s) - 1
    BY <1>1, <1>3
  <2>2. On(s[k], s[k + 1]) /\ s[k].toc = TocOf(s[k])
    BY <2>1 DEF Chain
  <2>3. On(t[k], t[k + 1])
    BY <1>4, <2>1, <2>2 DEF On
  <2>4. QED  BY <1>4, <1>5, <2>1, <2>2, <2>3
<1>7. ASSUME NEW k \in 1 .. Len(t) - 2 PROVE t[k].lr = ReturnOf(t[k])
  <2>1. k \in 1 .. Len(s) - 2 /\ k \in 1 .. Len(s) /\ k # j
    BY <1>1, <1>3
  <2>2. QED  BY <1>4, <2>1 DEF Chain
<1>8. \A k \in 1 .. Len(t) : Sound(t[k])
  BY <1>3, <1>5 DEF Chain
<1>9. Chain(t)
  BY <1>1, <1>3, <1>6, <1>7, <1>8 DEF Chain
<1>10. t[j].lr = ReturnOf(t[j])
  BY <1>4, <1>5
<1>11. SameOwner(s[1], t[1]) /\ SameOwner(s[j], t[j])
  <2>1. 1 \in 1 .. Len(s)
    BY <1>1
  <2>2. QED  BY <1>4, <2>1 DEF SameOwner
<1>12. /\ t[j].h = s[j].h /\ t[j].toc = s[j].toc /\ t[j].given = s[j].given
       /\ TocOf(t[j]) = TocOf(s[j])
  BY <1>4, <1>5
<1>13. QED  BY <1>3, <1>4, <1>9, <1>10, <1>11, <1>12

(* Saving r2 in the top frame.                                             *)
LEMMA SaveKeepsChain ==
  ASSUME NEW s, Chain(s), NEW v \in Nat, NEW t, WritesToc(s, t, v)
  PROVE  /\ Chain(t) /\ Len(t) = Len(s) /\ (Linked(s) => Linked(t))
         /\ t[Len(s)].toc = v
         /\ \A k \in 1 .. Len(s) : k # Len(s) => t[k] = s[k]
         /\ \A k \in 1 .. Len(s) :
              /\ t[k].of = s[k].of /\ t[k].h = s[k].h /\ t[k].lr = s[k].lr
              /\ t[k].given = s[k].given /\ t[k].size = s[k].size
<1>1. s \in Seq(Frame) /\ Len(s) \in Nat /\ Len(s) > 0
  BY DEF Chain
<1>2. \A k \in 1 .. Len(s) : s[k] \in Frame
  BY <1>1
<1> DEFINE g == [of |-> s[Len(s)].of, h |-> s[Len(s)].h, size |-> s[Len(s)].size,
                 given |-> s[Len(s)].given, lr |-> s[Len(s)].lr, toc |-> v]
<1>c. Len(s) \in 1 .. Len(s)
  BY <1>1
<1>a. g \in Frame /\ g = [s[Len(s)] EXCEPT !.toc = v]
  BY <1>2, <1>c DEF Frame
<1>d. /\ g.of = s[Len(s)].of /\ g.h = s[Len(s)].h /\ g.lr = s[Len(s)].lr
      /\ g.given = s[Len(s)].given /\ g.size = s[Len(s)].size /\ g.toc = v
  OBVIOUS
<1> HIDE DEF g
<1>b. t = [s EXCEPT ![Len(s)] = g]
  BY <1>a DEF WritesToc
<1>3. /\ t \in Seq(Frame) /\ Len(t) = Len(s)
      /\ \A k \in 1 .. Len(s) : t[k] = IF k = Len(s) THEN g ELSE s[k]
  BY <1>1, <1>a, <1>b, <1>c, Updated
<1>4. ASSUME NEW k \in 1 .. Len(s)
      PROVE  /\ t[k].of = s[k].of /\ t[k].h = s[k].h /\ t[k].lr = s[k].lr
             /\ t[k].given = s[k].given /\ t[k].size = s[k].size
             /\ k # Len(s) => t[k] = s[k]
             /\ k = Len(s) => t[k].toc = v
  BY <1>3, <1>d
<1>5. ASSUME NEW k \in 1 .. Len(s)
      PROVE  (Sound(s[k]) => Sound(t[k])) /\ ReturnOf(t[k]) = ReturnOf(s[k])
  <2> DEFINE f == s[k]
             g1 == t[k]
  <2>1. /\ g1.of = f.of /\ g1.h = f.h /\ g1.lr = f.lr
        /\ g1.given = f.given /\ g1.size = f.size
    BY <1>4
  <2> HIDE DEF f, g1
  <2>2. (Sound(f) => Sound(g1)) /\ ReturnOf(g1) = ReturnOf(f)
    BY <2>1 DEF Sound, ReturnOf
  <2>3. QED  BY <2>2 DEF f, g1
<1>6. ASSUME NEW k \in 1 .. Len(t) - 1 PROVE On(t[k], t[k + 1]) /\ t[k].toc = TocOf(t[k])
  <2>1. k \in 1 .. Len(s) /\ k + 1 \in 1 .. Len(s) /\ k \in 1 .. Len(s) - 1 /\ k # Len(s)
    BY <1>1, <1>3
  <2>2. On(s[k], s[k + 1]) /\ s[k].toc = TocOf(s[k])
    BY <2>1 DEF Chain
  <2>3. On(t[k], t[k + 1])
    BY <1>4, <2>1, <2>2 DEF On
  <2>4. QED  BY <1>4, <2>1, <2>2, <2>3
<1>7. ASSUME NEW k \in 1 .. Len(t) - 2 PROVE t[k].lr = ReturnOf(t[k])
  <2>1. k \in 1 .. Len(s) - 2 /\ k \in 1 .. Len(s) /\ k # Len(s)
    BY <1>1, <1>3
  <2>2. QED  BY <1>4, <2>1 DEF Chain
<1>8. \A k \in 1 .. Len(t) : Sound(t[k])
  BY <1>3, <1>5 DEF Chain
<1>9. Chain(t)
  BY <1>1, <1>3, <1>6, <1>7, <1>8 DEF Chain
<1>10. Linked(s) => Linked(t)
  <2>1. \A k \in 1 .. Len(s) : k # Len(s) => t[k] = s[k]
    BY <1>4
  <2>2. Len(s) > 1 => Len(s) - 1 \in 1 .. Len(s) /\ Len(s) - 1 # Len(s)
    BY <1>1
  <2>3. Len(s) > 1 => t[Len(s) - 1] = s[Len(s) - 1]
    BY <2>1, <2>2
  <2>4. QED  BY <1>3, <2>3 DEF Linked
<1>12. \A k \in 1 .. Len(s) : 
         /\ k # Len(s) => t[k] = s[k]
         /\ t[k].of = s[k].of /\ t[k].h = s[k].h /\ t[k].lr = s[k].lr
         /\ t[k].given = s[k].given /\ t[k].size = s[k].size
  BY <1>4
<1>13. t[Len(s)].toc = v
  BY <1>4, <1>c
<1>14. QED  BY <1>3, <1>9, <1>10, <1>12, <1>13

-----------------------------------------------------------------------------
(* What one instruction does.                                              *)

LEMMA NextPlace ==
  ASSUME NEW k, NEW h, NEW i \in Nat, pc = <<k, h, i>>
  PROVE  NextPc = <<k, h, i + 1>>
BY DEF NextPc

LEMMA RunStwu ==
  ASSUME NEW d, Execute(Instr("stwu", 1, 1, d))
  PROVE  /\ stack' = Append(stack, NewFrame(pc[1], pc[2], 0 - d, gpr[2]))
         /\ pc' = NextPc /\ gpr' = gpr /\ lr' = lr /\ ctr' = ctr
BY DEF Execute, Stwu, Stw, Lwz, Addi, Compute, Move, Branch, Instr

LEMMA RunStw ==
  ASSUME NEW t, NEW d, NEW j, NEW w, Place(d) = [frame |-> j, word |-> w],
         Execute(Instr("stw", t, 1, d))
  PROVE  /\ \/ w = 4 /\ stack' = [stack EXCEPT ![j].lr = gpr[t]]
            \/ w = 40 /\ stack' = [stack EXCEPT ![j].toc = gpr[t]]
         /\ pc' = NextPc /\ gpr' = gpr /\ lr' = lr /\ ctr' = ctr
BY DEF Execute, Stwu, Stw, Lwz, Addi, Compute, Move, Branch, Instr

LEMMA RunLwz ==
  ASSUME NEW t, NEW d, Execute(Instr("lwz", t, 1, d))
  PROVE  /\ \/ Place(d).word = 4 /\ gpr' = [gpr EXCEPT ![t] = stack[Place(d).frame].lr]
            \/ Place(d).word = 40 /\ gpr' = [gpr EXCEPT ![t] = stack[Place(d).frame].toc]
         /\ pc' = NextPc /\ lr' = lr /\ ctr' = ctr /\ stack' = stack
BY DEF Execute, Stwu, Stw, Lwz, Addi, Compute, Move, Branch, Instr

LEMMA RunAddi ==
  ASSUME NEW d, Execute(Instr("addi", 1, 1, d))
  PROVE  /\ stack' = SubSeq(stack, 1, n - 1)
         /\ pc' = NextPc /\ gpr' = gpr /\ lr' = lr /\ ctr' = ctr
BY DEF Execute, Stwu, Stw, Lwz, Addi, Compute, Move, Branch, Instr

LEMMA RunLis ==
  ASSUME NEW t, NEW i, NEW v, i * 65536 = v, Execute(Instr("lis", t, 0, i))
  PROVE  /\ gpr' = [gpr EXCEPT ![t] = v]
         /\ pc' = NextPc /\ lr' = lr /\ ctr' = ctr /\ stack' = stack
BY DEF Execute, Stwu, Stw, Lwz, Addi, Compute, Move, Branch, Instr

LEMMA RunOri ==
  ASSUME NEW t, NEW i, NEW v, gpr[t] + i = v, Execute(Instr("ori", t, t, i))
  PROVE  /\ gpr' = [gpr EXCEPT ![t] = v]
         /\ pc' = NextPc /\ lr' = lr /\ ctr' = ctr /\ stack' = stack
BY DEF Execute, Stwu, Stw, Lwz, Addi, Compute, Move, Branch, Instr

LEMMA RunMr ==
  ASSUME NEW t, NEW a, Execute(Instr("or", t, a, t))
  PROVE  /\ gpr' = [gpr EXCEPT ![a] = gpr[t]]
         /\ pc' = NextPc /\ lr' = lr /\ ctr' = ctr /\ stack' = stack
BY DEF Execute, Stwu, Stw, Lwz, Addi, Compute, Move, Branch, Instr

LEMMA RunMflr ==
  ASSUME NEW t, Execute(Instr("mflr", t, 0, 0))
  PROVE  /\ gpr' = [gpr EXCEPT ![t] = lr]
         /\ pc' = NextPc /\ lr' = lr /\ ctr' = ctr /\ stack' = stack
BY DEF Execute, Stwu, Stw, Lwz, Addi, Compute, Move, Branch, Instr

LEMMA RunMove ==
  ASSUME NEW t
  PROVE  /\ Execute(Instr("mtlr", t, 0, 0)) =>
              /\ lr' = gpr[t] /\ ctr' = ctr
              /\ pc' = NextPc /\ gpr' = gpr /\ stack' = stack
         /\ Execute(Instr("mtctr", t, 0, 0)) =>
              /\ ctr' = gpr[t] /\ lr' = lr
              /\ pc' = NextPc /\ gpr' = gpr /\ stack' = stack
BY DEF Execute, Stwu, Stw, Lwz, Addi, Compute, Move, Branch, Instr

LEMMA RunBranch ==
  /\ Execute(Instr("bctrl", 20, 0, 0)) =>
       /\ \/ \E h \in Hook : ctr = HookAt[h] /\ pc' = <<"hook", h, 0>>
          \/ ctr = GameAt /\ pc' = <<"game", 0, 0>>
       /\ lr' = NextPc /\ gpr' = gpr /\ ctr' = ctr /\ stack' = stack
  /\ Execute(Instr("blr", 20, 0, 0)) =>
       pc' = lr /\ lr' = lr /\ gpr' = gpr /\ ctr' = ctr /\ stack' = stack
BY DEF Execute, Stwu, Stw, Lwz, Addi, Compute, Move, Branch, Instr

LEMMA SetRegister ==
  ASSUME gpr = [r \in Reg |-> gpr[r]], NEW t \in Reg, NEW v,
         gpr' = [gpr EXCEPT ![t] = v]
  PROVE  /\ gpr' = [r \in Reg |-> gpr'[r]] /\ gpr'[t] = v
         /\ \A r \in Reg : r # t => gpr'[r] = gpr[r]
<1>1. DOMAIN gpr = Reg
  <2> DEFINE g == [r \in Reg |-> gpr[r]]
  <2>1. DOMAIN g = Reg
    OBVIOUS
  <2>2. QED  BY <2>1
<1>2. QED  BY <1>1

-----------------------------------------------------------------------------
(* The inductive invariant in parts: what holds everywhere, and what each  *)
(* kind of place adds.                                                     *)

Basics ==
  /\ lr \in Place3 /\ ctr \in Nat
  /\ gpr = [r \in Reg |-> gpr[r]] /\ gpr[2] \in Nat
  /\ Chain(stack) /\ stack[1].of \in {"game", "worker"}

LEMMA Registers ==
  /\ 0 \in Reg /\ 2 \in Reg /\ 3 \in Reg /\ 12 \in Reg
  /\ 29 \in Reg /\ 30 \in Reg /\ 31 \in Reg
  /\ \A r \in 3 .. 10 : r \in Reg /\ r # 0 /\ r # 2 /\ r # 12
BY DEF Reg

LEMMA AtTrampoline ==
  ASSUME NEW h \in Hook, NEW i \in 0 .. 15, pc = <<"tramp", h, i>>
  PROVE  IInv <=> Basics /\ InTrampoline(h, i)
<1>1. h \in Nat /\ i \in Nat
  BY Constants
<1>2. pc \in Place3 /\ pc[1] = "tramp" /\ pc[2] = h /\ pc[3] = i
  BY <1>1 DEF Place3
<1>3. QED  BY <1>2 DEF IInv, Basics

LEMMA AtAssembly ==
  ASSUME NEW i \in 0 .. 12, pc = <<"asm", 0, i>>
  PROVE  IInv <=> Basics /\ InAssembly(i)
<1>1. pc \in Place3 /\ pc[1] = "asm" /\ pc[2] = 0 /\ pc[3] = i
  BY DEF Place3
<1>2. QED  BY <1>1 DEF IInv, Basics

LEMMA AtCode ==
  ASSUME NEW k \in {"game", "hook", "lib", "worker"}, NEW h \in Nat, NEW i \in 0 .. 2,
         pc = <<k, h, i>>
  PROVE  IInv <=> Basics /\ InCode(k, h, i)
<1>1. pc \in Place3 /\ pc[1] = k /\ pc[2] = h /\ pc[3] = i
  BY DEF Place3
<1>2. QED  BY <1>1 DEF IInv, Basics

(* What the basics say of the top frame and the one below.                 *)
LEMMA Frames ==
  ASSUME Basics
  PROVE  /\ n \in Nat /\ n > 0 /\ Top \in Frame /\ Sound(Top)
         /\ ReturnOf(Top) \in Place3 /\ TocOf(Top) \in Nat
         /\ n > 1 => /\ stack[n - 1] \in Frame /\ Sound(stack[n - 1])
                     /\ On(stack[n - 1], Top) /\ ReturnOf(stack[n - 1]) \in Place3
                     /\ stack[n - 1].toc = TocOf(stack[n - 1])
         /\ n = 1 => Top.of \in {"game", "worker"}
<1>1. stack \in Seq(Frame) /\ n \in Nat /\ n > 0
  BY DEF Basics, Chain, n
<1>2. Top \in Frame /\ (n > 1 => stack[n - 1] \in Frame)
  BY <1>1 DEF Top, n
<1>3. Sound(Top) /\ (n > 1 => Sound(stack[n - 1]))
  BY <1>1 DEF Basics, Chain, Top, n
<1>4. n > 1 => On(stack[n - 1], Top) /\ stack[n - 1].toc = TocOf(stack[n - 1])
  <2>1. n > 1 => (n - 1) \in 1 .. n - 1 /\ (n - 1) + 1 = n
    BY <1>1
  <2>2. QED  BY <1>1, <2>1 DEF Basics, Chain, Top, n
<1>5. ASSUME NEW f \in Frame PROVE ReturnOf(f) \in Place3 /\ TocOf(f) \in Nat
  <2>1. /\ f.of \in {"game", "hook", "lib", "worker", "tramp", "asm"}
        /\ f.h \in Nat /\ f.lr \in Place3 /\ f.toc \in Nat /\ f.given \in Nat
    BY DEF Frame
  <2>2. ReturnOf(f) \in Place3
    BY <2>1 DEF ReturnOf, Place3
  <2>3. TocOf(f) \in Nat
    BY <2>1, Constants DEF TocOf
  <2>4. QED  BY <2>2, <2>3
<1>6. n = 1 => Top.of \in {"game", "worker"}
  BY DEF Basics, Top
<1>7. QED  BY <1>1, <1>2, <1>3, <1>4, <1>5, <1>6

LEMMA ToTrampoline ==
  ASSUME NEW h \in Hook, NEW i \in 0 .. 15, pc' = <<"tramp", h, i>>,
         Basics', InTrampoline(h, i)'
  PROVE  IInv'
<1>1. h \in Nat /\ i \in Nat
  BY Constants
<1>2. pc' \in Place3 /\ pc'[1] = "tramp" /\ pc'[2] = h /\ pc'[3] = i
  BY <1>1 DEF Place3
<1>3. QED  BY <1>2 DEF IInv, Basics

LEMMA ToAssembly ==
  ASSUME NEW i \in 0 .. 12, pc' = <<"asm", 0, i>>, Basics', InAssembly(i)'
  PROVE  IInv'
<1>1. pc' \in Place3 /\ pc'[1] = "asm" /\ pc'[2] = 0 /\ pc'[3] = i
  BY DEF Place3
<1>2. QED  BY <1>1 DEF IInv, Basics

LEMMA ToCode ==
  ASSUME NEW k \in {"game", "hook", "lib", "worker"}, NEW h \in Nat, NEW i \in 0 .. 2,
         pc' = <<k, h, i>>, Basics', InCode(k, h, i)'
  PROVE  IInv'
<1>1. pc' \in Place3 /\ pc'[1] = k /\ pc'[2] = h /\ pc'[3] = i
  BY DEF Place3
<1>2. QED  BY <1>1 DEF IInv, Basics

(* A step that leaves the stack alone.                                     *)
SameFrames ==
  /\ n' = n /\ Top' = Top /\ (Linked(stack)' <=> Linked(stack))
  /\ stack'[n' - 1] = stack[n - 1]

LEMMA SameStack ==
  ASSUME stack' = stack
  PROVE  SameFrames
BY DEF SameFrames, n, Top, Linked

LEMMA AfterSet ==
  ASSUME Basics, NEW t \in Reg, NEW v, t = 2 => v \in Nat,
         gpr' = [gpr EXCEPT ![t] = v], lr' = lr, ctr' = ctr, stack' = stack
  PROVE  /\ Basics' /\ SameFrames /\ gpr'[t] = v
         /\ \A r \in Reg : r # t => gpr'[r] = gpr[r]
<1>1. gpr' = [r \in Reg |-> gpr'[r]] /\ gpr'[t] = v
      /\ \A r \in Reg : r # t => gpr'[r] = gpr[r]
  BY SetRegister DEF Basics
<1>2. gpr'[2] \in Nat
  BY <1>1, Registers DEF Basics
<1>3. Basics'
  BY <1>1, <1>2 DEF Basics
<1>4. QED  BY <1>1, <1>3, SameStack

(* The same of the registers that are written.                             *)
LEMMA AfterSet2 ==
  ASSUME Basics, NEW v \in Nat,
         gpr' = [gpr EXCEPT ![2] = v], lr' = lr, ctr' = ctr, stack' = stack
  PROVE  /\ Basics' /\ SameFrames /\ gpr'[2] = v
         /\ \A r \in 3 .. 31 : gpr'[r] = gpr[r]
<1> DEFINE t == 2
<1>1. t \in Reg /\ t = 2 /\ \A r \in 3 .. 31 : r \in Reg /\ r # t
  BY Registers DEF Reg
<1> HIDE DEF t
<1>2. gpr' = [gpr EXCEPT ![t] = v]
  BY <1>1
<1>3. /\ Basics' /\ SameFrames /\ gpr'[t] = v
      /\ \A r \in Reg : r # t => gpr'[r] = gpr[r]
  BY <1>1, <1>2, AfterSet, ZenonT(60)
<1>4. QED  BY <1>1, <1>3

LEMMA AfterSet0 ==
  ASSUME Basics, NEW v,
         gpr' = [gpr EXCEPT ![0] = v], lr' = lr, ctr' = ctr, stack' = stack
  PROVE  /\ Basics' /\ SameFrames /\ gpr'[0] = v /\ gpr'[2] = gpr[2]
         /\ \A r \in 3 .. 31 : gpr'[r] = gpr[r]
<1> DEFINE t == 0
<1>1. t \in Reg /\ t = 0 /\ t # 2 /\ 2 \in Reg /\ \A r \in 3 .. 31 : r \in Reg /\ r # t
  BY Registers DEF Reg
<1> HIDE DEF t
<1>2. gpr' = [gpr EXCEPT ![t] = v]
  BY <1>1
<1>3. /\ Basics' /\ SameFrames /\ gpr'[t] = v
      /\ \A r \in Reg : r # t => gpr'[r] = gpr[r]
  BY <1>1, <1>2, AfterSet, ZenonT(60)
<1>4. QED  BY <1>1, <1>3

LEMMA AfterSet12 ==
  ASSUME Basics, NEW v,
         gpr' = [gpr EXCEPT ![12] = v], lr' = lr, ctr' = ctr, stack' = stack
  PROVE  /\ Basics' /\ SameFrames /\ gpr'[12] = v /\ gpr'[2] = gpr[2]
         /\ \A r \in 3 .. 10 : gpr'[r] = gpr[r]
<1> DEFINE t == 12
<1>1. t \in Reg /\ t = 12 /\ t # 2 /\ 2 \in Reg /\ \A r \in 3 .. 10 : r \in Reg /\ r # t
  BY Registers
<1> HIDE DEF t
<1>2. gpr' = [gpr EXCEPT ![t] = v]
  BY <1>1
<1>3. /\ Basics' /\ SameFrames /\ gpr'[t] = v
      /\ \A r \in Reg : r # t => gpr'[r] = gpr[r]
  BY <1>1, <1>2, AfterSet, ZenonT(60)
<1>4. QED  BY <1>1, <1>3

LEMMA AfterSetArgument ==
  ASSUME Basics, NEW c \in 3 .. 10, NEW v,
         gpr' = [gpr EXCEPT ![c] = v], lr' = lr, ctr' = ctr, stack' = stack
  PROVE  Basics' /\ SameFrames /\ gpr'[c] = v /\ gpr'[2] = gpr[2]
<1>1. c \in Reg /\ c # 2 /\ 2 \in Reg
  BY Registers
<1>2. QED  BY <1>1, AfterSet

LEMMA SprxParts ==
  /\ (Sprx \div 65536) * 65536 = High(Sprx) /\ High(Sprx) \in Nat
  /\ High(Sprx) + (Sprx % 65536) = Sprx /\ Sprx \in Nat
<1> DEFINE v == Sprx
<1>1. v \in Nat
  BY CallsAssumption
<1> HIDE DEF v
<1>2. (v \div 65536) * 65536 = High(v) /\ High(v) \in Nat /\ High(v) + (v % 65536) = v
  BY <1>1, Halves DEF High
<1>3. QED  BY <1>1, <1>2 DEF v

LEMMA HookParts ==
  ASSUME NEW h \in Hook
  PROVE  /\ (HookAt[h] \div 65536) * 65536 = High(HookAt[h])
         /\ High(HookAt[h]) + (HookAt[h] % 65536) = HookAt[h] /\ HookAt[h] \in Nat
         /\ High(HookAt[h]) \in Nat
<1> DEFINE v == HookAt[h]
<1>1. v \in Nat
  BY CallsAssumption
<1> HIDE DEF v
<1>2. /\ (v \div 65536) * 65536 = High(v) /\ High(v) + (v % 65536) = v
      /\ High(v) \in Nat
  BY <1>1, Halves DEF High
<1>3. QED  BY <1>1, <1>2 DEF v

(* Steps that push, pop or write a frame.                                  *)
LEMMA AfterPush ==
  ASSUME Basics, Linked(stack), Top.toc = TocOf(Top),
         NEW f \in Frame, Sound(f), On(Top, f), stack' = Append(stack, f),
         gpr' = gpr, lr' = lr, ctr' = ctr
  PROVE  /\ Basics' /\ Top' = f /\ n' = n + 1 /\ n' > 1 /\ stack'[n' - 1] = Top
<1>1. Chain(stack) /\ Len(stack) \in Nat /\ Len(stack) > 0
  BY DEF Basics, Chain
<1>2. On(stack[Len(stack)], f) /\ stack[Len(stack)].toc = TocOf(stack[Len(stack)])
  BY DEF Top, n
<1>3. /\ Chain(stack') /\ Len(stack') = Len(stack) + 1
      /\ stack'[Len(stack) + 1] = f /\ stack'[Len(stack)] = stack[Len(stack)]
      /\ stack'[1] = stack[1]
  BY <1>1, <1>2, PushKeepsChain
<1>4. Basics'
  BY <1>3 DEF Basics
<1>5. n' = n + 1 /\ Top' = f /\ n' > 1
  BY <1>1, <1>3 DEF n, Top
<1>6. n' - 1 = n /\ stack'[n] = Top
  BY <1>1, <1>3, <1>5 DEF n, Top
<1>7. QED  BY <1>4, <1>5, <1>6

LEMMA AfterPop ==
  ASSUME Basics, Linked(stack), n > 1, stack' = SubSeq(stack, 1, n - 1),
         gpr' = gpr, lr' \in Place3, ctr' = ctr
  PROVE  /\ Basics' /\ Top' = stack[n - 1] /\ n' = n - 1 /\ Linked(stack)'
         /\ Top'.toc = TocOf(Top') /\ Top'.lr = ReturnOf(Top') /\ On(Top', Top)
         /\ n' > 1 => stack'[n' - 1] = stack[n - 2]
<1>1. Chain(stack) /\ Len(stack) \in Nat /\ Len(stack) > 1 /\ Linked(stack)
  BY DEF Basics, Chain, n
<1>2. stack' = SubSeq(stack, 1, Len(stack) - 1)
  BY DEF n
<1>3. /\ Chain(stack') /\ Linked(stack') /\ Len(stack') = Len(stack) - 1
      /\ stack'[Len(stack')] = stack[Len(stack) - 1] /\ stack'[1] = stack[1]
      /\ Len(stack') > 1 => stack'[Len(stack') - 1] = stack[Len(stack) - 2]
      /\ stack[Len(stack) - 1].toc = TocOf(stack[Len(stack) - 1])
      /\ stack[Len(stack) - 1].lr = ReturnOf(stack[Len(stack) - 1])
      /\ On(stack[Len(stack) - 1], stack[Len(stack)])
  BY <1>1, <1>2, PopKeepsChain
<1>4. Basics'
  BY <1>3 DEF Basics
<1>5. Top' = stack[n - 1] /\ n' = n - 1 /\ Linked(stack)'
  BY <1>3 DEF Top, n
<1>6. /\ stack[n - 1].toc = TocOf(stack[n - 1]) /\ stack[n - 1].lr = ReturnOf(stack[n - 1])
      /\ On(stack[n - 1], Top)
  BY <1>3 DEF Top, n
<1>7. n' > 1 => stack'[n' - 1] = stack[n - 2]
  BY <1>3 DEF n
<1>8. QED  BY <1>4, <1>5, <1>6, <1>7

LEMMA AfterLinkBelow ==
  ASSUME Basics, n > 1, NEW v \in Place3,
         stack[n - 1].of = "worker" \/ v = ReturnOf(stack[n - 1]),
         NEW j, j = n - 1, WritesLr(stack, stack', j, v), gpr' = gpr, lr' = lr, ctr' = ctr
  PROVE  Basics' /\ Top' = Top /\ n' = n /\ Linked(stack)'
<1>1. Chain(stack) /\ n \in Nat /\ n = Len(stack)
  BY DEF Basics, Chain, n
<1>2. /\ j \in 1 .. Len(stack) /\ j >= Len(stack) - 1 /\ n \in 1 .. Len(stack) /\ n # j
      /\ (stack[j].of = "worker" \/ v = ReturnOf(stack[j]))
  BY <1>1
<1>3. /\ Chain(stack') /\ Len(stack') = Len(stack)
      /\ stack'[j].lr = ReturnOf(stack'[j])
  BY <1>1, <1>2, LinkKeepsChain
<1>4. /\ \A k \in 1 .. Len(stack) : k # j => stack'[k] = stack[k]
      /\ SameOwner(stack[1], stack'[1])
  BY <1>1, <1>2, LinkKeepsChain
<1>5. n' = n /\ Top' = Top
  BY <1>1, <1>2, <1>3, <1>4 DEF n, Top
<1>6. Linked(stack)'
  BY <1>1, <1>3, <1>5 DEF Linked, n
<1>7. Basics'
  BY <1>3, <1>4 DEF Basics, SameOwner
<1>8. QED  BY <1>5, <1>6, <1>7

LEMMA AfterSave ==
  ASSUME Basics, NEW v \in Nat, WritesToc(stack, stack', v),
         lr' \in Place3, ctr' = ctr, gpr' = [r \in Reg |-> gpr'[r]], gpr'[2] \in Nat
  PROVE  /\ Basics' /\ n' = n /\ (Linked(stack) => Linked(stack)')
         /\ Top'.toc = v /\ Top'.of = Top.of /\ Top'.h = Top.h /\ Top'.given = Top.given
         /\ n > 1 => stack'[n' - 1] = stack[n - 1]
<1>1. Chain(stack) /\ Len(stack) \in Nat /\ Len(stack) > 0 /\ n = Len(stack)
  BY DEF Basics, Chain, n
<1>3. /\ Chain(stack') /\ Len(stack') = Len(stack) /\ (Linked(stack) => Linked(stack'))
      /\ stack'[Len(stack)].toc = v
      /\ \A k \in 1 .. Len(stack) : k # Len(stack) => stack'[k] = stack[k]
      /\ \A k \in 1 .. Len(stack) : /\ stack'[k].of = stack[k].of /\ stack'[k].h = stack[k].h
                                    /\ stack'[k].given = stack[k].given
  BY <1>1, SaveKeepsChain
<1>4. 1 \in 1 .. Len(stack) /\ Len(stack) \in 1 .. Len(stack)
  BY <1>1
<1>5. /\ n' = n /\ Top'.toc = v /\ Top'.of = Top.of /\ Top'.h = Top.h
      /\ Top'.given = Top.given /\ stack'[1].of = stack[1].of
      /\ (Linked(stack) => Linked(stack)')
  BY <1>3, <1>4 DEF n, Top
<1>6. Basics'
  BY <1>3, <1>5 DEF Basics
<1>7. n > 1 => n - 1 \in 1 .. Len(stack) /\ n - 1 # Len(stack)
  BY <1>1
<1>8. n > 1 => stack'[n' - 1] = stack[n - 1]
  BY <1>3, <1>5, <1>7
<1>9. QED  BY <1>5, <1>6, <1>8

-----------------------------------------------------------------------------
(* The trampoline, instruction by instruction.                             *)

LEMMA Tramp2 ==
  ASSUME NEW h \in Hook, IInv, pc = <<"tramp", h, 1>>, Execute(Decode(Trampoline(h)[2]))
  PROVE  IInv'
<1>1. Basics /\ InTrampoline(h, 1)
  BY AtTrampoline
<1>2. Execute(Instr("mflr", 0, 0, 0))
  BY TrampolineIsAsDocumented
<1>3. /\ gpr' = [gpr EXCEPT ![0] = lr] /\ pc' = NextPc
      /\ lr' = lr /\ ctr' = ctr /\ stack' = stack
  BY <1>2, RunMflr
<1>4. pc' = <<"tramp", h, 2>>
  BY <1>3, NextPlace
<1>5. Basics' /\ SameFrames /\ gpr'[0] = lr /\ gpr'[2] = gpr[2]
  BY <1>1, <1>3, AfterSet0
<1>6. InTrampoline(h, 2)'
  BY <1>1, <1>3, <1>5 DEF InTrampoline, SameFrames
<1>7. QED  BY <1>4, <1>5, <1>6, ToTrampoline

LEMMA Tramp5 ==
  ASSUME NEW h \in Hook, IInv, pc = <<"tramp", h, 4>>, Execute(Decode(Trampoline(h)[5]))
  PROVE  IInv'
<1> DEFINE c == TocReg[h]
<1>a. c \in 3 .. 10
  BY Constants
<1>1. Basics /\ InTrampoline(h, 4)
  BY AtTrampoline
<1>2. Execute(Instr("or", 2, c, 2))
  BY TrampolineIsAsDocumented
<1> HIDE DEF c
<1>3. /\ gpr' = [gpr EXCEPT ![c] = gpr[2]] /\ pc' = NextPc
      /\ lr' = lr /\ ctr' = ctr /\ stack' = stack
  BY <1>2, RunMr
<1>4. pc' = <<"tramp", h, 5>>
  BY <1>3, NextPlace
<1>5. Basics' /\ SameFrames /\ gpr'[c] = gpr[2] /\ gpr'[2] = gpr[2]
  BY <1>a, <1>1, <1>3, AfterSetArgument
<1>6. InTrampoline(h, 5)'
  BY <1>1, <1>3, <1>5 DEF InTrampoline, SameFrames, c
<1>7. QED  BY <1>4, <1>5, <1>6, ToTrampoline

LEMMA Tramp6 ==
  ASSUME NEW h \in Hook, IInv, pc = <<"tramp", h, 5>>, Execute(Decode(Trampoline(h)[6]))
  PROVE  IInv'
<1> DEFINE c == TocReg[h]
           i == Sprx \div 65536
           v == High(Sprx)
<1>1. c \in 3 .. 10 /\ i * 65536 = v /\ v \in Nat
  BY Constants, SprxParts
<1>w. c \in 3 .. 31 /\ v \in Nat
  BY <1>1
<1>2. Basics /\ InTrampoline(h, 5)
  BY AtTrampoline
<1>3. Execute(Instr("lis", 2, 0, i))
  BY TrampolineIsAsDocumented
<1> HIDE DEF c, i, v
<1>4. /\ gpr' = [gpr EXCEPT ![2] = v] /\ pc' = NextPc
      /\ lr' = lr /\ ctr' = ctr /\ stack' = stack
  BY <1>1, <1>3, RunLis
<1>5. pc' = <<"tramp", h, 6>>
  BY <1>4, NextPlace
<1>6. Basics' /\ SameFrames /\ gpr'[2] = v /\ gpr'[c] = gpr[c]
  BY <1>w, <1>2, <1>4, AfterSet2
<1>v. gpr'[2] = High(Sprx)
  BY <1>6 DEF v
<1>7. InTrampoline(h, 6)'
  BY <1>2, <1>6, <1>v DEF InTrampoline, SameFrames, c
<1>8. QED  BY <1>5, <1>6, <1>7, ToTrampoline

LEMMA Tramp7 ==
  ASSUME NEW h \in Hook, IInv, pc = <<"tramp", h, 6>>, Execute(Decode(Trampoline(h)[7]))
  PROVE  IInv'
<1> DEFINE c == TocReg[h]
           i == Sprx % 65536
           u == High(Sprx)
           v == Sprx
<1>1. c \in 3 .. 10 /\ u + i = v /\ v \in Nat
  BY Constants, SprxParts
<1>w. c \in 3 .. 31 /\ v \in Nat
  BY <1>1
<1>2. Basics /\ InTrampoline(h, 6)
  BY AtTrampoline
<1>3. Execute(Instr("ori", 2, 2, i))
  BY TrampolineIsAsDocumented
<1>b. gpr[2] = u
  BY <1>2 DEF InTrampoline
<1> HIDE DEF c, i, u, v
<1>a. gpr[2] + i = v
  BY <1>1, <1>b
<1>4. /\ gpr' = [gpr EXCEPT ![2] = v] /\ pc' = NextPc
      /\ lr' = lr /\ ctr' = ctr /\ stack' = stack
  BY <1>a, <1>3, RunOri
<1>5. pc' = <<"tramp", h, 7>>
  BY <1>4, NextPlace
<1>6. Basics' /\ SameFrames /\ gpr'[2] = v /\ gpr'[c] = gpr[c]
  BY <1>w, <1>2, <1>4, AfterSet2
<1>7. InTrampoline(h, 7)'
  BY <1>2, <1>4, <1>6 DEF InTrampoline, SameFrames, c, v
<1>8. QED  BY <1>5, <1>6, <1>7, ToTrampoline

LEMMA Tramp8 ==
  ASSUME NEW h \in Hook, IInv, pc = <<"tramp", h, 7>>, Execute(Decode(Trampoline(h)[8]))
  PROVE  IInv'
<1> DEFINE c == TocReg[h]
           i == HookAt[h] \div 65536
           v == High(HookAt[h])
<1>1. c \in 3 .. 10 /\ i * 65536 = v /\ v \in Nat
  BY Constants, HookParts
<1>w. c \in 3 .. 10 /\ v \in Nat
  BY <1>1
<1>2. Basics /\ InTrampoline(h, 7)
  BY AtTrampoline
<1>3. Execute(Instr("lis", 12, 0, i))
  BY TrampolineIsAsDocumented
<1> HIDE DEF c, i, v
<1>4. /\ gpr' = [gpr EXCEPT ![12] = v] /\ pc' = NextPc
      /\ lr' = lr /\ ctr' = ctr /\ stack' = stack
  BY <1>1, <1>3, RunLis
<1>5. pc' = <<"tramp", h, 8>>
  BY <1>4, NextPlace
<1>6. Basics' /\ SameFrames /\ gpr'[12] = v /\ gpr'[2] = gpr[2] /\ gpr'[c] = gpr[c]
  BY <1>w, <1>2, <1>4, AfterSet12
<1>v. gpr'[12] = High(HookAt[h])
  BY <1>6 DEF v
<1>7. InTrampoline(h, 8)'
  BY <1>2, <1>6, <1>v DEF InTrampoline, SameFrames, c
<1>8. QED  BY <1>5, <1>6, <1>7, ToTrampoline

LEMMA Tramp9 ==
  ASSUME NEW h \in Hook, IInv, pc = <<"tramp", h, 8>>, Execute(Decode(Trampoline(h)[9]))
  PROVE  IInv'
<1> DEFINE c == TocReg[h]
           i == HookAt[h] % 65536
           u == High(HookAt[h])
           v == HookAt[h]
<1>1. c \in 3 .. 10 /\ u + i = v /\ v \in Nat
  BY Constants, HookParts
<1>w. c \in 3 .. 10 /\ v \in Nat
  BY <1>1
<1>2. Basics /\ InTrampoline(h, 8)
  BY AtTrampoline
<1>3. Execute(Instr("ori", 12, 12, i))
  BY TrampolineIsAsDocumented
<1>b. gpr[12] = u
  BY <1>2 DEF InTrampoline
<1> HIDE DEF c, i, u, v
<1>a. gpr[12] + i = v
  BY <1>1, <1>b
<1>4. /\ gpr' = [gpr EXCEPT ![12] = v] /\ pc' = NextPc
      /\ lr' = lr /\ ctr' = ctr /\ stack' = stack
  BY <1>a, <1>3, RunOri
<1>5. pc' = <<"tramp", h, 9>>
  BY <1>4, NextPlace
<1>6. Basics' /\ SameFrames /\ gpr'[12] = v /\ gpr'[2] = gpr[2] /\ gpr'[c] = gpr[c]
  BY <1>w, <1>2, <1>4, AfterSet12
<1>7. InTrampoline(h, 9)'
  BY <1>2, <1>4, <1>6 DEF InTrampoline, SameFrames, c, v
<1>8. QED  BY <1>5, <1>6, <1>7, ToTrampoline

LEMMA Tramp12 ==
  ASSUME NEW h \in Hook, IInv, pc = <<"tramp", h, 11>>, Execute(Decode(Trampoline(h)[12]))
  PROVE  IInv'
<1>1. Basics /\ InTrampoline(h, 11)
  BY AtTrampoline
<1>2. Execute(Instr("lwz", 2, 1, 40))
  BY TrampolineIsAsDocumented
<1>3. Top.of = "tramp" /\ Top \in Frame /\ Top.size = 96 /\ Top.toc \in Nat
  BY <1>1, Frames DEF InTrampoline, Sound, Frame
<1>4. Place(40) = [frame |-> n, word |-> 40]
  BY <1>3 DEF Place
<1>5. /\ gpr' = [gpr EXCEPT ![2] = Top.toc] /\ pc' = NextPc
      /\ lr' = lr /\ ctr' = ctr /\ stack' = stack
  BY <1>2, <1>4, RunLwz DEF Top
<1>6. pc' = <<"tramp", h, 12>>
  BY <1>5, NextPlace
<1>7. Basics' /\ SameFrames
  <2>1. Basics /\ Top.toc \in Nat
    BY <1>1, <1>3
  <2>2. QED  BY <2>1, <1>5, AfterSet2, ZenonT(60)
<1>8. InTrampoline(h, 12)'
  BY <1>1, <1>5, <1>7 DEF InTrampoline, SameFrames
<1>9. QED  BY <1>6, <1>7, <1>8, ToTrampoline

LEMMA Tramp13 ==
  ASSUME NEW h \in Hook, IInv, pc = <<"tramp", h, 12>>, Execute(Decode(Trampoline(h)[13]))
  PROVE  IInv'
<1>1. Basics /\ InTrampoline(h, 12)
  BY AtTrampoline
<1>2. Execute(Instr("lwz", 0, 1, 100))
  BY TrampolineIsAsDocumented
<1>3. Top.of = "tramp" /\ Top.size = 96 /\ n > 1 /\ n \in Nat /\ Linked(stack)
  BY <1>1, Frames DEF InTrampoline, Sound
<1>4. Place(100) = [frame |-> n - 1, word |-> 4]
  BY <1>3 DEF Place
<1>5. /\ gpr' = [gpr EXCEPT ![0] = stack[n - 1].lr] /\ pc' = NextPc
      /\ lr' = lr /\ ctr' = ctr /\ stack' = stack
  BY <1>2, <1>4, RunLwz
<1>6. stack[n - 1].lr = ReturnOf(stack[n - 1])
  BY <1>3 DEF Linked, n
<1>7. pc' = <<"tramp", h, 13>>
  BY <1>5, NextPlace
<1>8. Basics' /\ SameFrames /\ gpr'[0] = ReturnOf(stack[n - 1])
  BY <1>1, <1>5, <1>6, AfterSet0
<1>9. InTrampoline(h, 13)'
  BY <1>1, <1>5, <1>8 DEF InTrampoline, SameFrames
<1>10. QED  BY <1>7, <1>8, <1>9, ToTrampoline

LEMMA Tramp1 ==
  ASSUME NEW h \in Hook, IInv, pc = <<"tramp", h, 0>>, Execute(Decode(Trampoline(h)[1]))
  PROVE  IInv'
<1> DEFINE f == NewFrame("tramp", h, 96, gpr[2])
<1>1. Basics /\ InTrampoline(h, 0)
  BY AtTrampoline
<1>2. Execute(Instr("stwu", 1, 1, 0 - 96))
  BY TrampolineIsAsDocumented
<1>3. /\ stack' = Append(stack, NewFrame(pc[1], pc[2], 0 - (0 - 96), gpr[2]))
      /\ pc' = NextPc /\ gpr' = gpr /\ lr' = lr /\ ctr' = ctr
  BY <1>2, RunStwu
<1>4. stack' = Append(stack, f)
  BY <1>3
<1>5. pc' = <<"tramp", h, 1>>
  BY <1>3, NextPlace
<1>6. h \in Nat /\ gpr[2] \in Nat /\ gpr[2] \in EntryToc
  BY <1>1, Constants DEF Basics, InTrampoline
<1>7. /\ f \in Frame /\ Sound(f) /\ f.of = "tramp" /\ f.h = h /\ f.given = gpr[2]
  BY <1>6 DEF NewFrame, Frame, Sound, Nowhere, Place3, Junk
<1>8. /\ Top.of = "game" /\ Top.toc = GameToc /\ lr = ReturnOf(Top) /\ Linked(stack)
  BY <1>1 DEF InTrampoline
<1>9. Top.h = 0 /\ Top.toc = TocOf(Top)
  BY <1>1, <1>8, Frames DEF Sound, TocOf
<1> HIDE DEF f
<1>10. On(Top, f)
  BY <1>7, <1>8, <1>9 DEF On
<1>11. Basics' /\ Top' = f /\ n' > 1 /\ stack'[n' - 1] = Top
  BY <1>1, <1>3, <1>4, <1>7, <1>8, <1>9, <1>10, AfterPush
<1>12. /\ Top'.of = "tramp" /\ Top'.h = h /\ gpr'[2] = Top'.given
       /\ lr' = ReturnOf(stack'[n' - 1])
  BY <1>3, <1>7, <1>8, <1>11
<1>13. InTrampoline(h, 1)'
  BY <1>11, <1>12 DEF InTrampoline
<1>14. QED  BY <1>5, <1>11, <1>13, ToTrampoline

LEMMA Tramp3 ==
  ASSUME NEW h \in Hook, IInv, pc = <<"tramp", h, 2>>, Execute(Decode(Trampoline(h)[3]))
  PROVE  IInv'
<1>1. Basics /\ InTrampoline(h, 2)
  BY AtTrampoline
<1>2. Execute(Instr("stw", 0, 1, 100))
  BY TrampolineIsAsDocumented
<1>3. /\ Top.of = "tramp" /\ Top.size = 96 /\ n > 1 /\ n \in Nat
      /\ gpr[0] = ReturnOf(stack[n - 1]) /\ gpr[0] \in Place3
  BY <1>1, Frames DEF InTrampoline, Sound
<1>4. Place(100) = [frame |-> n - 1, word |-> 4]
  BY <1>3 DEF Place
<1>5. /\ stack' = [stack EXCEPT ![n - 1].lr = gpr[0]]
      /\ pc' = NextPc /\ gpr' = gpr /\ lr' = lr /\ ctr' = ctr
  BY <1>2, <1>4, RunStw
<1>6. pc' = <<"tramp", h, 3>>
  BY <1>5, NextPlace
<1> DEFINE j == n - 1
<1>a. WritesLr(stack, stack', j, gpr[0]) /\ j = n - 1
  BY <1>5 DEF WritesLr
<1> HIDE DEF j
<1>b. gpr' = gpr /\ lr' = lr /\ ctr' = ctr
  BY <1>5
<1>7. Basics' /\ Top' = Top /\ n' = n /\ Linked(stack)'
  BY <1>1, <1>3, <1>a, <1>b, AfterLinkBelow
<1>8. InTrampoline(h, 3)'
  BY <1>1, <1>5, <1>7 DEF InTrampoline
<1>9. QED  BY <1>6, <1>7, <1>8, ToTrampoline

LEMMA Tramp4 ==
  ASSUME NEW h \in Hook, IInv, pc = <<"tramp", h, 3>>, Execute(Decode(Trampoline(h)[4]))
  PROVE  IInv'
<1>1. Basics /\ InTrampoline(h, 3)
  BY AtTrampoline
<1>2. Execute(Instr("stw", 2, 1, 40))
  BY TrampolineIsAsDocumented
<1>3. Top.of = "tramp" /\ Top.size = 96
  BY <1>1, Frames DEF InTrampoline, Sound
<1>4. Place(40) = [frame |-> n, word |-> 40]
  BY <1>3 DEF Place
<1>5. /\ stack' = [stack EXCEPT ![n].toc = gpr[2]]
      /\ pc' = NextPc /\ gpr' = gpr /\ lr' = lr /\ ctr' = ctr
  BY <1>2, <1>4, RunStw
<1>6. pc' = <<"tramp", h, 4>>
  BY <1>5, NextPlace
<1>a. WritesToc(stack, stack', gpr[2])
  BY <1>5 DEF WritesToc, n
<1>b. /\ gpr[2] \in Nat /\ lr' \in Place3 /\ ctr' = ctr
      /\ gpr' = [r \in Reg |-> gpr'[r]] /\ gpr'[2] \in Nat
  BY <1>1, <1>5 DEF Basics
<1>7. /\ Basics' /\ n' = n /\ (Linked(stack) => Linked(stack)')
      /\ Top'.toc = gpr[2] /\ Top'.of = Top.of /\ Top'.h = Top.h /\ Top'.given = Top.given
  BY <1>1, <1>a, <1>b, AfterSave
<1>8. InTrampoline(h, 4)'
  BY <1>1, <1>5, <1>7 DEF InTrampoline
<1>9. QED  BY <1>6, <1>7, <1>8, ToTrampoline

LEMMA Tramp10 ==
  ASSUME NEW h \in Hook, IInv, pc = <<"tramp", h, 9>>, Execute(Decode(Trampoline(h)[10]))
  PROVE  IInv'
<1> DEFINE v == HookAt[h]
<1>0. v \in Nat
  BY Constants
<1>1. Basics /\ InTrampoline(h, 9)
  BY AtTrampoline
<1>2. Execute(Instr("mtctr", 12, 0, 0))
  BY TrampolineIsAsDocumented
<1>3. /\ ctr' = gpr[12] /\ lr' = lr
      /\ pc' = NextPc /\ gpr' = gpr /\ stack' = stack
  BY <1>2, RunMove
<1>4. pc' = <<"tramp", h, 10>>
  BY <1>3, NextPlace
<1>5. ctr' = v
  BY <1>1, <1>3 DEF InTrampoline
<1> HIDE DEF v
<1>6. SameFrames
  BY <1>3, SameStack
<1>7. Basics'
  BY <1>0, <1>1, <1>3, <1>5 DEF Basics
<1>8. InTrampoline(h, 10)'
  BY <1>1, <1>3, <1>5, <1>6 DEF InTrampoline, SameFrames, v
<1>9. QED  BY <1>4, <1>7, <1>8, ToTrampoline

LEMMA Tramp11 ==
  ASSUME NEW h \in Hook, IInv, pc = <<"tramp", h, 10>>, Execute(Decode(Trampoline(h)[11]))
  PROVE  IInv'
<1>1. Basics /\ InTrampoline(h, 10)
  BY AtTrampoline
<1>2. Execute(Instr("bctrl", 20, 0, 0))
  BY TrampolineIsAsDocumented
<1>3. /\ \/ \E k \in Hook : ctr = HookAt[k] /\ pc' = <<"hook", k, 0>>
         \/ ctr = GameAt /\ pc' = <<"game", 0, 0>>
      /\ lr' = NextPc /\ gpr' = gpr /\ ctr' = ctr /\ stack' = stack
  BY <1>2, RunBranch
<1>4. ctr = HookAt[h]
  BY <1>1 DEF InTrampoline
<1>5. /\ HookAt[h] # GameAt /\ h \in Nat
      /\ \A k \in Hook : HookAt[k] = HookAt[h] => k = h
  BY CallsAssumption, Constants
<1>6. pc' = <<"hook", h, 0>>
  BY <1>3, <1>4, <1>5
<1>7. lr' = <<"tramp", h, 11>>
  BY <1>3, NextPlace
<1>8. SameFrames
  BY <1>3, SameStack
<1>9. lr' \in Place3
  BY <1>5, <1>7 DEF Place3
<1>10. Basics'
  BY <1>1, <1>3, <1>9 DEF Basics
<1>11. /\ Top.of = "tramp" /\ Top.h = h /\ Top.toc = Top.given /\ gpr[2] = Sprx
       /\ gpr[TocReg[h]] = Top.given /\ Linked(stack)
  BY <1>1 DEF InTrampoline
<1>12. ReturnOf(Top) = <<"tramp", h, 11>> /\ TocOf(Top) = Top.given
  BY <1>11 DEF ReturnOf, TocOf
<1>13. /\ Top'.of = "tramp" /\ Top'.h = h /\ Top'.toc = TocOf(Top)' /\ gpr'[2] = Sprx
       /\ gpr'[TocReg[h]] = Top'.given /\ Linked(stack)' /\ lr' = ReturnOf(Top)'
  BY <1>3, <1>7, <1>8, <1>11, <1>12 DEF SameFrames, ReturnOf, TocOf
<1>14. InCode("hook", h, 0)'
  BY <1>13 DEF InCode
<1>15. QED  BY <1>5, <1>6, <1>10, <1>14, ToCode

LEMMA Tramp14 ==
  ASSUME NEW h \in Hook, IInv, pc = <<"tramp", h, 13>>, Execute(Decode(Trampoline(h)[14]))
  PROVE  IInv'
<1>1. Basics /\ InTrampoline(h, 13)
  BY AtTrampoline
<1>2. Execute(Instr("mtlr", 0, 0, 0))
  BY TrampolineIsAsDocumented
<1>3. /\ lr' = gpr[0] /\ ctr' = ctr
      /\ pc' = NextPc /\ gpr' = gpr /\ stack' = stack
  BY <1>2, RunMove
<1>4. pc' = <<"tramp", h, 14>>
  BY <1>3, NextPlace
<1>5. lr' = ReturnOf(stack[n - 1]) /\ lr' \in Place3
  BY <1>1, <1>3, Frames DEF InTrampoline
<1>6. SameFrames
  BY <1>3, SameStack
<1>7. Basics'
  BY <1>1, <1>3, <1>5 DEF Basics
<1>8. InTrampoline(h, 14)'
  BY <1>1, <1>3, <1>5, <1>6 DEF InTrampoline, SameFrames
<1>9. QED  BY <1>4, <1>7, <1>8, ToTrampoline

LEMMA Tramp15 ==
  ASSUME NEW h \in Hook, IInv, pc = <<"tramp", h, 14>>, Execute(Decode(Trampoline(h)[15]))
  PROVE  IInv'
<1>1. Basics /\ InTrampoline(h, 14)
  BY AtTrampoline
<1>2. Execute(Instr("addi", 1, 1, 96))
  BY TrampolineIsAsDocumented
<1>3. /\ stack' = SubSeq(stack, 1, n - 1)
      /\ pc' = NextPc /\ gpr' = gpr /\ lr' = lr /\ ctr' = ctr
  BY <1>2, RunAddi
<1>4. pc' = <<"tramp", h, 15>>
  BY <1>3, NextPlace
<1>5. Top.of = "tramp" /\ n > 1 /\ lr = ReturnOf(stack[n - 1]) /\ Linked(stack)
  BY <1>1 DEF InTrampoline
<1>6. /\ Basics' /\ Top' = stack[n - 1] /\ Linked(stack)'
      /\ Top'.toc = TocOf(Top') /\ On(Top', Top)
  BY <1>1, <1>3, <1>5, AfterPop DEF Basics
<1>7. Top'.of = "game" /\ Top'.toc = GameToc /\ lr' = ReturnOf(Top')
  BY <1>3, <1>5, <1>6 DEF On, TocOf
<1>8. InTrampoline(h, 15)'
  BY <1>6, <1>7 DEF InTrampoline
<1>9. QED  BY <1>4, <1>6, <1>8, ToTrampoline

LEMMA Tramp16 ==
  ASSUME NEW h \in Hook, IInv, pc = <<"tramp", h, 15>>, Execute(Decode(Trampoline(h)[16]))
  PROVE  IInv'
<1>1. Basics /\ InTrampoline(h, 15)
  BY AtTrampoline
<1>2. Execute(Instr("blr", 20, 0, 0))
  BY TrampolineIsAsDocumented
<1>3. pc' = lr /\ lr' = lr /\ gpr' = gpr /\ ctr' = ctr /\ stack' = stack
  BY <1>2, RunBranch
<1>4. /\ Top.of = "game" /\ Top.toc = GameToc /\ lr = ReturnOf(Top) /\ Linked(stack)
      /\ Top.h = 0
  BY <1>1, Frames DEF InTrampoline, Sound
<1>5. pc' = <<"game", 0, 2>> /\ TocOf(Top) = GameToc
  BY <1>3, <1>4 DEF ReturnOf, TocOf
<1>6. SameFrames /\ Basics'
  BY <1>1, <1>3, SameStack DEF Basics
<1>7. InCode("game", 0, 2)'
  BY <1>4, <1>5, <1>6 DEF InCode, SameFrames, TocOf
<1>8. QED  BY <1>5, <1>6, <1>7, ToCode

(* A step of the trampoline keeps the invariant.                           *)
LEMMA TrampolineStep ==
  ASSUME IInv, RunTrampoline
  PROVE  IInv'
<1>1. PICK h \in Hook, i \in 1 .. 16 :
        pc = <<"tramp", h, i - 1>> /\ Execute(Decode(Trampoline(h)[i]))
  BY DEF RunTrampoline
<1>2. CASE i \in 1 .. 4
  BY <1>1, <1>2, Tramp1, Tramp2, Tramp3, Tramp4
<1>3. CASE i \in 5 .. 8
  BY <1>1, <1>3, Tramp5, Tramp6, Tramp7, Tramp8
<1>4. CASE i \in 9 .. 12
  BY <1>1, <1>4, Tramp9, Tramp10, Tramp11, Tramp12
<1>5. CASE i \in 13 .. 16
  BY <1>1, <1>5, Tramp13, Tramp14, Tramp15, Tramp16
<1>6. QED  BY <1>2, <1>3, <1>4, <1>5

-----------------------------------------------------------------------------
(* The assembly of call_game_opd, instruction by instruction.              *)

LEMMA Asm1 ==
  ASSUME IInv, pc = <<"asm", 0, 0>>, Execute(Instr("stwu", 1, 1, 0 - 128))
  PROVE  IInv'
<1> DEFINE f == NewFrame("asm", 0, 128, gpr[2])
<1>1. Basics /\ InAssembly(0)
  BY AtAssembly
<1>2. /\ stack' = Append(stack, NewFrame(pc[1], pc[2], 0 - (0 - 128), gpr[2]))
      /\ pc' = NextPc /\ gpr' = gpr /\ lr' = lr /\ ctr' = ctr
  BY RunStwu
<1>3. stack' = Append(stack, f)
  BY <1>2
<1>4. pc' = <<"asm", 0, 1>>
  BY <1>2, NextPlace
<1>5. gpr[2] \in Nat
  BY <1>1 DEF Basics
<1>6. f \in Frame /\ Sound(f) /\ f.of = "asm" /\ f.h = 0
  BY <1>5 DEF NewFrame, Frame, Sound, Nowhere, Place3, Junk
<1>7. Top.of = "worker" /\ Linked(stack)
  BY <1>1 DEF InAssembly
<1>8. Top.h = 0 /\ Top.toc = TocOf(Top)
  BY <1>1, <1>7, Frames DEF Sound, TocOf
<1> HIDE DEF f
<1>9. On(Top, f)
  BY <1>6, <1>7, <1>8 DEF On
<1>10. Basics' /\ Top' = f /\ n' > 1
  BY <1>1, <1>2, <1>3, <1>6, <1>7, <1>8, <1>9, AfterPush
<1>11. InAssembly(1)'
  BY <1>1, <1>2, <1>6, <1>10 DEF InAssembly
<1>12. QED  BY <1>4, <1>10, <1>11, ToAssembly

LEMMA Asm2 ==
  ASSUME IInv, pc = <<"asm", 0, 1>>, Execute(Instr("mflr", 0, 0, 0))
  PROVE  IInv'
<1>1. Basics /\ InAssembly(1)
  BY AtAssembly
<1>2. /\ gpr' = [gpr EXCEPT ![0] = lr] /\ pc' = NextPc
      /\ lr' = lr /\ ctr' = ctr /\ stack' = stack
  BY RunMflr
<1>3. pc' = <<"asm", 0, 2>>
  BY <1>2, NextPlace
<1>4. /\ Basics' /\ SameFrames /\ gpr'[0] = lr /\ gpr'[2] = gpr[2]
      /\ \A r \in 3 .. 31 : gpr'[r] = gpr[r]
  BY <1>1, <1>2, AfterSet0
<1>5. gpr'[30] = gpr[30] /\ gpr'[31] = gpr[31] /\ gpr'[0] \in Place3
  BY <1>1, <1>4 DEF Basics
<1>6. InAssembly(2)'
  BY <1>1, <1>4, <1>5 DEF InAssembly, SameFrames
<1>7. QED  BY <1>3, <1>4, <1>6, ToAssembly

LEMMA Asm3 ==
  ASSUME IInv, pc = <<"asm", 0, 2>>, Execute(Instr("stw", 0, 1, 132))
  PROVE  IInv'
<1>1. Basics /\ InAssembly(2)
  BY AtAssembly
<1>2. /\ Top.of = "asm" /\ Top.size = 128 /\ n > 1 /\ n \in Nat /\ gpr[0] \in Place3
      /\ stack[n - 1].of = "worker"
  BY <1>1, Frames DEF InAssembly, Sound, On
<1>3. Place(132) = [frame |-> n - 1, word |-> 4]
  BY <1>2 DEF Place
<1>4. /\ stack' = [stack EXCEPT ![n - 1].lr = gpr[0]]
      /\ pc' = NextPc /\ gpr' = gpr /\ lr' = lr /\ ctr' = ctr
  BY <1>3, RunStw
<1>5. pc' = <<"asm", 0, 3>>
  BY <1>4, NextPlace
<1> DEFINE j == n - 1
<1>6. WritesLr(stack, stack', j, gpr[0]) /\ j = n - 1
  BY <1>4 DEF WritesLr
<1> HIDE DEF j
<1>7. gpr' = gpr /\ lr' = lr /\ ctr' = ctr
  BY <1>4
<1>8. Basics' /\ Top' = Top /\ n' = n /\ Linked(stack)'
  BY <1>1, <1>2, <1>6, <1>7, AfterLinkBelow
<1>9. InAssembly(3)'
  BY <1>1, <1>7, <1>8 DEF InAssembly
<1>10. QED  BY <1>5, <1>8, <1>9, ToAssembly

LEMMA Asm4 ==
  ASSUME IInv, pc = <<"asm", 0, 3>>, Execute(Instr("stw", 2, 1, 40))
  PROVE  IInv'
<1>1. Basics /\ InAssembly(3)
  BY AtAssembly
<1>2. Top.of = "asm" /\ Top.size = 128
  BY <1>1, Frames DEF InAssembly, Sound
<1>3. Place(40) = [frame |-> n, word |-> 40]
  BY <1>2 DEF Place
<1>4. /\ stack' = [stack EXCEPT ![n].toc = gpr[2]]
      /\ pc' = NextPc /\ gpr' = gpr /\ lr' = lr /\ ctr' = ctr
  BY <1>3, RunStw
<1>5. pc' = <<"asm", 0, 4>>
  BY <1>4, NextPlace
<1>6. WritesToc(stack, stack', gpr[2])
  BY <1>4 DEF WritesToc, n
<1>7. /\ gpr[2] \in Nat /\ lr' \in Place3 /\ ctr' = ctr
      /\ gpr' = [r \in Reg |-> gpr'[r]] /\ gpr'[2] \in Nat
  BY <1>1, <1>4 DEF Basics
<1>8. /\ Basics' /\ n' = n /\ (Linked(stack) => Linked(stack)')
      /\ Top'.toc = gpr[2] /\ Top'.of = Top.of
  BY <1>1, <1>6, <1>7, AfterSave
<1>9. InAssembly(4)'
  BY <1>1, <1>4, <1>8 DEF InAssembly
<1>10. QED  BY <1>5, <1>8, <1>9, ToAssembly

LEMMA Asm5 ==
  ASSUME IInv, pc = <<"asm", 0, 4>>, Execute(Instr("or", 30, 2, 30))
  PROVE  IInv'
<1>1. Basics /\ InAssembly(4)
  BY AtAssembly
<1>2. /\ gpr' = [gpr EXCEPT ![2] = gpr[30]] /\ pc' = NextPc
      /\ lr' = lr /\ ctr' = ctr /\ stack' = stack
  BY RunMr
<1>3. pc' = <<"asm", 0, 5>>
  BY <1>2, NextPlace
<1>4. gpr[30] = GameToc /\ GameToc \in Nat
  BY <1>1, Constants DEF InAssembly
<1>5. /\ Basics' /\ SameFrames /\ gpr'[2] = gpr[30]
      /\ \A r \in 3 .. 31 : gpr'[r] = gpr[r]
  BY <1>1, <1>2, <1>4, AfterSet2
<1>6. gpr'[2] = GameToc /\ gpr'[31] = gpr[31]
  BY <1>4, <1>5
<1>7. InAssembly(5)'
  BY <1>1, <1>5, <1>6 DEF InAssembly, SameFrames
<1>8. QED  BY <1>3, <1>5, <1>7, ToAssembly

LEMMA Asm6 ==
  ASSUME IInv, pc = <<"asm", 0, 5>>, Execute(Instr("mtctr", 31, 0, 0))
  PROVE  IInv'
<1>1. Basics /\ InAssembly(5)
  BY AtAssembly
<1>2. /\ ctr' = gpr[31] /\ lr' = lr
      /\ pc' = NextPc /\ gpr' = gpr /\ stack' = stack
  BY RunMove
<1>3. pc' = <<"asm", 0, 6>>
  BY <1>2, NextPlace
<1>4. ctr' = GameAt /\ GameAt \in Nat
  BY <1>1, <1>2, Constants DEF InAssembly
<1>5. SameFrames /\ Basics'
  BY <1>1, <1>2, <1>4, SameStack DEF Basics
<1>6. InAssembly(6)'
  BY <1>1, <1>2, <1>4, <1>5 DEF InAssembly, SameFrames
<1>7. QED  BY <1>3, <1>5, <1>6, ToAssembly

LEMMA Asm7 ==
  ASSUME IInv, pc = <<"asm", 0, 6>>, Execute(Instr("or", 29, 3, 29))
  PROVE  IInv'
<1> DEFINE c == 3
<1>1. Basics /\ InAssembly(6)
  BY AtAssembly
<1>2. /\ gpr' = [gpr EXCEPT ![c] = gpr[29]] /\ pc' = NextPc
      /\ lr' = lr /\ ctr' = ctr /\ stack' = stack
  BY RunMr
<1>3. pc' = <<"asm", 0, 7>>
  BY <1>2, NextPlace
<1>4. c \in 3 .. 10
  OBVIOUS
<1> HIDE DEF c
<1>5. Basics' /\ SameFrames /\ gpr'[2] = gpr[2]
  BY <1>1, <1>2, <1>4, AfterSetArgument
<1>6. InAssembly(7)'
  BY <1>1, <1>2, <1>5 DEF InAssembly, SameFrames
<1>7. QED  BY <1>3, <1>5, <1>6, ToAssembly

LEMMA Asm8 ==
  ASSUME IInv, pc = <<"asm", 0, 7>>, Execute(Instr("bctrl", 20, 0, 0))
  PROVE  IInv'
<1>1. Basics /\ InAssembly(7)
  BY AtAssembly
<1>2. /\ \/ \E k \in Hook : ctr = HookAt[k] /\ pc' = <<"hook", k, 0>>
         \/ ctr = GameAt /\ pc' = <<"game", 0, 0>>
      /\ lr' = NextPc /\ gpr' = gpr /\ ctr' = ctr /\ stack' = stack
  BY RunBranch
<1>3. /\ ctr = GameAt /\ gpr[2] = GameToc /\ Linked(stack) /\ Top.of = "asm"
      /\ Top.toc = Sprx
  BY <1>1 DEF InAssembly
<1>4. \A k \in Hook : HookAt[k] # GameAt
  BY Constants
<1>5. pc' = <<"game", 0, 0>>
  BY <1>2, <1>3, <1>4
<1>6. lr' = <<"asm", 0, 8>> /\ Top.h = 0
  BY <1>1, <1>2, <1>3, NextPlace, Frames DEF Sound
<1>7. lr' \in Place3
  BY <1>6 DEF Place3
<1>8. SameFrames /\ Basics'
  BY <1>1, <1>2, <1>7, SameStack DEF Basics
<1>9. lr' = ReturnOf(Top) /\ Top.toc = TocOf(Top)
  BY <1>3, <1>6 DEF ReturnOf, TocOf
<1>10. InCode("game", 0, 0)'
  BY <1>2, <1>3, <1>8, <1>9 DEF InCode, SameFrames
<1>11. QED  BY <1>5, <1>8, <1>10, ToCode

LEMMA Asm9 ==
  ASSUME IInv, pc = <<"asm", 0, 8>>, Execute(Instr("lwz", 2, 1, 40))
  PROVE  IInv'
<1>1. Basics /\ InAssembly(8)
  BY AtAssembly
<1>2. Top.of = "asm" /\ Top.size = 128 /\ Top.toc = Sprx /\ Sprx \in Nat
  BY <1>1, Frames, Constants DEF InAssembly, Sound
<1>3. Place(40) = [frame |-> n, word |-> 40]
  BY <1>2 DEF Place
<1>4. /\ gpr' = [gpr EXCEPT ![2] = Top.toc] /\ pc' = NextPc
      /\ lr' = lr /\ ctr' = ctr /\ stack' = stack
  BY <1>3, RunLwz DEF Top
<1>5. pc' = <<"asm", 0, 9>>
  BY <1>4, NextPlace
<1>6. Basics' /\ SameFrames /\ gpr'[2] = Top.toc
  <2>1. Basics /\ Top.toc \in Nat
    BY <1>1, <1>2
  <2>2. QED  BY <2>1, <1>4, AfterSet2, ZenonT(60)
<1>7. InAssembly(9)'
  BY <1>1, <1>2, <1>6 DEF InAssembly, SameFrames
<1>8. QED  BY <1>5, <1>6, <1>7, ToAssembly

LEMMA Asm10 ==
  ASSUME IInv, pc = <<"asm", 0, 9>>, Execute(Instr("lwz", 0, 1, 132))
  PROVE  IInv'
<1>1. Basics /\ InAssembly(9)
  BY AtAssembly
<1>2. /\ Top.of = "asm" /\ Top.size = 128 /\ n > 1 /\ n \in Nat
      /\ stack[n - 1] \in Frame
  BY <1>1, Frames DEF InAssembly, Sound
<1>3. Place(132) = [frame |-> n - 1, word |-> 4]
  BY <1>2 DEF Place
<1>4. /\ gpr' = [gpr EXCEPT ![0] = stack[n - 1].lr] /\ pc' = NextPc
      /\ lr' = lr /\ ctr' = ctr /\ stack' = stack
  BY <1>3, RunLwz
<1>5. pc' = <<"asm", 0, 10>>
  BY <1>4, NextPlace
<1>6. stack[n - 1].lr \in Place3
  BY <1>2 DEF Frame
<1>7. Basics' /\ SameFrames /\ gpr'[0] = stack[n - 1].lr /\ gpr'[2] = gpr[2]
  BY <1>1, <1>4, AfterSet0
<1>8. InAssembly(10)'
  BY <1>1, <1>6, <1>7 DEF InAssembly, SameFrames
<1>9. QED  BY <1>5, <1>7, <1>8, ToAssembly

LEMMA Asm11 ==
  ASSUME IInv, pc = <<"asm", 0, 10>>, Execute(Instr("mtlr", 0, 0, 0))
  PROVE  IInv'
<1>1. Basics /\ InAssembly(10)
  BY AtAssembly
<1>2. /\ lr' = gpr[0] /\ ctr' = ctr
      /\ pc' = NextPc /\ gpr' = gpr /\ stack' = stack
  BY RunMove
<1>3. pc' = <<"asm", 0, 11>>
  BY <1>2, NextPlace
<1>4. lr' \in Place3
  BY <1>1, <1>2 DEF InAssembly
<1>5. SameFrames /\ Basics'
  BY <1>1, <1>2, <1>4, SameStack DEF Basics
<1>6. InAssembly(11)'
  BY <1>1, <1>2, <1>5 DEF InAssembly, SameFrames
<1>7. QED  BY <1>3, <1>5, <1>6, ToAssembly

(* The worker's frame is the first.                                        *)
LEMMA WorkerIsLast ==
  ASSUME Basics, n > 1, stack[n - 1].of = "worker"
  PROVE  n = 2
<1>1. Chain(stack) /\ n = Len(stack) /\ n \in Nat
  BY DEF Basics, Chain, n
<1>2. SUFFICES ASSUME n > 2 PROVE FALSE
  BY <1>1
<1> DEFINE k == n - 2
<1>3. k \in 1 .. Len(stack) - 1 /\ k + 1 = n - 1
  BY <1>1, <1>2
<1> HIDE DEF k
<1>4. On(stack[k], stack[k + 1])
  BY <1>1, <1>3 DEF Chain
<1>5. QED  BY <1>3, <1>4 DEF On

LEMMA Asm12 ==
  ASSUME IInv, pc = <<"asm", 0, 11>>, Execute(Instr("addi", 1, 1, 128))
  PROVE  IInv'
<1>1. Basics /\ InAssembly(11)
  BY AtAssembly
<1>2. /\ stack' = SubSeq(stack, 1, n - 1)
      /\ pc' = NextPc /\ gpr' = gpr /\ lr' = lr /\ ctr' = ctr
  BY RunAddi
<1>3. pc' = <<"asm", 0, 12>>
  BY <1>2, NextPlace
<1>4. Top.of = "asm" /\ n > 1 /\ Linked(stack) /\ gpr[2] = Sprx
  BY <1>1 DEF InAssembly
<1>5. /\ Basics' /\ Top' = stack[n - 1] /\ n' = n - 1 /\ Linked(stack)' /\ On(Top', Top)
  BY <1>1, <1>2, <1>4, AfterPop DEF Basics
<1>6. Top'.of = "worker"
  BY <1>4, <1>5 DEF On
<1>a. stack[n - 1].of = "worker"
  BY <1>5, <1>6
<1>b. n = 2
  BY <1>1, <1>4, <1>a, WorkerIsLast
<1>7. n' = 1
  BY <1>5, <1>b
<1>c. gpr'[2] = Sprx
  BY <1>2, <1>4
<1>d. Linked(stack)'
  BY <1>5
<1>8. InAssembly(12)'
  BY <1>6, <1>7, <1>c, <1>d DEF InAssembly
<1>9. QED  BY <1>3, <1>5, <1>8, ToAssembly

LEMMA AssemblyStep ==
  ASSUME IInv, RunAssembly
  PROVE  IInv'
<1>1. /\ Len(CallGame) = 12
      /\ CallGame[1] = Instr("stwu", 1, 1, 0 - 128)
      /\ CallGame[2] = Instr("mflr", 0, 0, 0) /\ CallGame[3] = Instr("stw", 0, 1, 132)
      /\ CallGame[4] = Instr("stw", 2, 1, 40) /\ CallGame[5] = Instr("or", 30, 2, 30)
      /\ CallGame[6] = Instr("mtctr", 31, 0, 0) /\ CallGame[7] = Instr("or", 29, 3, 29)
      /\ CallGame[8] = Instr("bctrl", 20, 0, 0) /\ CallGame[9] = Instr("lwz", 2, 1, 40)
      /\ CallGame[10] = Instr("lwz", 0, 1, 132) /\ CallGame[11] = Instr("mtlr", 0, 0, 0)
      /\ CallGame[12] = Instr("addi", 1, 1, 128)
  BY DEF CallGame
<1>2. PICK i \in 1 .. Len(CallGame) : pc = <<"asm", 0, i - 1>> /\ Execute(CallGame[i])
  BY DEF RunAssembly
<1>3. i \in 1 .. 12
  BY <1>1, <1>2
<1>4. CASE i \in 1 .. 4
  BY <1>1, <1>2, <1>4, Asm1, Asm2, Asm3, Asm4
<1>5. CASE i \in 5 .. 8
  BY <1>1, <1>2, <1>5, Asm5, Asm6, Asm7, Asm8
<1>6. CASE i \in 9 .. 12
  BY <1>1, <1>2, <1>6, Asm9, Asm10, Asm11, Asm12
<1>7. QED  BY <1>3, <1>4, <1>5, <1>6

-----------------------------------------------------------------------------
(* Compiled code.                                                          *)

LEMMA DestroyedKeeps ==
  Destroyed = [r \in Reg |-> Destroyed[r]] /\ Destroyed[2] = gpr[2]
BY Registers DEF Destroyed

LEMMA WhereItIs ==
  ASSUME IInv
  PROVE  /\ Basics /\ pc = <<pc[1], pc[2], pc[3]>> /\ pc[2] \in Nat /\ pc[3] \in Nat
         /\ pc[1] \in {"game", "hook", "lib", "worker"} => InCode(pc[1], pc[2], pc[3])
<1>1. pc \in Place3
  BY DEF IInv
<1>2. pc = <<pc[1], pc[2], pc[3]>> /\ pc[2] \in Nat /\ pc[3] \in Nat
  BY <1>1 DEF Place3
<1>3. QED  BY <1>2 DEF IInv, Basics

(* Calls through a descriptor.                                             *)
LEMMA AfterCall ==
  ASSUME Basics, Linked(stack), NEW k \in {"game", "hook"}, NEW h \in Nat,
         pc = <<k, h, 1>>, Top.of = k, Top.h = h,
         NEW place, NEW toc \in Nat, CallTo(place, toc)
  PROVE  /\ Basics' /\ n' = n /\ Linked(stack)' /\ Top'.toc = gpr[2] /\ Top'.of = k
         /\ Top'.h = h /\ Top'.given = Top.given /\ gpr'[2] = toc
         /\ lr' = ReturnOf(Top') /\ pc' = place
<1>1. /\ stack' = [stack EXCEPT ![n].toc = gpr[2]] /\ gpr' = [gpr EXCEPT ![2] = toc]
      /\ lr' = NextPc /\ pc' = place /\ ctr' = ctr
  BY DEF CallTo
<1>2. lr' = <<k, h, 2>>
  BY <1>1, NextPlace
<1>3. WritesToc(stack, stack', gpr[2])
  BY <1>1 DEF WritesToc, n
<1>4. gpr' = [r \in Reg |-> gpr'[r]] /\ gpr'[2] = toc
  BY <1>1, SetRegister, Registers DEF Basics
<1>5. gpr[2] \in Nat /\ lr' \in Place3 /\ ctr' = ctr /\ gpr'[2] \in Nat
  BY <1>1, <1>2, <1>4 DEF Basics, Place3
<1>6. /\ Basics' /\ n' = n /\ Linked(stack)' /\ Top'.toc = gpr[2] /\ Top'.of = Top.of
      /\ Top'.h = Top.h /\ Top'.given = Top.given
  BY <1>3, <1>4, <1>5, AfterSave
<1>7. ReturnOf(Top') = <<k, h, 2>>
  BY <1>6 DEF ReturnOf
<1>8. QED  BY <1>1, <1>2, <1>4, <1>6, <1>7

LEMMA CallByWordStep ==
  ASSUME IInv, CallByWord \/ CallByPreamble
  PROVE  IInv'
<1>1. pc = <<"game", 0, 1>>
  BY DEF CallByWord, CallByPreamble
<1>2. Basics /\ InCode("game", 0, 1)
  BY <1>1, AtCode
<1>3. PICK h \in Hook, toc \in {Sprx, LibToc} : CallTo(<<"tramp", h, 0>>, toc)
  BY DEF CallByWord, CallByPreamble
<1>4. toc \in Nat
  BY <1>3, Constants
<1>5. Top.of = "game" /\ Top.h = 0 /\ gpr[2] = GameToc /\ Linked(stack)
  BY <1>2 DEF InCode
<1>6. /\ Basics' /\ Linked(stack)' /\ Top'.toc = gpr[2] /\ Top'.of = "game"
      /\ lr' = ReturnOf(Top') /\ pc' = <<"tramp", h, 0>>
  BY <1>1, <1>2, <1>3, <1>4, <1>5, AfterCall
<1>7. gpr'[2] \in EntryToc
  <2>1. gpr' = [gpr EXCEPT ![2] = toc] /\ gpr = [r \in Reg |-> gpr[r]] /\ 2 \in Reg
    BY <1>2, <1>3 DEF CallTo, Basics, Reg
  <2>2. gpr'[2] = toc
    BY <2>1
  <2>3. QED  BY <1>3, <2>2 DEF EntryToc
<1>8. InTrampoline(h, 0)'
  BY <1>5, <1>6, <1>7 DEF InTrampoline
<1>9. QED  BY <1>6, <1>8, ToTrampoline

LEMMA HookCallsStep ==
  ASSUME IInv, PassOn \/ CallBack
  PROVE  IInv'
<1>1. pc[1] = "hook" /\ pc[3] = 1
  BY DEF PassOn, CallBack
<1>2. PICK h \in Nat : pc = <<"hook", h, 1>>
  BY <1>1, WhereItIs
<1>3. Basics /\ InCode("hook", h, 1)
  BY <1>2, AtCode
<1>4. Top.of = "hook" /\ Top.h = h /\ gpr[2] = Sprx /\ Linked(stack)
  BY <1>3 DEF InCode
<1>5. Top.given \in Nat
  BY <1>3, Frames DEF Frame
<1>6. CASE PassOn
  <2>1. CallTo(<<"lib", h, 0>>, Top.given)
    BY <1>2, <1>6 DEF PassOn
  <2>2. /\ Basics' /\ Linked(stack)' /\ Top'.toc = Sprx /\ Top'.of = "hook"
        /\ Top'.h = h /\ gpr'[2] = Top'.given
        /\ lr' = ReturnOf(Top') /\ pc' = <<"lib", h, 0>>
    BY <1>2, <1>3, <1>4, <1>5, <2>1, AfterCall
  <2>3. TocOf(Top') = Sprx
    BY <2>2 DEF TocOf
  <2>4. InCode("lib", h, 0)'
    BY <2>2, <2>3 DEF InCode
  <2>5. QED  BY <2>2, <2>4, ToCode
<1>7. CASE CallBack
  <2>1. CallTo(<<"game", 0, 0>>, GameToc) /\ GameToc \in Nat
    BY <1>7, Constants DEF CallBack
  <2>2. /\ Basics' /\ Linked(stack)' /\ Top'.toc = Sprx /\ Top'.of = "hook"
        /\ gpr'[2] = GameToc /\ lr' = ReturnOf(Top') /\ pc' = <<"game", 0, 0>>
    BY <1>2, <1>3, <1>4, <2>1, AfterCall
  <2>3. TocOf(Top') = Sprx
    BY <2>2 DEF TocOf
  <2>4. InCode("game", 0, 0)'
    BY <2>2, <2>3 DEF InCode
  <2>5. QED  BY <2>2, <2>4, ToCode
<1>8. QED  BY <1>6, <1>7

LEMMA TriggerStep ==
  ASSUME IInv, Trigger
  PROVE  IInv'
<1>1. /\ pc = <<"worker", 0, 1>> /\ pc' = <<"asm", 0, 0>>
      /\ gpr' = [gpr EXCEPT ![30] = GameToc, ![31] = GameAt]
      /\ lr' = lr /\ ctr' = ctr /\ stack' = stack
  BY DEF Trigger
<1>2. Basics /\ InCode("worker", 0, 1)
  BY <1>1, AtCode
<1>3. DOMAIN gpr = Reg
  <2> DEFINE g == [r \in Reg |-> gpr[r]]
  <2>1. DOMAIN g = Reg
    OBVIOUS
  <2>2. QED  BY <1>2, <2>1 DEF Basics
<1>a. gpr' = [r \in Reg |-> IF r = 31 THEN GameAt ELSE IF r = 30 THEN GameToc ELSE gpr[r]]
  BY <1>1, <1>3, Registers
<1>4. /\ gpr' = [r \in Reg |-> gpr'[r]] /\ gpr'[2] = gpr[2]
      /\ gpr'[30] = GameToc /\ gpr'[31] = GameAt
  BY <1>a, Registers
<1>5. SameFrames /\ Basics'
  BY <1>1, <1>2, <1>4, SameStack DEF Basics
<1>6. Top.of = "worker" /\ n = 1 /\ gpr[2] = Sprx /\ Linked(stack)
  BY <1>2 DEF InCode
<1>7. InAssembly(0)'
  BY <1>4, <1>5, <1>6 DEF InAssembly, SameFrames
<1>8. QED  BY <1>1, <1>5, <1>7, ToAssembly

LEMMA TriggeredStep ==
  ASSUME IInv, Triggered
  PROVE  IInv'
<1>1. Len(CallGame) = 12
  BY DEF CallGame
<1>2. /\ pc = <<"asm", 0, 12>> /\ pc' = <<"worker", 0, 1>> /\ gpr' = Destroyed
      /\ lr' = lr /\ ctr' = ctr /\ stack' = stack
  BY <1>1 DEF Triggered
<1>3. Basics /\ InAssembly(12)
  BY <1>2, AtAssembly
<1>4. gpr' = [r \in Reg |-> gpr'[r]] /\ gpr'[2] = gpr[2]
  BY <1>2, DestroyedKeeps
<1>5. SameFrames /\ Basics'
  BY <1>2, <1>3, <1>4, SameStack DEF Basics
<1>6. Top.of = "worker" /\ n = 1 /\ gpr[2] = Sprx /\ Linked(stack) /\ Top.h = 0
  BY <1>3, Frames DEF InAssembly, Sound
<1>7. InCode("worker", 0, 1)'
  BY <1>4, <1>5, <1>6 DEF InCode, SameFrames
<1>8. QED  BY <1>2, <1>5, <1>7, ToCode

LEMMA ResumeStep ==
  ASSUME IInv, Resume
  PROVE  IInv'
<1>1. /\ pc[1] \in {"game", "hook"} /\ pc[3] = 2 /\ pc' = [pc EXCEPT ![3] = 1]
      /\ gpr' = [Destroyed EXCEPT ![2] = Top.toc]
      /\ lr' = lr /\ ctr' = ctr /\ stack' = stack
  BY DEF Resume
<1>2. PICK k \in {"game", "hook"}, h \in Nat : pc = <<k, h, 2>>
  BY <1>1, WhereItIs
<1>3. Basics /\ InCode(k, h, 2)
  BY <1>2, AtCode
<1>4. pc' = <<k, h, 1>>
  BY <1>1, <1>2
<1>5. gpr' = [r \in Reg |-> gpr'[r]] /\ gpr'[2] = Top.toc
  BY <1>1, Registers DEF Destroyed
<1>6. Top.of = k /\ Top.h = h /\ Top.toc = TocOf(Top) /\ TocOf(Top) \in Nat /\ Linked(stack)
  BY <1>3, Frames DEF InCode
<1>7. SameFrames /\ Basics'
  BY <1>1, <1>3, <1>5, <1>6, SameStack DEF Basics
<1>8. (k = "game" => gpr'[2] = GameToc) /\ (k = "hook" => gpr'[2] = Sprx)
  BY <1>5, <1>6 DEF TocOf
<1>9. InCode(k, h, 1)'
  BY <1>6, <1>7, <1>8 DEF InCode, SameFrames
<1>10. QED  BY <1>4, <1>7, <1>9, ToCode

LEMMA EnterStep ==
  ASSUME IInv, Enter
  PROVE  IInv'
<1>1. pc[1] \in {"game", "hook", "lib"} /\ pc[3] = 0
  BY DEF Enter
<1>2. PICK k \in {"game", "hook", "lib"}, h \in Nat : pc = <<k, h, 0>>
  BY <1>1, WhereItIs
<1>3. Basics /\ InCode(k, h, 0)
  BY <1>2, AtCode
<1> DEFINE given == IF k = "hook" THEN gpr[3 + Params[h]] ELSE gpr[2]
           f == NewFrame(k, h, 112, given)
           s == [stack EXCEPT ![n].lr = lr]
<1>4. /\ stack' = Append(s, f) /\ pc' = NextPc /\ gpr' = Destroyed /\ ctr' = Junk
      /\ lr' = lr
  BY <1>2 DEF Enter
<1>5. pc' = <<k, h, 1>>
  BY <1>2, <1>4, NextPlace
<1>6. /\ Top.toc = TocOf(Top) /\ lr = ReturnOf(Top) /\ Top.of # "worker" /\ Linked(stack)
  BY <1>3 DEF InCode
<1>7. /\ k = "game" => h = 0 /\ Top.of \in {"hook", "asm"} /\ gpr[2] = GameToc
      /\ k = "hook" => /\ Top.of = "tramp" /\ Top.h = h /\ gpr[2] = Sprx
                       /\ gpr[TocReg[h]] = Top.given
      /\ k = "lib"  => Top.of = "hook" /\ Top.h = h /\ gpr[2] = Top.given
  BY <1>3 DEF InCode
<1>8. /\ n \in Nat /\ n > 0 /\ Top \in Frame /\ Sound(Top)
      /\ Top.given \in Nat /\ gpr[2] \in Nat /\ lr \in Place3 /\ n = Len(stack)
      /\ Chain(stack) /\ stack[1].of \in {"game", "worker"}
  BY <1>3, Frames DEF Basics, Frame, n
<1>9. k = "hook" => h \in Hook /\ given = Top.given
  <2>1. k = "hook" => h \in Hook
    BY <1>7, <1>8 DEF Sound
  <2>2. k = "hook" => 3 + Params[h] = TocReg[h]
    BY <2>1, Constants
  <2>3. QED  BY <1>7, <2>1, <2>2
<1>10. given \in Nat
  BY <1>8, <1>9
<1> HIDE DEF given
<1>11. f \in Frame /\ Sound(f) /\ f.of = k /\ f.h = h /\ f.given = given
  BY <1>7, <1>9, <1>10 DEF NewFrame, Frame, Sound, Nowhere, Place3, Junk
<1>12. WritesLr(stack, s, n, lr)
  BY DEF WritesLr
<1> HIDE DEF f, s
<1>13. /\ n \in 1 .. Len(stack) /\ n >= Len(stack) - 1
       /\ (stack[n].of = "worker" \/ lr = ReturnOf(stack[n]))
  BY <1>6, <1>8 DEF Top
<1>14. Chain(s) /\ Len(s) = Len(stack) /\ s[n].lr = ReturnOf(s[n])
  BY <1>8, <1>12, <1>13, LinkKeepsChain
<1>15. /\ SameOwner(stack[1], s[1]) /\ SameOwner(stack[n], s[n])
  BY <1>8, <1>12, <1>13, LinkKeepsChain
<1>16. /\ s[n].h = stack[n].h /\ s[n].toc = stack[n].toc /\ s[n].given = stack[n].given
       /\ TocOf(s[n]) = TocOf(stack[n])
  BY <1>8, <1>12, <1>13, LinkKeepsChain
<1>17. \A j \in 1 .. Len(stack) : j # n => s[j] = stack[j]
  BY <1>8, <1>12, <1>13, LinkKeepsChain
<1>18. Linked(s)
  <2>1. n > 1 => n - 1 \in 1 .. Len(stack) /\ n - 1 # n
    BY <1>8
  <2>2. n > 1 => s[n - 1] = stack[n - 1]
    BY <1>17, <2>1
  <2>3. QED  BY <1>6, <1>8, <1>14, <2>2 DEF Linked
<1> DEFINE g == s[n]
<1>19. /\ g.of = Top.of /\ g.h = Top.h /\ g.toc = TocOf(g) /\ g.given = Top.given
  BY <1>6, <1>15, <1>16 DEF SameOwner, Top
<1>20. g.lr = ReturnOf(g) /\ g = s[Len(s)] /\ Len(s) = n
  BY <1>8, <1>14
<1> HIDE DEF g
<1>21. On(g, f)
  BY <1>7, <1>9, <1>11, <1>19 DEF On
<1>22. On(s[Len(s)], f) /\ s[Len(s)].toc = TocOf(s[Len(s)])
  BY <1>19, <1>20, <1>21
<1>23. /\ Chain(Append(s, f)) /\ Len(Append(s, f)) = Len(s) + 1
       /\ Append(s, f)[Len(s) + 1] = f /\ Append(s, f)[Len(s)] = s[Len(s)]
       /\ Append(s, f)[1] = s[1]
  BY <1>11, <1>14, <1>18, <1>22, PushKeepsChain
<1>24. /\ Chain(stack') /\ Len(stack') = n + 1 /\ stack'[n + 1] = f /\ stack'[n] = g
       /\ stack'[1] = s[1]
  BY <1>4, <1>20, <1>23
<1>25. n' = n + 1 /\ Top' = f /\ n' > 1 /\ stack'[n' - 1] = g
  BY <1>8, <1>24 DEF n, Top
<1>26. Linked(stack)'
  BY <1>20, <1>25 DEF Linked, n
<1>27. gpr' = [r \in Reg |-> gpr'[r]] /\ gpr'[2] = gpr[2]
  BY <1>4, DestroyedKeeps
<1>28. Basics'
  BY <1>4, <1>8, <1>15, <1>24, <1>27 DEF Basics, SameOwner, Junk
<1>29. /\ k = "game" => gpr'[2] = GameToc
       /\ k = "hook" => gpr'[2] = Sprx
       /\ k = "lib" => gpr'[2] = g.given
  BY <1>7, <1>19, <1>27
<1>30. Top'.of = k /\ Top'.h = h /\ n' > 1 /\ stack'[n' - 1].given = g.given
  BY <1>11, <1>25
<1>31. InCode(k, h, 1)'
  BY <1>2, <1>26, <1>29, <1>30 DEF InCode
<1>32. QED  BY <1>5, <1>28, <1>31, ToCode

(* The first frame is the game's or the worker's.                          *)
LEMMA NotFirst ==
  ASSUME Basics, n > 1, stack[n - 1].of \in {"tramp", "hook", "asm"}
  PROVE  n > 2
<1>1. n \in Nat
  BY Frames
<1>2. n # 2
  BY DEF Basics
<1>3. QED  BY <1>1, <1>2

LEMMA ReturnStep ==
  ASSUME IInv, Return
  PROVE  IInv'
<1>1. /\ pc[1] \in {"game", "hook", "lib"} /\ pc[3] = 1 /\ n > 1
      /\ stack' = SubSeq(stack, 1, n - 1)
      /\ pc' = stack[n - 1].lr /\ lr' = pc' /\ gpr' = gpr /\ ctr' = ctr
  BY DEF Return
<1>2. PICK k \in {"game", "hook", "lib"}, h \in Nat : pc = <<k, h, 1>>
  BY <1>1, WhereItIs
<1>3. Basics /\ InCode(k, h, 1)
  BY <1>2, AtCode
<1>4. Top.of = k /\ Top.h = h /\ Linked(stack)
  BY <1>3 DEF InCode
<1> DEFINE f == stack[n - 1]
<1>5. /\ f \in Frame /\ Sound(f) /\ On(f, Top) /\ ReturnOf(f) \in Place3 /\ n \in Nat
  BY <1>1, <1>3, Frames
<1>6. f.lr = ReturnOf(f)
  BY <1>1, <1>4 DEF Linked, n
<1>7. pc' = ReturnOf(f) /\ lr' \in Place3
  BY <1>1, <1>5, <1>6
<1>a. gpr' = gpr /\ ctr' = ctr
  BY <1>1
<1>8. /\ Basics' /\ Top' = f /\ n' = n - 1 /\ Linked(stack)' /\ Top'.toc = TocOf(Top')
  <2>1. n > 1 /\ stack' = SubSeq(stack, 1, n - 1)
    BY <1>1
  <2>2. QED  BY <1>3, <1>4, <1>7, <1>a, <2>1, AfterPop
<1>9. f.of \in {"tramp", "hook", "asm"} => n' > 1
  BY <1>1, <1>3, <1>5, <1>8, NotFirst
<1>b. f.of \in {"tramp", "hook", "asm"}
  BY <1>4, <1>5 DEF On
<1>c. PICK j \in Nat : f.h = j
  BY <1>5 DEF Frame
<1> HIDE DEF f
<1>10. CASE f.of = "tramp"
  <2>1. pc' = <<"tramp", j, 11>> /\ j \in Hook
    BY <1>5, <1>7, <1>10, <1>c DEF ReturnOf, Sound
  <2>2. /\ Top'.of = "tramp" /\ Top'.h = j /\ Top'.toc = Top'.given /\ n' > 1
        /\ Linked(stack)'
    BY <1>8, <1>9, <1>10, <1>c DEF TocOf
  <2>3. InTrampoline(j, 11)'
    BY <2>2 DEF InTrampoline
  <2>4. QED  BY <1>8, <2>1, <2>3, ToTrampoline
<1>11. CASE f.of = "hook"
  <2>1. pc' = <<"hook", j, 2>>
    BY <1>7, <1>11, <1>c DEF ReturnOf
  <2>2. Top'.of = "hook" /\ Top'.h = j /\ Top'.toc = TocOf(Top') /\ Linked(stack)'
    BY <1>8, <1>11, <1>c
  <2>3. InCode("hook", j, 2)'
    BY <2>2 DEF InCode
  <2>4. QED  BY <1>8, <1>c, <2>1, <2>3, ToCode
<1>12. CASE f.of = "asm"
  <2>1. pc' = <<"asm", 0, 8>>
    BY <1>5, <1>7, <1>12 DEF ReturnOf, Sound
  <2>2. Top'.of = "asm" /\ Top'.toc = Sprx /\ n' > 1 /\ Linked(stack)'
    BY <1>8, <1>9, <1>12 DEF TocOf
  <2>3. InAssembly(8)'
    BY <2>2 DEF InAssembly
  <2>4. QED  BY <1>8, <2>1, <2>3, ToAssembly
<1>13. QED  BY <1>b, <1>10, <1>11, <1>12

-----------------------------------------------------------------------------
(* The invariant.                                                          *)

LEMMA InvInit ==
  ASSUME Init
  PROVE  IInv
<1>1. PICK k \in {"game", "worker"}, toc \in {GameToc, Sprx} :
        /\ k = "game" => toc = GameToc
        /\ k = "worker" => toc = Sprx
        /\ pc = <<k, 0, 1>> /\ gpr = [r \in Reg |-> IF r = 2 THEN toc ELSE Junk]
  BY DEF Init
<1> DEFINE f == NewFrame(k, 0, 112, toc)
<1>2. toc \in Nat
  BY <1>1, Constants
<1>3. gpr = [r \in Reg |-> gpr[r]] /\ gpr[2] = toc
  BY <1>1, Registers
<1>4. lr = Nowhere /\ ctr = Junk /\ stack = <<NewFrame(pc[1], 0, 112, gpr[2])>>
  BY DEF Init
<1>5. stack = <<f>>
  BY <1>1, <1>3, <1>4
<1>6. f \in Frame /\ Sound(f) /\ f.of = k /\ f.h = 0
  BY <1>2 DEF NewFrame, Frame, Sound, Nowhere, Place3, Junk
<1> HIDE DEF f
<1>7. stack \in Seq(Frame) /\ Len(stack) = 1 /\ stack[1] = f
  BY <1>5, <1>6
<1>8. Chain(stack) /\ Linked(stack)
  BY <1>6, <1>7 DEF Chain, Linked
<1>9. n = 1 /\ Top = f
  BY <1>7 DEF n, Top
<1>10. lr \in Place3 /\ ctr \in Nat
  BY <1>4 DEF Nowhere, Place3, Junk
<1>11. Basics
  BY <1>2, <1>3, <1>6, <1>7, <1>8, <1>10 DEF Basics
<1>12. InCode(k, 0, 1)
  BY <1>1, <1>3, <1>6, <1>8, <1>9 DEF InCode
<1>13. QED  BY <1>1, <1>11, <1>12, AtCode

LEMMA InvStep ==
  ASSUME IInv, [Next]_vars
  PROVE  IInv'
<1>1. CASE RunTrampoline
  BY <1>1, TrampolineStep
<1>2. CASE RunAssembly
  BY <1>2, AssemblyStep
<1>3. CASE Enter
  BY <1>3, EnterStep
<1>4. CASE CallByWord \/ CallByPreamble
  BY <1>4, CallByWordStep
<1>5. CASE PassOn \/ CallBack
  BY <1>5, HookCallsStep
<1>6. CASE Trigger
  BY <1>6, TriggerStep
<1>7. CASE Triggered
  BY <1>7, TriggeredStep
<1>8. CASE Return
  BY <1>8, ReturnStep
<1>9. CASE Resume
  BY <1>9, ResumeStep
<1>10. CASE UNCHANGED vars
  <2>1. pc' = pc /\ gpr' = gpr /\ lr' = lr /\ ctr' = ctr /\ stack' = stack
    BY <1>10 DEF vars
  <2>2. n' = n /\ Top' = Top
    BY <2>1 DEF n, Top
  <2>3. QED  BY <2>1, <2>2 DEF IInv, InTrampoline, InAssembly, InCode
<1>11. QED
  BY <1>1, <1>2, <1>3, <1>4, <1>5, <1>6, <1>7, <1>8, <1>9, <1>10 DEF Next

(* The stack and the registers always fit the place the code is at: who may*)
(* be on top of whom, where each frame returns to, which TOC each saved.   *)
THEOREM CallsAreOrderly == Spec => []IInv
<1>1. Init => IInv
  BY InvInit
<1>2. IInv /\ [Next]_vars => IInv'
  BY InvStep
<1>3. QED  BY <1>1, <1>2, PTL DEF Spec

(* Game, plugin and worker run with their own TOC, however the calls nest. *)
THEOREM EachRunsWithItsToc == Spec => []OwnToc
<1>1. IInv => OwnToc
  <2>1. ASSUME IInv, pc = <<"game", 0, 1>> PROVE gpr[2] = GameToc
    BY <2>1, AtCode DEF InCode
  <2>2. ASSUME IInv, pc = <<"worker", 0, 1>> PROVE gpr[2] = Sprx
    BY <2>2, AtCode DEF InCode
  <2>3. ASSUME IInv, pc[1] = "hook", pc[3] = 1 PROVE gpr[2] = Sprx
    BY <2>3, WhereItIs DEF InCode
  <2>4. QED  BY <2>1, <2>2, <2>3 DEF OwnToc
<1>2. QED  BY <1>1, CallsAreOrderly, PTL

(* Every return ends in the code that made the call.                       *)
THEOREM EveryReturnIsToItsFrame == Spec => []ReturnsToItsFrame
<1>1. ASSUME IInv PROVE ReturnsToItsFrame
  <2>1. Basics
    BY <1>1, WhereItIs
  <2>2. ASSUME pc[1] \in {"game", "hook", "lib", "worker"}, pc[3] \in {1, 2}
        PROVE  Top.of = pc[1] /\ Top.h = pc[2]
    BY <1>1, <2>2, WhereItIs DEF InCode
  <2>3. ASSUME pc[1] = "tramp", pc[3] \in 1 .. 14
        PROVE  Top.of = pc[1] /\ Top.h = pc[2]
    BY <1>1, <2>3 DEF IInv, InTrampoline
  <2>4. ASSUME pc[1] = "asm", pc[3] \in 1 .. 11
        PROVE  Top.of = pc[1] /\ Top.h = pc[2]
    <3>1. Top.of = "asm" /\ pc[2] = 0
      BY <1>1, <2>4 DEF IInv, InAssembly
    <3>2. Sound(Top)
      BY <2>1, Frames
    <3>3. QED  BY <2>4, <3>1, <3>2 DEF Sound
  <2>5. QED  BY <2>2, <2>3, <2>4 DEF ReturnsToItsFrame
<1>2. QED  BY <1>1, CallsAreOrderly, PTL

(* libusbd runs with the TOC its trampoline was entered with: its own or,  *)
(* after a call by a redirected word, the plugin's; never the game's.      *)
THEOREM LibusbdGetsTheEntryToc == Spec => []PassesEntryToc
<1>1. ASSUME IInv PROVE PassesEntryToc
  <2>1. SUFFICES ASSUME pc[1] = "lib", pc[3] = 1
                 PROVE  /\ stack[n - 2].of = "tramp" /\ stack[n - 2].h = pc[2]
                        /\ gpr[2] = stack[n - 2].given
                        /\ gpr[2] \in EntryToc
    BY DEF PassesEntryToc
  <2>2. Basics /\ InCode("lib", pc[2], 1)
    BY <1>1, <2>1, WhereItIs
  <2>3. /\ Top.of = "lib" /\ Top.h = pc[2] /\ n > 1 /\ gpr[2] = stack[n - 1].given
    BY <2>2 DEF InCode
  <2>4. On(stack[n - 1], Top) /\ n \in Nat
    BY <2>2, <2>3, Frames
  <2>5. stack[n - 1].of = "hook" /\ stack[n - 1].h = pc[2]
    BY <2>3, <2>4 DEF On
  <2>6. n > 2
    BY <2>2, <2>3, <2>5, NotFirst
  <2> DEFINE k == n - 2
  <2>7. k \in 1 .. Len(stack) - 1 /\ k + 1 = n - 1
    BY <2>4, <2>6 DEF n
  <2> HIDE DEF k
  <2>8. On(stack[k], stack[k + 1])
    BY <2>2, <2>7 DEF Basics, Chain
  <2>9. /\ stack[k].of = "tramp" /\ stack[k].h = pc[2]
        /\ stack[k].given = stack[n - 1].given
    BY <2>5, <2>7, <2>8 DEF On
  <2>10. stack[k].given \in EntryToc
    BY <2>2, <2>7, <2>9 DEF Basics, Chain, Sound
  <2>11. QED  BY <2>3, <2>9, <2>10 DEF k
<1>2. QED  BY <1>1, CallsAreOrderly, PTL

-----------------------------------------------------------------------------
(* What the code written by hand leaves alone.                             *)

(* The register that an instruction writes, if any.                        *)
LEMMA WritesOne ==
  ASSUME NEW x, Execute(x)
  PROVE  /\ x.op \in {"stwu", "stw", "addi", "mtlr", "mtctr", "bctrl", "blr"}
              => gpr' = gpr
         /\ x.op \in {"lwz", "lis", "mflr"} => \E v : gpr' = [gpr EXCEPT ![x.t] = v]
         /\ x.op \in {"ori", "or"} => \E v : gpr' = [gpr EXCEPT ![x.a] = v]
<1>1. CASE Stwu(x) \/ Stw(x) \/ Addi(x)
  BY <1>1 DEF Stwu, Stw, Addi
<1>2. CASE Move(x) \/ Branch(x)
  BY <1>2 DEF Move, Branch
<1>3. CASE Lwz(x)
  BY <1>3 DEF Lwz
<1>4. CASE Compute(x)
  BY <1>4 DEF Compute
<1>5. QED  BY <1>1, <1>2, <1>3, <1>4 DEF Execute

LEMMA KeepsOthers ==
  ASSUME NEW k, NEW v, gpr' = [gpr EXCEPT ![k] = v], NEW R, R \subseteq Reg, k \notin R,
         gpr = [r \in Reg |-> gpr[r]]
  PROVE  Keeps(R)
BY DEF Keeps

(* A trampoline writes r0, r2, r12 and, before the call, the register that *)
(* passes the TOC.                                                         *)
LEMMA TrampolineWrites ==
  ASSUME IInv, RunTrampoline
  PROVE  /\ Keeps(Reg \ {0, 2, 12, TocReg[pc[2]]})
         /\ pc[3] \in 11 .. 15 => Keeps(Reg \ {0, 2, 12})
<1>1. PICK h \in Hook, i \in 1 .. 16 :
        pc = <<"tramp", h, i - 1>> /\ Execute(Decode(Trampoline(h)[i]))
  BY DEF RunTrampoline
<1> DEFINE x == Decode(Trampoline(h)[i])
<1>2. \/ x.op \in {"stwu", "stw", "addi", "mtlr", "mtctr", "bctrl", "blr"}
      \/ x.op \in {"lwz", "lis", "mflr"} /\ x.t \in {0, 2, 12}
      \/ x.op \in {"ori", "or"} /\ x.a \in {0, 2, 12}
      \/ x.op \in {"ori", "or"} /\ x.a = TocReg[h] /\ i = 5
  <2>1. ASSUME NEW op, NEW t, NEW a, NEW j
        PROVE  /\ Instr(op, t, a, j).op = op /\ Instr(op, t, a, j).t = t
               /\ Instr(op, t, a, j).a = a
    BY DEF Instr
  <2> DEFINE D(k) == Decode(Trampoline(h)[k])
  <2>2. /\ D(1) = Instr("stwu", 1, 1, 0 - 96) /\ D(2) = Instr("mflr", 0, 0, 0)
        /\ D(3) = Instr("stw", 0, 1, 100) /\ D(4) = Instr("stw", 2, 1, 40)
        /\ D(5) = Instr("or", 2, TocReg[h], 2)
        /\ D(6) = Instr("lis", 2, 0, Sprx \div 65536)
        /\ D(7) = Instr("ori", 2, 2, Sprx % 65536)
        /\ D(8) = Instr("lis", 12, 0, HookAt[h] \div 65536)
        /\ D(9) = Instr("ori", 12, 12, HookAt[h] % 65536)
        /\ D(10) = Instr("mtctr", 12, 0, 0) /\ D(11) = Instr("bctrl", 20, 0, 0)
        /\ D(12) = Instr("lwz", 2, 1, 40) /\ D(13) = Instr("lwz", 0, 1, 100)
        /\ D(14) = Instr("mtlr", 0, 0, 0) /\ D(15) = Instr("addi", 1, 1, 96)
        /\ D(16) = Instr("blr", 20, 0, 0)
    BY TrampolineIsAsDocumented
  <2>3. x = D(i)
    OBVIOUS
  <2> HIDE DEF x, D
  <2>4. /\ D(1).op = "stwu" /\ D(2).op = "mflr" /\ D(2).t = 0
        /\ D(3).op = "stw" /\ D(4).op = "stw" /\ D(5).op = "or" /\ D(5).a = TocReg[h]
        /\ D(6).op = "lis" /\ D(6).t = 2 /\ D(7).op = "ori" /\ D(7).a = 2
        /\ D(8).op = "lis" /\ D(8).t = 12 /\ D(9).op = "ori" /\ D(9).a = 12
    BY <2>1, <2>2
  <2>5. /\ D(10).op = "mtctr" /\ D(11).op = "bctrl"
        /\ D(12).op = "lwz" /\ D(12).t = 2 /\ D(13).op = "lwz" /\ D(13).t = 0
        /\ D(14).op = "mtlr" /\ D(15).op = "addi" /\ D(16).op = "blr"
    BY <2>1, <2>2
  <2>6. CASE i \in 1 .. 9
    BY <2>3, <2>4, <2>6
  <2>7. CASE i \in 10 .. 16
    BY <2>3, <2>5, <2>7
  <2>8. QED  BY <2>6, <2>7
<1>3. Execute(x) /\ pc[2] = h /\ pc[3] = i - 1
  BY <1>1
<1> HIDE DEF x
<1>4. \/ gpr' = gpr
      \/ \E k \in {0, 2, 12} : \E v : gpr' = [gpr EXCEPT ![k] = v]
      \/ i = 5 /\ \E v : gpr' = [gpr EXCEPT ![TocReg[h]] = v]
  BY <1>2, <1>3, WritesOne
<1>5. gpr = [r \in Reg |-> gpr[r]]
  BY DEF IInv
<1>6. CASE gpr' = gpr
  BY <1>6 DEF Keeps
<1>7. ASSUME NEW k \in {0, 2, 12}, NEW v, gpr' = [gpr EXCEPT ![k] = v]
      PROVE  Keeps(Reg \ {0, 2, 12, TocReg[h]}) /\ Keeps(Reg \ {0, 2, 12})
  BY <1>5, <1>7, KeepsOthers
<1>8. ASSUME NEW v, gpr' = [gpr EXCEPT ![TocReg[h]] = v]
      PROVE  Keeps(Reg \ {0, 2, 12, TocReg[h]})
  BY <1>5, <1>8, KeepsOthers
<1>9. i = 5 => pc[3] \notin 11 .. 15
  BY <1>3
<1>10. QED  BY <1>3, <1>4, <1>6, <1>7, <1>8, <1>9

(* The assembly of call_game_opd writes r0, r2 and, before the call, r3.   *)
LEMMA AssemblyWrites ==
  ASSUME IInv, RunAssembly
  PROVE  Keeps(Reg \ {0, 2, 3}) /\ (pc[3] \in 8 .. 11 => Keeps(Reg \ {0, 2}))
<1>1. PICK i \in 1 .. Len(CallGame) : pc = <<"asm", 0, i - 1>> /\ Execute(CallGame[i])
  BY DEF RunAssembly
<1> DEFINE x == CallGame[i]
<1>2. Len(CallGame) = 12
  BY DEF CallGame
<1>3. i \in 1 .. 12 /\ pc[3] = i - 1
  BY <1>1, <1>2
<1>4. \/ x.op \in {"stwu", "stw", "addi", "mtlr", "mtctr", "bctrl", "blr"}
      \/ x.op \in {"lwz", "lis", "mflr"} /\ x.t \in {0, 2}
      \/ x.op \in {"ori", "or"} /\ x.a \in {0, 2}
      \/ x.op \in {"ori", "or"} /\ x.a = 3 /\ i = 7
  BY <1>3 DEF CallGame, Instr
<1>5. Execute(x)
  BY <1>1
<1> HIDE DEF x
<1>6. \/ gpr' = gpr
      \/ \E k \in {0, 2} : \E v : gpr' = [gpr EXCEPT ![k] = v]
      \/ i = 7 /\ \E v : gpr' = [gpr EXCEPT ![3] = v]
  <2>1. /\ x.op \in {"stwu", "stw", "addi", "mtlr", "mtctr", "bctrl", "blr"} => gpr' = gpr
        /\ x.op \in {"lwz", "lis", "mflr"} => \E v : gpr' = [gpr EXCEPT ![x.t] = v]
        /\ x.op \in {"ori", "or"} => \E v : gpr' = [gpr EXCEPT ![x.a] = v]
    BY <1>5, WritesOne
  <2>2. CASE x.op \in {"stwu", "stw", "addi", "mtlr", "mtctr", "bctrl", "blr"}
    BY <2>1, <2>2
  <2>3. CASE x.op \in {"lwz", "lis", "mflr"} /\ x.t \in {0, 2}
    BY <2>1, <2>3
  <2>4. CASE x.op \in {"ori", "or"} /\ x.a \in {0, 2}
    BY <2>1, <2>4
  <2>5. CASE x.op \in {"ori", "or"} /\ x.a = 3 /\ i = 7
    BY <2>1, <2>5
  <2>6. QED  BY <1>4, <2>2, <2>3, <2>4, <2>5
<1>7. gpr = [r \in Reg |-> gpr[r]]
  BY DEF IInv
<1>8. CASE gpr' = gpr
  BY <1>8 DEF Keeps
<1>9. ASSUME NEW k \in {0, 2}, NEW v, gpr' = [gpr EXCEPT ![k] = v]
      PROVE  Keeps(Reg \ {0, 2, 3}) /\ Keeps(Reg \ {0, 2})
  BY <1>7, <1>9, KeepsOthers
<1>10. ASSUME i = 7, NEW v, gpr' = [gpr EXCEPT ![3] = v]
       PROVE  Keeps(Reg \ {0, 2, 3})
  BY <1>7, <1>10, KeepsOthers
<1>11. i = 7 => pc[3] \notin 8 .. 11
  BY <1>3
<1>12. QED  BY <1>6, <1>8, <1>9, <1>10, <1>11

(* Every step leaves alone what CallsAreTransparent says.                  *)
LEMMA TransparentStep ==
  ASSUME IInv, [Next]_vars
  PROVE  /\ pc[1] = "tramp" => Keeps(3 .. 2 + Params[pc[2]])
         /\ pc[1] = "tramp" /\ pc[3] \in 11 .. 15 => Keeps({3})
         /\ pc[1] = "asm" /\ pc[3] \in 8 .. 11 => Keeps({3})
         /\ pc[1] \in {"tramp", "asm"} => Keeps(13 .. 31)
<1>1. ASSUME NEW R, NEW S, Keeps(S), R \subseteq S
      PROVE  Keeps(R)
  BY <1>1 DEF Keeps
<1>2. CASE UNCHANGED vars
  BY <1>2 DEF vars, Keeps
<1>3. CASE pc[1] = "tramp" /\ Next
  <2>1. RunTrampoline
    BY <1>3 DEF Next, RunAssembly, Enter, CallByWord, CallByPreamble, PassOn, CallBack,
                Trigger, Triggered, Return, Resume
  <2>2. /\ Keeps(Reg \ {0, 2, 12, TocReg[pc[2]]})
        /\ pc[3] \in 11 .. 15 => Keeps(Reg \ {0, 2, 12})
    BY <2>1, TrampolineWrites
  <2>3. pc[2] \in Hook
    BY <1>3 DEF IInv
  <2>4. Params[pc[2]] \in 0 .. 7 /\ TocReg[pc[2]] = 3 + Params[pc[2]]
    BY <2>3, CallsAssumption
  <2>5. /\ 3 .. 2 + Params[pc[2]] \subseteq Reg \ {0, 2, 12, TocReg[pc[2]]}
        /\ 13 .. 31 \subseteq Reg \ {0, 2, 12, TocReg[pc[2]]}
        /\ {3} \subseteq Reg \ {0, 2, 12}
    BY <2>4 DEF Reg
  <2>6. QED  BY <1>1, <1>3, <2>2, <2>5
<1>4. CASE pc[1] = "asm" /\ Next
  <2>1. RunAssembly \/ Triggered
    BY <1>4 DEF Next, RunTrampoline, Enter, CallByWord, CallByPreamble, PassOn, CallBack,
                Trigger, Return, Resume
  <2>2. /\ {3} \subseteq Reg \ {0, 2}
        /\ 13 .. 31 \subseteq Reg \ {0, 2, 3}
    BY DEF Reg
  <2>3. CASE RunAssembly
    <3>1. Keeps(Reg \ {0, 2, 3}) /\ (pc[3] \in 8 .. 11 => Keeps(Reg \ {0, 2}))
      BY <2>3, AssemblyWrites
    <3>2. pc[3] \in 8 .. 11 => Keeps({3})
      BY <1>1, <2>2, <3>1
    <3>3. QED  BY <1>1, <1>4, <2>2, <3>1, <3>2
  <2>4. CASE Triggered
    <3>1. pc[3] = 12 /\ gpr' = Destroyed
      BY <2>4 DEF Triggered, CallGame
    <3>2. Keeps(13 .. 31)
      BY <3>1 DEF Keeps, Destroyed, Reg
    <3>3. QED  BY <1>4, <3>1, <3>2
  <2>5. QED  BY <2>1, <2>3, <2>4
<1>5. QED  BY <1>2, <1>3, <1>4

(* A trampoline hands on the arguments and the result, call_game_opd the   *)
(* result, and neither disturbs a register that calls preserve.            *)
THEOREM HandWrittenCodeIsTransparent == Spec => CallsAreTransparent
<1>1. IInv /\ [Next]_vars
      => [ /\ pc[1] = "tramp" => Keeps(3 .. 2 + Params[pc[2]])
           /\ pc[1] = "tramp" /\ pc[3] \in 11 .. 15 => Keeps({3})
           /\ pc[1] = "asm" /\ pc[3] \in 8 .. 11 => Keeps({3})
           /\ pc[1] \in {"tramp", "asm"} => Keeps(13 .. 31) ]_vars
  BY TransparentStep
<1>2. QED  BY <1>1, CallsAreOrderly, PTL DEF Spec, CallsAreTransparent

=============================================================================
