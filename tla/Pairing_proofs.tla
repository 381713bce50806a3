---------------------------- MODULE Pairing_proofs ---------------------------
(***************************************************************************)
(* Proofs about Pairing, for addresses of any length, any set of requests  *)
(* and whatever an earlier run has left in the file.                       *)
(***************************************************************************)
EXTENDS Pairing, TLAPS

(* An address all of whose bytes are the console's is the console's.       *)
LEMMA WholeAddress ==
  ASSUME NEW s, \/ s \in Mac
                \/ s \in Seq(Whose) /\ Len(s) = MacLen,
         \A k \in Byte : s[k] = Console
  PROVE  s = Of(Console)
<1>1. MacLen \in Nat
  BY PairingAssumption
<1>2. CASE s \in Mac
  BY <1>2 DEF Mac, Of
<1>3. CASE s \in Seq(Whose) /\ Len(s) = MacLen
  <2>1. s = [k \in 1 .. Len(s) |-> s[k]]
    BY <1>3
  <2>2. QED  BY <1>3, <2>1 DEF Of, Byte
<1>4. QED  BY <1>2, <1>3

LEMMA InvInit == Init => IInv
<1> SUFFICES ASSUME Init PROVE IInv
  OBVIOUS
<1> USE PairingAssumption DEF Init
<1>1. TypeOK
  <2>1. NoRequest \in Request
    BY DEF NoRequest, Request, ReportId
  <2>2. Of(Zero) \in Mac /\ Of(Deck) \in Mac
    BY DEF Of, Mac, Whose
  <2>3. line \in Seq(Whose) /\ Len(line) <= MacLen
    OBVIOUS
  <2>4. DataType
    BY <2>1, <2>2, <2>3 DEF DataType
  <2>5. FlagsType /\ PlacesType
    BY DEF FlagsType, PlacesType
  <2>6. QED  BY <2>4, <2>5 DEF TypeOK
<1>2. Copying
  BY DEF Copying, Of, Byte
<1>3. Stages
  BY DEF Stages, Ended
<1>4. SavedIsWhole /\ SuccessIsReported /\ Ep0IsServed /\ NothingLeft
      /\ FileIsUnmixed
  BY DEF SavedIsWhole, SuccessIsReported, Ep0IsServed, NothingLeft,
     FileIsUnmixed
<1>5. QED  BY <1>1, <1>2, <1>3, <1>4 DEF IInv

-----------------------------------------------------------------------------
(* Types: flags, places in the code, data.                                 *)

LEMMA FlagsStep == IInv /\ [Next]_vars => FlagsType'
<1> SUFFICES ASSUME FlagsType, [Next]_vars PROVE FlagsType'
  BY DEF IInv, TypeOK
<1> USE DEF FlagsType
<1>1. CASE SetupConfigfs \/ OpenEp0 \/ Bind \/ Return
  <2>1. CASE SetupConfigfs
    BY <2>1 DEF SetupConfigfs, shared, result
  <2>2. CASE OpenEp0
    BY <2>2 DEF OpenEp0, Exit, TeardownConfigfs, shared, result
  <2>3. CASE Bind
    BY <2>3 DEF Bind, Exit, TeardownConfigfs, shared, result
  <2>4. CASE Return
    BY <2>4 DEF Return, Exit, shared, result
  <2>5. QED  BY <1>1, <2>1, <2>2, <2>3, <2>4
<1>2. CASE StartThreads \/ JoinInput \/ JoinControl \/ WaitHandshake
  BY <1>2 DEF StartThreads, JoinInput, JoinControl, WaitHandshake, Goto, shared,
     kernel, result
<1>3. CASE WaitEnable \/ Cleanup \/ Signal
  BY <1>3 DEF WaitEnable, Cleanup, Signal, Goto, kernel, result
<1>4. CASE SaveOpen \/ SaveByte \/ SaveClose
  BY <1>4 DEF SaveOpen, SaveByte, SaveClose, shared, kernel
<1>5. CASE Close \/ Kill
  BY <1>5 DEF Close, TeardownConfigfs, Kill, shared, result
<1>6. CASE ControlLoop \/ Answer \/ SetReport \/ Flag
  <2>1. CASE ControlLoop \/ Answer
    BY <2>1 DEF ControlLoop, Answer, ControlGoes, result
  <2>2. CASE SetReport \/ Flag
    BY <2>2 DEF SetReport, Flag, ControlGoes, result
  <2>3. QED  BY <1>6, <2>1, <2>2
<1>7. ASSUME NEW e \in Event, ReadEvent(e) PROVE FlagsType'
  BY <1>7 DEF ReadEvent, ControlGoes, result
<1>8. CASE ReadData \/ CopyByte \/ Store
  BY <1>8 DEF ReadData, TakeData, CopyByte, Store, ControlGoes, result
<1>9. CASE InputStep
  BY <1>9 DEF InputStep, OpenEp1, InputLoop, WriteReport, InputGoes, shared,
     kernel, result
<1>10. CASE HostStep
  BY <1>10 DEF HostStep, HostSteps, Enumerate, Unplug, Suspend, Ask, shared,
     result
<1>11. CASE UNCHANGED vars
  BY <1>11 DEF vars, shared, kernel, result
<1>12. QED
  BY <1>1, <1>2, <1>3, <1>4, <1>5, <1>6, <1>7, <1>8, <1>9, <1>10, <1>11
     DEF Next, MainStep, ControlStep

LEMMA PlacesStep == IInv /\ [Next]_vars => PlacesType'
<1> SUFFICES ASSUME PlacesType, [Next]_vars PROVE PlacesType'
  BY DEF IInv, TypeOK
<1> USE DEF PlacesType
<1>1. CASE SetupConfigfs \/ OpenEp0 \/ Bind \/ Return
  BY <1>1 DEF SetupConfigfs, OpenEp0, Bind, Return, Exit, TeardownConfigfs, result
<1>2. CASE StartThreads \/ JoinInput \/ JoinControl \/ WaitHandshake
  BY <1>2 DEF StartThreads, JoinInput, JoinControl, WaitHandshake, Goto,
     kernel, result
<1>3. CASE WaitEnable \/ Cleanup \/ Signal
  BY <1>3 DEF WaitEnable, Cleanup, Signal, Goto, kernel, result
<1>4. CASE SaveOpen \/ SaveByte \/ SaveClose
  BY <1>4 DEF SaveOpen, SaveByte, SaveClose, kernel
<1>5. CASE Close \/ Kill
  BY <1>5 DEF Close, TeardownConfigfs, Kill, result
<1>6. CASE ControlLoop \/ Answer \/ SetReport \/ Flag
  BY <1>6 DEF ControlLoop, Answer, SetReport, Flag, ControlGoes, result
<1>7. ASSUME NEW e \in Event, ReadEvent(e) PROVE PlacesType'
  BY <1>7 DEF ReadEvent, ControlGoes, result
<1>8. CASE ReadData \/ CopyByte \/ Store
  BY <1>8 DEF ReadData, TakeData, CopyByte, Store, ControlGoes, result
<1>9. CASE InputStep
  BY <1>9 DEF InputStep, OpenEp1, InputLoop, WriteReport, InputGoes, kernel,
     result
<1>10. CASE HostStep
  BY <1>10 DEF HostStep, HostSteps, Enumerate, Unplug, Suspend, Ask, result
<1>11. CASE UNCHANGED vars
  BY <1>11 DEF vars, kernel, result
<1>12. QED
  BY <1>1, <1>2, <1>3, <1>4, <1>5, <1>6, <1>7, <1>8, <1>9, <1>10, <1>11
     DEF Next, MainStep, ControlStep

LEMMA DataStep == IInv /\ [Next]_vars => DataType'
<1> SUFFICES ASSUME DataType, [Next]_vars PROVE DataType'
  BY DEF IInv, TypeOK
<1> USE DEF DataType
<1>1. NoRequest \in Request
  BY DEF NoRequest, Request, ReportId
<1>2. ASSUME NEW e \in Event PROVE Queued(e) \subseteq Event
  BY <1>2 DEF Queued
<1>3. CASE SetupConfigfs \/ OpenEp0 \/ Bind \/ Return
  BY <1>3 DEF SetupConfigfs, OpenEp0, Bind, Return, Exit, TeardownConfigfs,
     shared, result
<1>4. CASE StartThreads \/ JoinInput \/ JoinControl \/ WaitHandshake
           \/ WaitEnable \/ Cleanup \/ Signal
  BY <1>4 DEF StartThreads, JoinInput, JoinControl, WaitHandshake, WaitEnable,
     Cleanup, Signal, Goto, shared, kernel, result
<1>5. CASE SaveOpen
  <2>1. <<>> \in Seq(Whose)
    OBVIOUS
  <2>2. QED  BY <1>5, <2>1 DEF SaveOpen, shared, kernel
<1>6. CASE SaveByte
  <2>1. Len(line) + 1 \in Byte
    BY <1>6, PairingAssumption DEF SaveByte, Byte
  <2>2. ps3mac[Len(line) + 1] \in Whose
    BY <2>1 DEF Mac
  <2>3. line' \in Seq(Whose) /\ Len(line') <= MacLen
    BY <1>6, <2>2, PairingAssumption DEF SaveByte
  <2>4. QED  BY <1>6, <2>3 DEF SaveByte, shared, kernel
<1>7. CASE SaveClose \/ Close \/ Kill
  BY <1>7 DEF SaveClose, Close, TeardownConfigfs, Kill, shared, kernel, result
<1>8. CASE ControlLoop \/ Answer \/ SetReport \/ Flag
  BY <1>1, <1>8 DEF ControlLoop, Answer, SetReport, Flag, ControlGoes, result
<1>9. ASSUME NEW e \in Event, ReadEvent(e) PROVE DataType'
  BY <1>1, <1>9 DEF ReadEvent, ControlGoes, result
<1>10. CASE ReadData
  BY <1>1, <1>10, PairingAssumption DEF ReadData, TakeData, ControlGoes, result
<1>11. CASE CopyByte
  <2>1. copied + 1 \in 0 .. MacLen
    BY <1>11, PairingAssumption DEF CopyByte
  <2>2. ps3mac' \in Mac
    BY <1>11 DEF CopyByte, Mac, Whose
  <2>3. QED  BY <1>11, <2>1, <2>2 DEF CopyByte, ControlGoes, result
<1>12. CASE Store
  <2>1. Of(Console) \in Mac /\ 0 \in 0 .. MacLen
    BY PairingAssumption DEF Of, Mac, Whose
  <2>2. QED  BY <1>12, <2>1 DEF Store, ControlGoes, result
<1>13. CASE InputStep
  BY <1>13 DEF InputStep, OpenEp1, InputLoop, WriteReport, InputGoes, shared,
     kernel, result
<1>14. CASE Enumerate \/ Unplug \/ Suspend
  BY <1>1, <1>2, <1>14 DEF Enumerate, Unplug, Suspend, Event, HostSteps, shared,
     result
<1>15. CASE Ask
  BY <1>2, <1>15, RequestsAssumption DEF Ask, Event, HostSteps, shared, result
<1>16. CASE UNCHANGED vars
  BY <1>16 DEF vars, shared, kernel, result
<1>17. QED
  BY <1>3, <1>4, <1>5, <1>6, <1>7, <1>8, <1>9, <1>10, <1>11, <1>12, <1>13,
     <1>14, <1>15, <1>16 DEF Next, MainStep, ControlStep, HostStep

-----------------------------------------------------------------------------
(* What the copy and the flags promise main.                               *)

LEMMA CopyingStep == IInv /\ [Next]_vars => Copying'
<1> SUFFICES ASSUME IInv, [Next]_vars PROVE Copying'
  OBVIOUS
<1>0. TypeOK /\ Copying
  BY DEF IInv
<1>1. CASE MainStep \/ Kill
  <2>1. UNCHANGED <<ps3mac, copied, valid, complete, f5>>
    BY <1>1 DEF MainStep, SetupConfigfs, OpenEp0, StartThreads, Bind, WaitEnable,
       WaitHandshake, SaveOpen, SaveByte, SaveClose, Cleanup, JoinInput,
       JoinControl, Close, Return, Exit, Goto, Kill, shared
  <2>2. control' = control \/ control' \in {"none", "gone", "check"}
    BY <1>1 DEF MainStep, SetupConfigfs, OpenEp0, StartThreads, Bind, WaitEnable,
       WaitHandshake, SaveOpen, SaveByte, SaveClose, Cleanup, JoinInput,
       JoinControl, Close, Return, Exit, Goto, Kill
  <2>3. QED  BY <1>0, <2>1, <2>2 DEF Copying
<1>2. CASE ControlLoop \/ Answer \/ SetReport
  BY <1>0, <1>2 DEF Copying, ControlLoop, Answer, SetReport, ControlGoes
<1>3. ASSUME NEW e \in Event, ReadEvent(e) PROVE Copying'
  BY <1>0, <1>3 DEF Copying, ReadEvent, ControlGoes
<1>4. CASE ReadData
  <2>1. \A k \in 1 .. copied' : ps3mac'[k] = Console
    BY <1>4 DEF ReadData, TakeData
  <2>2. QED
    BY <1>0, <1>4, <2>1 DEF Copying, ReadData, TakeData, ControlGoes
<1>5. CASE CopyByte
  <2>1. copied + 1 \in Byte
    BY <1>0, <1>5, PairingAssumption DEF CopyByte, TypeOK, DataType, Byte
  <2>2. \A k \in Byte :
          ps3mac'[k] = IF k = copied + 1 THEN Console ELSE ps3mac[k]
    BY <1>0, <1>5, <2>1 DEF CopyByte, TypeOK, DataType, Mac
  <2>3. \A k \in 1 .. copied' : ps3mac'[k] = Console
    BY <1>0, <1>5, <2>1, <2>2, PairingAssumption
       DEF CopyByte, Copying, TypeOK, DataType, Byte
  <2>4. valid => ps3mac' = ps3mac
    BY <1>0, <1>5, <2>1 DEF CopyByte, Copying, TypeOK, DataType, Mac, Of
  <2>5. QED
    BY <1>0, <1>5, <2>2, <2>3, <2>4 DEF Copying, CopyByte, ControlGoes
<1>6. CASE Store
  <2>1. ps3mac = Of(Console)
    BY <1>0, <1>6, WholeAddress DEF Store, Copying, TypeOK, DataType, Byte
  <2>2. QED
    BY <1>0, <1>6, <2>1 DEF Copying, Store, ControlGoes
<1>7. CASE Flag
  BY <1>0, <1>7 DEF Copying, Flag, ControlGoes
<1>8. CASE InputStep \/ HostStep \/ Signal \/ UNCHANGED vars
  BY <1>0, <1>8 DEF Copying, InputStep, OpenEp1, InputLoop, WriteReport,
     InputGoes, HostStep, HostSteps, Enumerate, Unplug, Suspend, Ask, Signal,
     Goto, vars, shared
<1>9. QED
  BY <1>1, <1>2, <1>3, <1>4, <1>5, <1>6, <1>7, <1>8 DEF Next, ControlStep

-----------------------------------------------------------------------------
(* What the stages of main promise.                                        *)

Promises ==
  /\ Stages /\ SavedIsWhole /\ SuccessIsReported /\ Ep0IsServed /\ NothingLeft
  /\ FileIsUnmixed

(* What the file may hold depends on the file and the address alone.       *)
LEMMA FileStays ==
  ASSUME FileIsUnmixed, UNCHANGED file,
         ps3mac = Of(Console) => ps3mac' = Of(Console)
  PROVE  FileIsUnmixed'
BY DEF FileIsUnmixed, Of

(* A return of main leaves only the exit code, the file and the mount to   *)
(* speak of.                                                               *)
LEMMA ExitPromises ==
  ASSUME Promises, ~Ended, main \notin {"format", "killed"},
         main' = "exited", ep0' = FALSE, bound' = FALSE,
         control' \in {"none", "gone"},
         UNCHANGED <<saved, complete, ps3mac, file, line>>,
         saved => code' = 0, code' = 0 => ps3mac = Of(Console),
         mounted' => code' = 1 /\ ~enabled'
  PROVE  Promises'
<1>1. Ended'
  BY DEF Ended
<1>2. Stages'
  BY <1>1 DEF Promises, Stages
<1>3. SavedIsWhole' /\ SuccessIsReported' /\ Ep0IsServed'
  BY DEF Promises, SavedIsWhole, SuccessIsReported, Ep0IsServed
<1>file. FileIsUnmixed'
  BY FileStays DEF Promises
<1>4. NothingLeft'
  BY DEF NothingLeft
<1>5. QED  BY <1>2, <1>3, <1>file, <1>4 DEF Promises

LEMMA ReturnPromises ==
  IInv /\ (((OpenEp0 \/ Bind) /\ main' = "exited") \/ Return)
    => Promises'
<1> SUFFICES ASSUME IInv, \/ OpenEp0 /\ main' = "exited"
                          \/ Bind /\ main' = "exited"
                          \/ Return
             PROVE  Promises'
  OBVIOUS
<1>0. bound \in BOOLEAN
  BY DEF IInv, TypeOK, FlagsType
<1>1. Promises /\ Stages /\ Copying
  BY DEF IInv, Promises
<1>2. CASE (OpenEp0 \/ Bind) /\ main' = "exited"
  <2>1. /\ main' = "exited" /\ ep0' = FALSE /\ bound' = FALSE /\ code' = 1
        /\ control' \in {"none", "gone"}
        /\ UNCHANGED <<saved, complete, ps3mac, file, line>>
    BY <1>2 DEF OpenEp0, Bind, TeardownConfigfs, Exit, shared
  <2>2. ~Ended /\ ~saved /\ main \notin {"format", "killed"}
    BY <1>1, <1>2 DEF OpenEp0, Bind, Ended, Stages
  <2>3. (saved => code' = 0) /\ (code' = 0 => ps3mac = Of(Console))
    BY <2>1, <2>2
  <2>4. ~enabled'
    BY <1>1, <1>2 DEF OpenEp0, Bind, Exit, shared, Stages
  <2>5. QED  BY <1>1, <2>1, <2>2, <2>3, <2>4, ExitPromises
<1>3. CASE Return
  <2>1. ~Ended /\ main \notin {"format", "killed"} /\ ~bound
    BY <1>1, <1>3 DEF Return, Ended, Stages
  <2>2. (saved => complete) /\ (complete => ps3mac = Of(Console))
    BY <1>1 DEF Stages, Copying
  <2>3. /\ main' = "exited" /\ ep0' = FALSE /\ bound' = FALSE
        /\ code' = IF complete THEN 0 ELSE 1
        /\ control' \in {"none", "gone"}
        /\ UNCHANGED <<saved, complete, ps3mac, file, line>>
    BY <1>0, <1>3, <2>1 DEF Return, Exit, shared
  <2>4. (saved => code' = 0) /\ (code' = 0 => ps3mac = Of(Console))
    BY <2>2, <2>3
  <2>5. ~mounted'
    BY <1>1, <1>3 DEF Return, Promises, NothingLeft
  <2>6. QED  BY <1>1, <2>1, <2>3, <2>4, <2>5, ExitPromises
<1>4. QED  BY <1>2, <1>3

LEMMA MainPromises == IInv /\ MainStep => Promises'
<1> SUFFICES ASSUME IInv, MainStep PROVE Promises'
  OBVIOUS
<1>1. TypeOK /\ Copying /\ Promises
  BY DEF IInv, Promises
<1>2. CASE ((OpenEp0 \/ Bind) /\ main' = "exited") \/ Return
  BY <1>2, ReturnPromises
<1>file. MainStep /\ ~SaveOpen /\ ~SaveClose => FileIsUnmixed'
  <2>1. MainStep /\ ~SaveOpen /\ ~SaveClose => UNCHANGED <<file, ps3mac>>
    BY DEF MainStep, SetupConfigfs, OpenEp0, StartThreads, Bind, WaitEnable,
       WaitHandshake, SaveByte, Cleanup, JoinInput, JoinControl, Close, Return,
       Exit, Goto, shared, result
  <2>2. QED  BY <1>1, <2>1, FileStays DEF Promises
<1> USE DEF TypeOK, FlagsType, PlacesType, DataType, Promises, Stages,
            SavedIsWhole, SuccessIsReported, Ep0IsServed, NothingLeft, Ended
<1>3. CASE SetupConfigfs
  <2>1. /\ main = "setup" /\ main' = "open"
        /\ UNCHANGED <<control, ep0, bound, running, saved, complete, line, file,
                       ps3mac, enabled, events, host>>
    BY <1>3 DEF SetupConfigfs, shared, result
  <2>2. QED  BY <1>file, <1>1, <1>3, <2>1 DEF SetupConfigfs, SaveOpen, SaveClose
<1>4. CASE OpenEp0 /\ main' # "exited"
  <2>1. /\ main = "open" /\ main' = "start" /\ ep0'
        /\ UNCHANGED <<control, bound, running, saved, complete, line, file,
                       ps3mac, enabled, events, host>>
    BY <1>4 DEF OpenEp0, Exit, shared, result
  <2>2. control = "none" /\ ~bound /\ ~saved
    BY <1>1, <2>1
  <2>3. QED  BY <1>file, <1>1, <1>4, <2>1, <2>2 DEF OpenEp0, SaveOpen, SaveClose
<1>5. CASE StartThreads
  BY <1>file, <1>1, <1>5 DEF StartThreads, SaveOpen, SaveClose, shared, kernel,
     result
<1>6. CASE Bind /\ main' # "exited"
  <2>1. /\ main = "bind" /\ main' = "enumerate" /\ bound'
        /\ UNCHANGED <<control, ep0, running, saved, complete, line, file,
                       ps3mac>>
    BY <1>6 DEF Bind, Exit, shared, result
  <2>2. ep0 /\ control \notin {"none", "gone"} /\ ~saved
    BY <1>1, <2>1
  <2>3. QED  BY <1>file, <1>1, <1>6, <2>1, <2>2 DEF Bind, SaveOpen, SaveClose
<1>7. CASE WaitEnable \/ WaitHandshake \/ Cleanup
  BY <1>file, <1>1, <1>7 DEF WaitEnable, WaitHandshake, Cleanup, SaveOpen, SaveClose,
     Goto, kernel, result
<1>8. CASE SaveOpen
  <2>1. FileIsUnmixed'
    <3>1. ps3mac' = Of(Console) /\ (file' = file \/ file' = <<>>)
      BY <1>1, <1>8 DEF SaveOpen, Copying, shared
    <3>2. <<>> = [k \in 1 .. 0 |-> Console] /\ 0 \in 0 .. MacLen
      BY PairingAssumption
    <3>3. file' = file => FileIsUnmixed'
      BY <1>1, <3>1 DEF FileIsUnmixed
    <3>4. QED  BY <3>1, <3>2, <3>3 DEF FileIsUnmixed
  <2>2. QED  BY <1>1, <1>8, <2>1 DEF SaveOpen, shared, kernel
<1>9. CASE SaveByte
  <2>1. ps3mac[Len(line) + 1] = Console
    <3>1. Len(line) + 1 \in Byte
      BY <1>1, <1>9, PairingAssumption DEF SaveByte, Byte
    <3>2. ps3mac = Of(Console)
      BY <1>1, <1>9 DEF SaveByte, Copying
    <3>3. QED  BY <3>1, <3>2 DEF Of
  <2>2. \A k \in 1 .. Len(line') : line'[k] = Console
    BY <1>1, <1>9, <2>1 DEF SaveByte
  <2>3. QED
    BY <1>file, <1>1, <1>9, <2>2 DEF SaveByte, SaveOpen, SaveClose, shared, kernel
<1>10. CASE SaveClose
  <2>1. line = Of(Console)
    BY <1>1, <1>10, WholeAddress, PairingAssumption DEF SaveClose, Byte
  <2>2. PICK n \in 0 .. MacLen : file' = SubSeq(line, 1, n) /\ saved' = (n = MacLen)
    BY <1>10 DEF SaveClose
  <2>3. file' = [k \in 1 .. n |-> Console]
    BY <1>1, <1>10, <2>2, PairingAssumption DEF SaveClose
  <2>4. ps3mac' = Of(Console)
    BY <1>1, <1>10 DEF SaveClose, Copying, shared
  <2>5. FileIsUnmixed'
    BY <2>3, <2>4 DEF FileIsUnmixed
  <2>6. saved' => file' = Of(Console)
    BY <2>2, <2>3 DEF Of, Byte
  <2>7. QED  BY <1>1, <1>10, <2>5, <2>6 DEF SaveClose, shared, kernel
<1>11. CASE JoinInput \/ JoinControl
  BY <1>file, <1>1, <1>11 DEF JoinInput, JoinControl, SaveOpen, SaveClose, Goto,
     kernel, result
<1>12. CASE Close
  <2>1. /\ main = "close" /\ main' = "return"
        /\ ~ep0' /\ ~mounted' /\ ~bound'
        /\ UNCHANGED <<control, running, saved, complete, line, file, code,
                       ps3mac>>
    BY <1>12 DEF Close, TeardownConfigfs, shared, result
  <2>2. QED  BY <1>file, <1>1, <1>12, <2>1 DEF Close, SaveOpen, SaveClose
<1>13. QED
  BY <1>2, <1>3, <1>4, <1>5, <1>6, <1>7, <1>8, <1>9, <1>10, <1>11, <1>12
     DEF MainStep

LEMMA ControlPromises == IInv /\ ControlStep => Promises'
<1> SUFFICES ASSUME IInv, ControlStep PROVE Promises'
  OBVIOUS
<1>0. TypeOK /\ Copying /\ Promises
  BY DEF IInv, Promises
<1>1. /\ control \in {"check", "read", "setup", "data", "copy", "flag"}
      /\ control' \in {"check", "read", "setup", "data", "copy", "flag", "done"}
      /\ control' = "done" => ~running
      /\ complete => complete'
      /\ UNCHANGED <<main, running, ep0, bound, line, saved, file, code>>
  BY DEF ControlStep, ControlLoop, ReadEvent, Answer, SetReport, ReadData,
     TakeData, CopyByte, Store, Flag, ControlGoes, result
<1>2. ~Ended
  BY <1>0, <1>1 DEF Promises, Stages
<1>3. main \notin {"setup", "open", "start", "close", "return", "exited", "killed"}
  BY <1>0, <1>1, <1>2 DEF Promises, Stages, Ended
<1>quiet. main = "bind" => ~enabled' /\ events' = {} /\ host' = "away"
  <2>1. main = "bind" => ~enabled /\ events = {} /\ host = "away"
    BY <1>0 DEF Promises, Stages
  <2>2. (\E e \in Event : ReadEvent(e)) => events # {}
    BY DEF ReadEvent
  <2>3. UNCHANGED <<enabled, events, host>> \/ (\E e \in Event : ReadEvent(e))
    BY DEF ControlStep, ControlLoop, Answer, SetReport, ReadData, TakeData,
       CopyByte, Store, Flag, ControlGoes
  <2>4. QED  BY <2>1, <2>2, <2>3
<1>4. Stages' /\ Ep0IsServed'
  BY <1>0, <1>1, <1>3, <1>quiet
     DEF Promises, Stages, Ep0IsServed, Ended, TypeOK, PlacesType
<1>5. SavedIsWhole' /\ SuccessIsReported' /\ NothingLeft'
  BY <1>0, <1>1, <1>3 DEF Promises, SavedIsWhole, SuccessIsReported, NothingLeft
<1>6. ps3mac = Of(Console) => ps3mac' = Of(Console)
  <2>1. CASE CopyByte
    <3>1. copied + 1 \in Byte
      BY <1>0, <2>1, PairingAssumption DEF CopyByte, TypeOK, DataType, Byte
    <3>2. QED  BY <2>1, <3>1 DEF CopyByte, Of
  <2>2. CASE ~CopyByte
    BY <2>2 DEF ControlStep, ControlLoop, ReadEvent, Answer, SetReport, ReadData,
       TakeData, Store, Flag
  <2>3. QED  BY <2>1, <2>2
<1>7. FileIsUnmixed'
  BY <1>0, <1>1, <1>6, FileStays DEF Promises
<1>8. QED  BY <1>4, <1>5, <1>7 DEF Promises

LEMMA OtherPromises ==
  IInv /\ (InputStep \/ HostStep \/ Signal \/ Kill \/ UNCHANGED vars) => Promises'
<1> SUFFICES ASSUME IInv,
                    InputStep \/ HostStep \/ Signal \/ Kill \/ UNCHANGED vars
             PROVE  Promises'
  OBVIOUS
<1>0. TypeOK /\ Promises
  BY DEF IInv, Promises
<1>file. FileIsUnmixed'
  <2>1. UNCHANGED <<file, ps3mac>>
    BY DEF InputStep, OpenEp1, InputLoop, WriteReport, InputGoes, HostStep,
       HostSteps, Enumerate, Unplug, Suspend, Ask, Signal, Goto, Kill, vars,
       shared, kernel, result
  <2>2. QED  BY <1>0, <2>1, FileStays DEF Promises
<1> USE <1>file DEF Promises, Stages, SavedIsWhole, SuccessIsReported, Ep0IsServed,
                 NothingLeft, Ended
<1>1. CASE InputStep
  BY <1>0, <1>1 DEF InputStep, OpenEp1, InputLoop, WriteReport, InputGoes,
     shared, kernel, result
<1>2. CASE HostStep
  BY <1>0, <1>2 DEF HostStep, HostSteps, Enumerate, Unplug, Suspend, Ask,
     shared, result
<1>3. CASE Signal
  BY <1>0, <1>3 DEF Signal, Goto, kernel, result
<1>4. CASE Kill
  BY <1>0, <1>4 DEF Kill, shared, result
<1>5. CASE UNCHANGED vars
  BY <1>0, <1>5 DEF vars, shared, kernel, result
<1>6. QED  BY <1>1, <1>2, <1>3, <1>4, <1>5

LEMMA InvStep == IInv /\ [Next]_vars => IInv'
<1> SUFFICES ASSUME IInv, [Next]_vars PROVE IInv'
  OBVIOUS
<1>1. TypeOK'
  BY FlagsStep, PlacesStep, DataStep DEF TypeOK
<1>2. Copying'
  BY CopyingStep
<1>3. Promises'
  BY MainPromises, ControlPromises, OtherPromises DEF Next
<1>4. QED  BY <1>1, <1>2, <1>3 DEF IInv, Promises

(* The inductive invariant: the flags follow the copy of the address, main *)
(* reads only after the flags, and each stage of the daemon leaves what it *)
(* should (ds3-pair-daemon.c:380-592).                                     *)
THEOREM PairingIsOrderly == Spec => []IInv
BY InvInit, InvStep, PTL DEF Spec

(* save_pairing never formats a half-copied g_ps3_mac: a file that all of  *)
(* its writing reached holds the console's whole address.                  *)
THEOREM SavedAddressIsWhole == Spec => []SavedIsWhole
<1>1. IInv => SavedIsWhole
  BY DEF IInv
<1>2. QED  BY <1>1, PairingIsOrderly, PTL

(* The file holds what was there before until the whole address was heard, *)
(* and then nothing but first bytes of that address, whether or not        *)
(* fprintf and fclose succeed.                                             *)
THEOREM FileStaysUnmixed == Spec => []FileIsUnmixed
<1>1. IInv => FileIsUnmixed
  BY DEF IInv
<1>2. QED  BY <1>1, PairingIsOrderly, PTL

(* Exit code 0 follows whenever the file was written, and means at least   *)
(* that the console's address was received.                                *)
THEOREM SuccessStaysReported == Spec => []SuccessIsReported
<1>1. IInv => SuccessIsReported
  BY DEF IInv
<1>2. QED  BY <1>1, PairingIsOrderly, PTL

(* ep0 is open as long as a thread may use it; the gadget is bound after   *)
(* the control thread was started, and served until g_running is cleared.  *)
THEOREM Ep0StaysServed == Spec => []Ep0IsServed
<1>1. IInv => Ep0IsServed
  BY DEF IInv
<1>2. QED  BY <1>1, PairingIsOrderly, PTL

(* close before teardown_configfs: a run that was bound unmounts FunctionFS*)
(* before it returns; what a failed bind leaves mounted comes with exit    *)
(* code 1.                                                                 *)
THEOREM NothingStaysMounted == Spec => []NothingLeft
<1>1. IInv => NothingLeft
  BY DEF IInv
<1>2. QED  BY <1>1, PairingIsOrderly, PTL

-----------------------------------------------------------------------------
(* What is left to do.  Main passes each of its stages once and, once      *)
(* g_running is cleared, all threads together take a bounded number of     *)
(* steps: the half of Ends that needs no fairness.                         *)

(* Main passes its stages in order; it formats MacLen bytes at most once.  *)
StageLeft ==
  IF main = "setup"        THEN 13 ELSE
  IF main = "open"         THEN 12 ELSE
  IF main = "start"        THEN 11 ELSE
  IF main = "bind"         THEN 10 ELSE
  IF main = "enumerate"    THEN 9  ELSE
  IF main = "handshake"    THEN 8  ELSE
  IF main = "open_file"    THEN 7  ELSE
  IF main = "format"       THEN 6  ELSE
  IF main = "cleanup"      THEN 5  ELSE
  IF main = "join_input"   THEN 4  ELSE
  IF main = "join_control" THEN 3  ELSE
  IF main = "close"        THEN 2  ELSE
  IF main = "return"       THEN 1  ELSE 0

MainLeft == StageLeft + (MacLen - Len(line))

(* What is left of the request at hand, and the last look at g_running.    *)
ControlLeft ==
  IF control = "read"  THEN 6 + MacLen ELSE
  IF control = "setup" THEN 5 + MacLen ELSE
  IF control = "data"  THEN 4 + MacLen ELSE
  IF control = "copy"  THEN 3 + (MacLen - copied) ELSE
  IF control = "flag"  THEN 2 ELSE
  IF control \in {"check", "none"} THEN 1 ELSE 0

InputLeft ==
  IF input \in {"open", "none"} THEN 3 ELSE
  IF input = "write" THEN 2 ELSE
  IF input = "check" THEN 1 ELSE 0

ThreadsLeft == MainLeft + ControlLeft + InputLeft

(* The input thread is created and ends with the control thread.           *)
Together ==
  /\ input = "none" <=> control = "none"
  /\ input = "gone" <=> control = "gone"

LEMMA TogetherInit == Init => Together
BY DEF Init, Together

LEMMA TogetherStep == IInv /\ Together /\ [Next]_vars => Together'
<1> SUFFICES ASSUME IInv, Together, [Next]_vars PROVE Together'
  OBVIOUS
<1> USE DEF Together
<1>1. CASE MainStep
  <2>1. CASE StartThreads
    BY <2>1 DEF StartThreads
  <2>2. CASE OpenEp0 \/ Bind \/ Return
    <3>1. UNCHANGED <<control, input>> \/ Exit(0) \/ Exit(1)
      BY <2>2 DEF OpenEp0, Bind, Return
    <3>2. QED  BY <3>1 DEF Exit
  <2>3. UNCHANGED <<control, input>> \/ StartThreads \/ OpenEp0 \/ Bind \/ Return
    BY <1>1 DEF MainStep, SetupConfigfs, WaitEnable, WaitHandshake, SaveOpen, SaveByte,
                SaveClose, Cleanup, JoinInput, JoinControl, Close, Goto
  <2>4. QED  BY <2>1, <2>2, <2>3
<1>2. CASE ControlStep
  <2>1. input' = input /\ control' \notin {"none", "gone"}
        /\ control \notin {"none", "gone"}
    BY <1>2 DEF ControlStep, ControlLoop, ReadEvent, Answer, SetReport, ReadData,
                TakeData, CopyByte, Store, Flag, ControlGoes
  <2>2. QED  BY <2>1
<1>3. CASE InputStep
  <2>1. control' = control /\ input' \notin {"none", "gone"}
        /\ input \notin {"none", "gone"}
    BY <1>3 DEF InputStep, OpenEp1, InputLoop, WriteReport, InputGoes
  <2>2. QED  BY <2>1
<1>4. CASE HostStep
  BY <1>4 DEF HostStep, Enumerate, Ask, Suspend, Unplug, HostSteps
<1>5. CASE Signal \/ Kill \/ UNCHANGED vars
  BY <1>5 DEF Signal, Goto, Kill, vars
<1>6. QED  BY <1>1, <1>2, <1>3, <1>4, <1>5 DEF Next

(* A thread that main waits for was started.                               *)
LEMMA JoinsAThread ==
  IInv /\ Together =>
    /\ main = "join_input" => input \notin {"none", "gone"}
    /\ main = "join_control" => control \notin {"none", "gone"}
BY DEF IInv, Stages, Ended, Together

LEMMA LeftRange ==
  IInv => /\ MainLeft \in 0 .. 13 + MacLen /\ ControlLeft \in 0 .. 6 + MacLen
          /\ InputLeft \in 0 .. 3
<1> SUFFICES ASSUME IInv
             PROVE  /\ MainLeft \in 0 .. 13 + MacLen
                    /\ ControlLeft \in 0 .. 6 + MacLen
                    /\ InputLeft \in 0 .. 3
  OBVIOUS
<1>1. MacLen \in Nat /\ copied \in 0 .. MacLen
      /\ Len(line) \in Nat /\ Len(line) <= MacLen
  BY PairingAssumption DEF IInv, TypeOK, DataType
<1>2. StageLeft \in 0 .. 13
  BY DEF StageLeft
<1>3. MainLeft \in 0 .. 13 + MacLen
  BY <1>1, <1>2 DEF MainLeft
<1>4. ControlLeft \in 0 .. 6 + MacLen
  BY <1>1 DEF ControlLeft
<1>5. QED  BY <1>3, <1>4 DEF InputLeft

(* Each step of main leads to a later stage or formats a byte, and leaves  *)
(* the other threads where they are, starts them or ends them.             *)
LEMMA MainLess ==
  ASSUME IInv, MainStep, Together
  PROVE  /\ MainLeft' < MainLeft
         /\ ControlLeft' <= ControlLeft /\ InputLeft' <= InputLeft
<1>0. MacLen \in Nat /\ Len(line) \in Nat /\ Len(line) <= MacLen
      /\ line \in Seq(Whose)
  BY PairingAssumption DEF IInv, TypeOK, DataType
<1>1. CASE SaveByte
  <2>1. main = "format" /\ main' = "format"
        /\ line' = Append(line, ps3mac[Len(line) + 1])
    BY <1>1 DEF SaveByte
  <2>2. Len(line') = Len(line) + 1
    BY <1>0, <2>1
  <2>3. MainLeft' < MainLeft
    BY <1>0, <2>1, <2>2 DEF MainLeft, StageLeft
  <2>4. UNCHANGED <<control, input, copied>>
    BY <1>1 DEF SaveByte
  <2>5. QED  BY <2>3, <2>4, LeftRange DEF ControlLeft, InputLeft
<1>2. CASE ~SaveByte
  <2>1. line' = line
    BY <1>2 DEF MainStep, SetupConfigfs, OpenEp0, StartThreads, Bind, WaitEnable,
       WaitHandshake, SaveOpen, SaveClose, Cleanup, JoinInput, JoinControl, Close,
       Return, Exit, Goto, result
  <2>2. \/ main = "setup" /\ main' = "open"
        \/ main = "open" /\ main' \in {"start", "exited"}
        \/ main = "start" /\ main' = "bind"
        \/ main = "bind" /\ main' \in {"enumerate", "exited"}
        \/ main = "enumerate" /\ main' \in {"handshake", "join_input"}
        \/ main = "handshake" /\ main' \in {"open_file", "cleanup"}
        \/ main = "open_file" /\ main' \in {"format", "cleanup"}
        \/ main = "format" /\ main' = "cleanup"
        \/ main = "cleanup" /\ main' = "join_input"
        \/ main = "join_input" /\ main' = "join_control"
        \/ main = "join_control" /\ main' = "close"
        \/ main = "close" /\ main' = "return"
        \/ main = "return" /\ main' = "exited"
    <3>1. CASE SetupConfigfs \/ OpenEp0 \/ StartThreads \/ Bind
      BY <3>1 DEF SetupConfigfs, OpenEp0, StartThreads, Bind, Exit
    <3>2. CASE WaitEnable \/ WaitHandshake \/ SaveOpen \/ SaveClose
      BY <3>2 DEF WaitEnable, WaitHandshake, SaveOpen, SaveClose, Goto
    <3>3. CASE Cleanup \/ JoinInput \/ JoinControl \/ Close \/ Return
      BY <3>3 DEF Cleanup, JoinInput, JoinControl, Close, Return, Exit, Goto
    <3>4. QED  BY <1>2, <3>1, <3>2, <3>3 DEF MainStep
  <2>3. MainLeft' < MainLeft
    <3>1. StageLeft' < StageLeft /\ StageLeft \in 0 .. 13 /\ StageLeft' \in 0 .. 13
      BY <2>2 DEF StageLeft
    <3>2. QED  BY <1>0, <2>1, <3>1 DEF MainLeft
  <2>4. \/ UNCHANGED <<control, input, copied>>
        \/ main = "start" /\ control' = "check" /\ input' = "open"
        \/ control' \in {"gone", control} /\ input' \in {"gone", input}
            /\ copied' = copied
    BY <1>2 DEF MainStep, SetupConfigfs, OpenEp0, StartThreads, Bind, WaitEnable,
       WaitHandshake, SaveOpen, SaveClose, Cleanup, JoinInput, JoinControl, Close,
       Return, Exit, Goto
  <2>5. main = "start" => control = "none" /\ input = "none"
    BY DEF IInv, Stages, Together
  <2>6. ControlLeft' <= ControlLeft /\ InputLeft' <= InputLeft
    BY <2>4, <2>5, LeftRange, PairingAssumption DEF ControlLeft, InputLeft
  <2>7. QED  BY <2>3, <2>6
<1>3. QED  BY <1>1, <1>2

(* Each step of the control thread brings it nearer to its next look at    *)
(* g_running, which is its last.                                           *)
LEMMA ControlLess ==
  ASSUME IInv, ControlStep, ~running
  PROVE  /\ ControlLeft' < ControlLeft
         /\ UNCHANGED <<main, line, input, running>>
<1>0. MacLen \in Nat /\ copied \in 0 .. MacLen
  BY PairingAssumption DEF IInv, TypeOK, DataType
<1>1. UNCHANGED <<main, line, input, running>>
  BY DEF ControlStep, ControlLoop, ReadEvent, Answer, SetReport, ReadData, TakeData,
         CopyByte, Store, Flag, ControlGoes, result
<1>2. CASE CopyByte
  <2>1. control = "copy" /\ control' = "copy" /\ copied' = copied + 1
        /\ copied < MacLen
    BY <1>2 DEF CopyByte, ControlGoes
  <2>2. QED  BY <1>0, <1>1, <2>1 DEF ControlLeft
<1>3. CASE ReadData
  <2>1. control = "data" /\ control' \in {"copy", "check"} /\ copied' = 0
    BY <1>3 DEF ReadData, TakeData, ControlGoes
  <2>2. QED  BY <1>0, <1>1, <2>1 DEF ControlLeft
<1>4. CASE ~CopyByte /\ ~ReadData
  <2>1. \/ control = "check" /\ control' = "done"
        \/ control = "read" /\ control' \in {"setup", "check"}
        \/ control = "setup" /\ control' \in {"data", "check"}
        \/ control = "copy" /\ control' = "flag"
        \/ control = "flag" /\ control' = "check"
    BY <1>4 DEF ControlStep, ControlLoop, ReadEvent, Answer, SetReport, Store, Flag,
                ControlGoes
  <2>2. QED  BY <1>0, <1>1, <2>1 DEF ControlLeft
<1>5. QED  BY <1>2, <1>3, <1>4

LEMMA InputLess ==
  ASSUME InputStep, ~running
  PROVE  /\ InputLeft' < InputLeft
         /\ UNCHANGED <<main, line, control, copied, running>>
BY DEF InputStep, OpenEp1, InputLoop, WriteReport, InputGoes, InputLeft, shared,
       result

(* The console, the cable and the user give nobody more to do.             *)
LEMMA OthersLess ==
  ASSUME IInv, HostStep \/ Signal \/ Kill \/ UNCHANGED vars
  PROVE  /\ MainLeft' <= MainLeft /\ ControlLeft' <= ControlLeft
         /\ InputLeft' <= InputLeft
         /\ ~running => ~running'
<1>1. UNCHANGED <<line, copied>> /\ (~running => ~running')
  BY DEF HostStep, HostSteps, Enumerate, Ask, Suspend, Unplug, Signal, Goto, Kill,
         vars, shared, result
<1>2. /\ UNCHANGED <<main, control>> \/ (main' = "killed" /\ control' = "gone")
      /\ input' \in {input, "gone"} \/ (input = "write" /\ input' = "check")
  <2>1. CASE HostStep
    BY <2>1 DEF HostStep, HostSteps, Enumerate, Ask, Suspend, Unplug
  <2>2. CASE Signal
    BY <2>2 DEF Signal, Goto
  <2>3. CASE Kill
    BY <2>3 DEF Kill
  <2>4. CASE UNCHANGED vars
    BY <2>4 DEF vars
  <2>5. QED  BY <2>1, <2>2, <2>3, <2>4
<1>4. MainLeft' <= MainLeft
  <2>1. MacLen \in Nat /\ Len(line) \in Nat /\ Len(line) <= MacLen
    BY PairingAssumption DEF IInv, TypeOK, DataType
  <2>2. StageLeft' <= StageLeft /\ StageLeft \in 0 .. 13 /\ StageLeft' \in 0 .. 13
    BY <1>2 DEF StageLeft
  <2>3. QED  BY <1>1, <2>1, <2>2 DEF MainLeft
<1>5. ControlLeft' <= ControlLeft
  BY <1>1, <1>2, LeftRange, PairingAssumption DEF ControlLeft
<1>6. InputLeft' <= InputLeft
  BY <1>2 DEF InputLeft
<1>7. QED  BY <1>1, <1>4, <1>5, <1>6

(* Each step of a thread leaves less, once g_running is cleared.           *)
LEMMA LeftLess ==
  ASSUME IInv, Together, [Next]_vars
  PROVE  /\ MainStep => MainLeft' < MainLeft
         /\ MainLeft' <= MainLeft
         /\ ~running =>
              /\ ~running'
              /\ ThreadsLeft' <= ThreadsLeft
              /\ MainStep \/ ControlStep \/ InputStep => ThreadsLeft' < ThreadsLeft
<1> DEFINE m == MainLeft    c == ControlLeft    n == InputLeft
           m2 == MainLeft'  c2 == ControlLeft'  n2 == InputLeft'
<1>1. /\ m \in Nat /\ c \in Nat /\ n \in Nat
      /\ m2 \in Nat /\ c2 \in Nat /\ n2 \in Nat
  <2>1. IInv'
    BY InvStep
  <2>2. MacLen \in Nat
    BY PairingAssumption
  <2>3. ( /\ MainLeft \in 0 .. 13 + MacLen /\ ControlLeft \in 0 .. 6 + MacLen
          /\ InputLeft \in 0 .. 3 )'
    BY <2>1, LeftRange, PTL
  <2>4. QED  BY <2>2, <2>3, LeftRange
<1>2. ThreadsLeft = m + c + n /\ ThreadsLeft' = m2 + c2 + n2
  BY DEF ThreadsLeft
<1>3. MainStep => m2 < m /\ c2 <= c /\ n2 <= n /\ (~running => ~running')
  <2>1. MainStep => (~running => ~running')
    BY DEF MainStep, SetupConfigfs, OpenEp0, StartThreads, Bind, WaitEnable,
       WaitHandshake, SaveOpen, SaveByte, SaveClose, Cleanup, JoinInput,
       JoinControl, Close, Return, Exit, Goto, shared
  <2>2. QED  BY <2>1, MainLess
<1>4. ControlStep => /\ m2 = m /\ n2 = n
                     /\ ~running => c2 < c /\ ~running'
  <2>1. ControlStep => UNCHANGED <<main, line, input>>
    BY DEF ControlStep, ControlLoop, ReadEvent, Answer, SetReport, ReadData,
           TakeData, CopyByte, Store, Flag, ControlGoes, result
  <2>2. QED  BY <2>1, ControlLess DEF MainLeft, StageLeft, InputLeft
<1>5. InputStep => /\ m2 = m /\ c2 = c
                   /\ ~running => n2 < n /\ ~running'
  <2>1. InputStep => UNCHANGED <<main, line, control, copied>>
    BY DEF InputStep, OpenEp1, InputLoop, WriteReport, InputGoes, result
  <2>2. QED  BY <2>1, InputLess DEF MainLeft, StageLeft, ControlLeft
<1>6. HostStep \/ Signal \/ Kill \/ UNCHANGED vars =>
        m2 <= m /\ c2 <= c /\ n2 <= n /\ (~running => ~running')
  BY OthersLess
<1> HIDE DEF m, c, n, m2, c2, n2
<1>7. /\ MainStep => m2 < m
      /\ m2 <= m
      /\ ~running =>
           /\ ~running'
           /\ m2 + c2 + n2 <= m + c + n
           /\ MainStep \/ ControlStep \/ InputStep => m2 + c2 + n2 < m + c + n
  <2>1. CASE MainStep
    BY <1>1, <1>3, <2>1
  <2>2. CASE ControlStep /\ ~MainStep
    BY <1>1, <1>4, <2>2
  <2>3. CASE InputStep /\ ~MainStep
    BY <1>1, <1>5, <2>3
  <2>4. CASE ~MainStep /\ ~ControlStep /\ ~InputStep
    BY <1>1, <1>6, <2>4 DEF Next
  <2>5. QED  BY <2>1, <2>2, <2>3, <2>4
<1>8. QED  BY <1>2, <1>7 DEF m, m2

(* Main never goes back to a stage it has left, and it waits only for      *)
(* threads that were started; once g_running is cleared, by a signal or by *)
(* main, the three threads have at most 22 + 2 * MacLen steps left, which  *)
(* no request, cable or signal makes more (ds3-pair-daemon.c:555-592).     *)
THEOREM StoppingIsBounded ==
  Spec => /\ []( /\ ThreadsLeft \in 0 .. 22 + 2 * MacLen
                 /\ main = "join_input" => input \notin {"none", "gone"}
                 /\ main = "join_control" => control \notin {"none", "gone"} )
          /\ [][ /\ MainStep => MainLeft' < MainLeft
                 /\ MainLeft' <= MainLeft
                 /\ ~running =>
                      /\ ~running'
                      /\ ThreadsLeft' <= ThreadsLeft
                      /\ MainStep \/ ControlStep \/ InputStep =>
                           ThreadsLeft' < ThreadsLeft ]_vars
<1>1. Spec => []Together
  BY TogetherInit, TogetherStep, PairingIsOrderly, PTL DEF Spec
<1>2. IInv => ThreadsLeft \in 0 .. 22 + 2 * MacLen
  <2> SUFFICES ASSUME IInv PROVE ThreadsLeft \in 0 .. 22 + 2 * MacLen
    OBVIOUS
  <2> DEFINE m == MainLeft   c == ControlLeft   n == InputLeft
  <2>1. m \in 0 .. 13 + MacLen /\ c \in 0 .. 6 + MacLen /\ n \in 0 .. 3
    BY LeftRange
  <2>2. ThreadsLeft = m + c + n /\ MacLen \in Nat
    BY PairingAssumption DEF ThreadsLeft
  <2> HIDE DEF m, c, n
  <2>3. QED  BY <2>1, <2>2
<1>3. IInv /\ Together /\ [Next]_vars =>
        [ /\ MainStep => MainLeft' < MainLeft
          /\ MainLeft' <= MainLeft
          /\ ~running =>
               /\ ~running'
               /\ ThreadsLeft' <= ThreadsLeft
               /\ MainStep \/ ControlStep \/ InputStep =>
                    ThreadsLeft' < ThreadsLeft ]_vars
  BY LeftLess
<1>4. QED  BY PTL, PairingIsOrderly, JoinsAThread, <1>1, <1>2, <1>3 DEF Spec

=============================================================================
