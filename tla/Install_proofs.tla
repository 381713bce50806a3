---------------------------- MODULE Install_proofs ---------------------------
(***************************************************************************)
(* Proofs about Install, for any number of hooks, words, pages, rounds and *)
(* starts of the game.                                                     *)
(***************************************************************************)
EXTENDS Install, Integers, TLAPS

(* The report is at most 507 characters long.                              *)
LEMMA ReportIsShort ==
  ASSUME NEW d \in Digits, NEW o \in Digits
  PROVE  ReportLength(d, o) \in Nat /\ ReportLength(d, o) < BufLen
<1>1. d \in 1 .. 8 /\ o \in 1 .. 8
  BY InstallAssumption
<1>2. QED  BY <1>1 DEF ReportLength, Line, BufLen

(* What the proofs need of the constants.                                  *)
LEMMA Numbers ==
  /\ NHooks \in Nat /\ NHooks > 0 /\ NPreambles \in Nat /\ Words \in Nat
  /\ MaxPage \in Nat /\ MaxTries \in Nat /\ MaxWaits \in Nat
  /\ \A w \in 1 .. Words : Target[w] \in 0 .. NHooks
BY InstallAssumption

LEMMA FilesAreNotNoFile ==
  ASSUME NEW p \in Page, NEW b \in BOOLEAN
  PROVE  [page |-> p, whole |-> b] # NoFile
<1>1. [page |-> p, whole |-> b] \in [page : Page, whole : BOOLEAN]
  OBVIOUS
<1>2. NoFile \notin [page : Page, whole : BOOLEAN]
  BY InstallAssumption
<1>3. QED  BY <1>1, <1>2

(* The pages built are numbers of pages, and so is the one the file names. *)
LEMMA BuiltPages ==
  ASSUME StateType
  PROVE  /\ \A p \in built : p \in Page /\ p \in Nat /\ p # NoPage /\ p <= pages
         /\ pages \in Nat /\ page \in Nat
<1>1. pages \in Nat /\ pages <= MaxPage /\ MaxPage \in Nat
  BY Numbers DEF StateType
<1>2. ASSUME NEW p \in built
      PROVE  p \in Page /\ p \in Nat /\ p # NoPage /\ p <= pages
  <2>1. p \in 1 .. pages
    BY <1>2 DEF StateType
  <2>2. QED  BY <1>1, <2>1 DEF Page, NoPage
<1>3. page \in Nat
  BY <1>1 DEF StateType
<1>4. QED  BY <1>1, <1>2, <1>3

LEMMA InvInit == Init => IInv
<1> SUFFICES ASSUME Init PROVE IInv
  OBVIOUS
<1> USE Numbers DEF Init
<1>1. TypeOK
  <2>1. StateType
    BY DEF StateType, NoPage, FirstTry
  <2>2. PlaceType
    BY DEF PlaceType
  <2>3. DataType
    BY DEF DataType, NoPage
  <2>4. QED  BY <2>1, <2>2, <2>3 DEF TypeOK
<1>2. Stages /\ FileIsKnown /\ ReadIsKnown
  BY DEF Stages, FileIsKnown, ReadIsKnown, Known, NoPage
<1>3. CallsFindHooks /\ ReadyMeansReady /\ ReportFits
  BY DEF CallsFindHooks, ReadyMeansReady, ReportFits, BufLen
<1>4. QED  BY <1>1, <1>2, <1>3 DEF IInv

-----------------------------------------------------------------------------
(* Types.                                                                  *)

LEMMA StateStep == IInv /\ [Next]_vars => StateType'
<1> SUFFICES ASSUME StateType, Stages, [Next]_vars PROVE StateType'
  BY DEF IInv, TypeOK
<1> USE Numbers DEF StateType, process, image, disk, injector, NoPage, Goto, FirstTry
<1>1. CASE Search
  BY <1>1 DEF Search
<1>2. CASE Allocate
  BY <1>2 DEF Allocate
<1>3. CASE Stub
  BY <1>3 DEF Stub
<1>4. CASE Opd
  <2>1. page \in 1 .. pages
    BY <1>4 DEF Opd, Stages, Own
  <2>2. opds' \in 0 .. NHooks /\ built' \subseteq built \union {page}
        /\ UNCHANGED <<games, pages, base, page, stubs, at, pos, tries, pid, waits,
                       next>>
    BY <1>4 DEF Opd
  <2>3. QED  BY <2>1, <2>2
<1>5. CASE OpenProbe
  BY <1>5 DEF OpenProbe
<1>6. CASE Patch
  BY <1>6 DEF Patch
<1>7. CASE Patched
  BY <1>7 DEF Patched
<1>8. CASE OpenTmp
  BY <1>8, ReportIsShort DEF OpenTmp
<1>9. CASE WriteTmp
  BY <1>9 DEF WriteTmp
<1>10. CASE CloseTmp
  BY <1>10 DEF CloseTmp
<1>11. CASE RenameTmp
  BY <1>11 DEF RenameTmp
<1>12. CASE LoadLibusbd
  BY <1>12 DEF LoadLibusbd
<1>13. CASE GameExit
  BY <1>13 DEF GameExit, NoImage
<1>14. CASE Begin
  BY <1>14 DEF Begin, Moves
<1>15. CASE Unload
  BY <1>15 DEF Unload, NoImage, Moves
<1>16. CASE Load
  <2>1. UNCHANGED <<games, pages, base, built, page, stubs, opds, at, pos, tries>>
    BY <1>16 DEF Load, Moves, Ends
  <2>2. pid' \in Nat /\ waits' \in Nat /\ next' \in Nat \ {0}
    BY <1>16 DEF Load, Moves, Ends
  <2>3. QED  BY <2>1, <2>2
<1>17. CASE Await
  <2>1. UNCHANGED <<games, pages, base, built, page, stubs, opds, at, pos, tries>>
    BY <1>17 DEF Await, Moves, Ends
  <2>2. pid' \in Nat /\ waits' \in Nat /\ next' \in Nat \ {0}
    BY <1>17 DEF Await, Moves, Ends
  <2>3. QED  BY <2>1, <2>2
<1>18. CASE SmartProbe
  <2>1. UNCHANGED <<games, pages, base, built, page, stubs, opds, at, pos, tries>>
    BY <1>18 DEF SmartProbe, Moves, Ends
  <2>2. pid' \in Nat /\ waits' \in Nat /\ next' \in Nat \ {0}
    BY <1>18 DEF SmartProbe, Moves, Ends
  <2>3. QED  BY <2>1, <2>2
<1>19. CASE WritePreamble
  BY <1>19 DEF WritePreamble
<1>20. CASE Finish
  BY <1>20 DEF Finish, Moves, Ends
<1>21. ASSUME NEW w \in 1 .. Words, Resolve(w) PROVE StateType'
  BY <1>21 DEF Resolve
<1>22. CASE UNCHANGED vars
  BY <1>22 DEF vars
<1>23. QED
  BY <1>1, <1>2, <1>3, <1>4, <1>5, <1>6, <1>7, <1>8, <1>9, <1>10, <1>11, <1>12, <1>13, <1>14, <1>15, <1>16, <1>17, <1>18, <1>19, <1>20, <1>21, <1>22
     DEF Next, InitStep, GameStep, InjectorStep

LEMMA PlaceStep == IInv /\ [Next]_vars => PlaceType'
<1> SUFFICES ASSUME PlaceType, [Next]_vars PROVE PlaceType'
  BY DEF IInv, TypeOK
<1> USE DEF PlaceType, process, image, disk, injector, Goto
<1>1. CASE Search \/ Allocate \/ OpenProbe \/ Patched \/ CloseTmp \/ RenameTmp
  BY <1>1 DEF Search, Allocate, OpenProbe, Patched, CloseTmp, RenameTmp
<1>2. CASE Stub \/ Opd \/ Patch \/ OpenTmp \/ WriteTmp
  BY <1>2 DEF Stub, Opd, Patch, OpenTmp, WriteTmp
<1>3. CASE LoadLibusbd \/ GameExit \/ \E w \in 1 .. Words : Resolve(w)
  BY <1>3 DEF LoadLibusbd, GameExit, Resolve, NoImage
<1>4. CASE InjectorStep \/ Begin
  BY <1>4 DEF InjectorStep, Begin, Unload, Load, Await, SmartProbe,
     WritePreamble, Finish, Ends, Moves, NoImage
<1>5. CASE UNCHANGED vars
  BY <1>5 DEF vars
<1>6. QED
  BY <1>1, <1>2, <1>3, <1>4, <1>5 DEF Next, InitStep, GameStep

LEMMA DataStep == IInv /\ [Next]_vars => DataType'
<1> SUFFICES ASSUME StateType, DataType, Stages, [Next]_vars PROVE DataType'
  BY DEF IInv, TypeOK
<1> USE DEF DataType, process, image, disk, injector, Goto
<1>0. page # NoPage => page \in Page
  BY Numbers DEF StateType, Stages, Own, Page, NoPage
<1>1. CASE Search \/ Allocate \/ OpenProbe \/ CloseTmp \/ RenameTmp \/ Stub \/ Opd
  BY <1>1 DEF Search, Allocate, OpenProbe, CloseTmp, RenameTmp, Stub, Opd
<1>2. CASE Patch
  <2>1. page \in Page
    BY <1>0, <1>2 DEF Patch, Stages
  <2>2. CASE UNCHANGED <<word, found>>
    BY <1>2, <2>2 DEF Patch
  <2>3. CASE ~UNCHANGED <<word, found>>
    <3>1. /\ at \in 1 .. Words /\ Target[at] \in Hook /\ found[Target[at]] < 2
          /\ word' = [word EXCEPT ![at] = page]
          /\ found' = [found EXCEPT ![Target[at]] = @ + 1]
          /\ UNCHANGED <<preamble, tmp, ready, got>>
      BY <1>2, <2>3, Numbers DEF Patch, Hook, StateType
    <3>2. word' \in [1 .. Words -> {Unresolved, Libusbd} \union Page]
      BY <2>1, <3>1
    <3>3. found' \in [Hook -> 0 .. 2]
      BY <3>1
    <3>4. QED  BY <3>1, <3>2, <3>3
  <2>4. QED  BY <2>2, <2>3
<1>3. CASE Patched
  BY <1>3 DEF Patched
<1>4. CASE OpenTmp
  <2>1. page \in Page
    BY <1>0, <1>4 DEF OpenTmp, Stages
  <2>2. tmp' \in {tmp, [page |-> page, whole |-> FALSE]}
        /\ UNCHANGED <<word, preamble, found, ready, got>>
    BY <1>4 DEF OpenTmp
  <2>3. [page |-> page, whole |-> FALSE] \in File
    BY <2>1 DEF File
  <2>4. QED  BY <2>2, <2>3
<1>5. CASE WriteTmp
  <2>1. page \in Page /\ tmp = [page |-> page, whole |-> FALSE]
    BY <1>0, <1>5 DEF WriteTmp, Stages
  <2>2. tmp' \in {tmp, [page |-> page, whole |-> TRUE]}
        /\ UNCHANGED <<word, preamble, found, ready, got>>
    BY <1>5, <2>1 DEF WriteTmp
  <2>3. [page |-> page, whole |-> TRUE] \in File
    BY <2>1 DEF File
  <2>4. QED  BY <2>2, <2>3
<1>6. CASE LoadLibusbd \/ \E w \in 1 .. Words : Resolve(w)
  BY <1>6 DEF LoadLibusbd, Resolve
<1>7. CASE GameExit
  BY <1>7 DEF GameExit, NoImage
<1>8. CASE Begin \/ Unload \/ Load \/ SmartProbe \/ Finish
  BY <1>8 DEF Begin, Unload, Load, SmartProbe, Finish, Ends, Moves, NoImage
<1>9. CASE Await
  BY <1>9 DEF Await, Ends, Moves, Named, File
<1>10. CASE WritePreamble
  BY <1>10 DEF WritePreamble
<1>11. CASE UNCHANGED vars
  BY <1>11 DEF vars
<1>12. QED
  BY <1>1, <1>2, <1>3, <1>4, <1>5, <1>6, <1>7, <1>8, <1>9, <1>10, <1>11
     DEF Next, InitStep, GameStep, InjectorStep

-----------------------------------------------------------------------------
(* What each stage has behind it.                                          *)

LEMMA StagesStep == IInv /\ [Next]_vars => Stages'
<1> SUFFICES ASSUME StateType, Stages, [Next]_vars PROVE Stages'
  BY DEF IInv, TypeOK
<1> USE Numbers DEF Stages, process, image, disk, injector, Goto
<1>1. CASE Search \/ OpenProbe \/ CloseTmp \/ RenameTmp \/ Stub
  BY <1>1 DEF Search, OpenProbe, CloseTmp, RenameTmp, Stub, Own
<1>2. CASE Allocate
  <2>1. \/ stage' = "failed" /\ UNCHANGED <<base, pages, built, page, tmp>>
        \/ /\ stage' = "stubs" /\ pages' = pages + 1 /\ page' = pages + 1
           /\ UNCHANGED <<base, built, tmp>>
    BY <1>2 DEF Allocate
  <2>2. page = NoPage /\ built \subseteq 1 .. pages /\ base \in 0 .. pages
        /\ pages \in Nat
    BY <1>2 DEF Allocate, StateType
  <2>3. QED  BY <2>1, <2>2 DEF Own, NoPage
<1>3. CASE Opd
  BY <1>3 DEF Opd, Own
<1>4. CASE Patch
  BY <1>4 DEF Patch, Own
<1>5. CASE Patched
  BY <1>5 DEF Patched, Own
<1>6. CASE OpenTmp
  BY <1>6 DEF OpenTmp, Own
<1>7. CASE WriteTmp
  BY <1>7 DEF WriteTmp, Own
<1>8. CASE LoadLibusbd \/ \E w \in 1 .. Words : Resolve(w)
  BY <1>8 DEF LoadLibusbd, Resolve, Own
<1>9. CASE GameExit
  BY <1>9 DEF GameExit, NoImage
<1>10. CASE Begin \/ Await \/ SmartProbe \/ WritePreamble \/ Finish
  <2>1. UNCHANGED <<stage, page, base, pages, built, tmp>>
    BY <1>10 DEF Begin, Await, SmartProbe, WritePreamble, Finish, Ends, Moves
  <2>2. QED  BY <2>1 DEF Own
<1>11. CASE Unload
  BY <1>11 DEF Unload, Moves, NoImage, Own
<1>12. CASE Load
  <2>1. UNCHANGED <<page, base, pages, built, tmp>>
    BY <1>12 DEF Load, Ends, Moves
  <2>2. stage' = stage \/ (stage = "none" /\ stage' = "search")
    BY <1>12 DEF Load, Ends, Moves
  <2>3. QED  BY <2>1, <2>2 DEF Own
<1>13. CASE UNCHANGED vars
  BY <1>13 DEF vars, Own
<1>14. QED
  BY <1>1, <1>2, <1>3, <1>4, <1>5, <1>6, <1>7, <1>8, <1>9, <1>10, <1>11, <1>12,
     <1>13 DEF Next, InitStep, GameStep, InjectorStep

(* What the file names.                                                    *)
LEMMA FileStep == IInv /\ [Next]_vars => FileIsKnown'
<1> SUFFICES ASSUME StateType, Stages, FileIsKnown, [Next]_vars
             PROVE  FileIsKnown'
  BY DEF IInv, TypeOK
<1> USE DEF process, image, disk, injector, Goto
<1>a. page \in Nat /\ pages \in Nat
  BY BuiltPages
<1>0. ready # NoFile => ready.page \in Nat /\ ready.page <= pages
  BY BuiltPages DEF FileIsKnown
<1>1. CASE /\ UNCHANGED <<ready, page>> /\ built \subseteq built'
           /\ stage' = stage \/ stage # "running" \/ page = NoPage
  BY <1>1 DEF FileIsKnown
<1>2. CASE page' = NoPage /\ UNCHANGED <<ready, built>>
  BY <1>2 DEF FileIsKnown
<1>3. CASE Allocate
  <2>1. CASE stage' = "failed"
    BY <1>1, <1>3, <2>1 DEF Allocate
  <2>2. CASE stage' # "failed"
    <3>1. page' = pages + 1 /\ UNCHANGED <<ready, built>>
      BY <1>3, <2>2 DEF Allocate
    <3>2. ready # NoFile => ready.page <= page' /\ ready.page # page'
      BY <1>a, <1>0, <3>1
    <3>3. QED  BY <3>1, <3>2 DEF FileIsKnown
  <2>3. QED  BY <2>1, <2>2
<1>4. CASE RenameTmp
  <2>1. CASE UNCHANGED disk
    BY <1>1, <1>4, <2>1 DEF RenameTmp
  <2>2. CASE ready' = tmp
    <3>1. stage = "rename" /\ stage' = "running" /\ UNCHANGED <<built, page>>
      BY <1>4 DEF RenameTmp
    <3>2. page \in built /\ tmp = [page |-> page, whole |-> TRUE]
      BY <3>1 DEF Stages
    <3>3. ready'.page = page /\ ready'.whole /\ page <= page
      BY <1>a, <2>2, <3>2
    <3>4. QED  BY <3>1, <3>2, <3>3 DEF FileIsKnown
  <2>3. QED  BY <1>4, <2>1, <2>2 DEF RenameTmp
<1>5. CASE Search \/ OpenProbe \/ CloseTmp \/ Stub \/ Patched \/ Patch \/ Opd
  BY <1>1, <1>5 DEF Search, OpenProbe, CloseTmp, Stub, Patched, Patch, Opd
<1>6. CASE OpenTmp \/ WriteTmp
  BY <1>1, <1>6 DEF OpenTmp, WriteTmp
<1>7. CASE LoadLibusbd \/ \E w \in 1 .. Words : Resolve(w)
  BY <1>1, <1>7 DEF LoadLibusbd, Resolve
<1>8. CASE GameExit
  BY <1>2, <1>8 DEF GameExit, NoImage
<1>9. CASE Begin \/ SmartProbe \/ WritePreamble \/ Finish \/ Await
  BY <1>1, <1>9 DEF Begin, SmartProbe, WritePreamble, Finish, Await, Ends, Moves
<1>10. CASE Unload
  BY <1>1, <1>2, <1>10 DEF Unload, Moves, NoImage
<1>11. CASE Load
  <2>1. UNCHANGED <<ready, page, built>>
    BY <1>11 DEF Load, Ends, Moves
  <2>2. stage' = stage \/ stage = "none"
    BY <1>11 DEF Load, Ends, Moves
  <2>3. QED  BY <1>1, <2>1, <2>2
<1>12. CASE UNCHANGED vars
  BY <1>1, <1>12 DEF vars
<1>13. QED
  BY <1>3, <1>4, <1>5, <1>6, <1>7, <1>8, <1>9, <1>10, <1>11, <1>12
     DEF Next, InitStep, GameStep, InjectorStep

(* A page that is known stays known: the file only moves on.               *)
LEMMA KnownStep ==
  ASSUME IInv, [Next]_vars, NEW p, Known(p)
  PROVE  Known(p)'
<1> SUFFICES ASSUME p # NoPage PROVE ready' # NoFile /\ p \in built' /\ p <= ready'.page
  BY DEF Known
<1> USE DEF process, image, disk, injector, Goto
<1>1. ready # NoFile /\ p \in built /\ p <= ready.page
  BY DEF Known
<1>2. CASE RenameTmp /\ ready' = tmp
  <2>0. stage = "rename" /\ built' = built
    BY <1>2 DEF RenameTmp
  <2>1. tmp = [page |-> page, whole |-> TRUE] /\ page \in built /\ built' = built
    BY <2>0 DEF IInv, Stages
  <2>2. page \in Page /\ page # NoPage
    BY <2>1, BuiltPages DEF IInv, TypeOK
  <2>3. ready' # NoFile
    BY <1>2, <2>1, <2>2, FilesAreNotNoFile
  <2>4. ready.page <= page /\ p \in Nat /\ ready.page \in Nat /\ page \in Nat
    BY <1>1, <2>2, BuiltPages DEF IInv, TypeOK, FileIsKnown
  <2>5. ready'.page = page
    BY <1>2, <2>1
  <2>6. p <= ready'.page
    BY <1>1, <2>4, <2>5
  <2>7. QED  BY <1>1, <2>1, <2>3, <2>6
<1>3. CASE ready' = ready /\ built \subseteq built'
  BY <1>1, <1>3
<1>4. (ready' = ready /\ built \subseteq built') \/ (RenameTmp /\ ready' = tmp)
  <2>1. CASE InitStep
    BY <2>1 DEF InitStep, Search, Allocate, Stub, Opd, OpenProbe, Patch, Patched,
                OpenTmp, WriteTmp, CloseTmp, RenameTmp
  <2>2. CASE InjectorStep \/ Begin
    BY <2>2 DEF InjectorStep, Begin, Unload, Load, Await, SmartProbe, WritePreamble,
                Finish, Ends, Moves
  <2>3. CASE GameStep
    BY <2>3 DEF GameStep, LoadLibusbd, Resolve, GameExit
  <2>4. CASE UNCHANGED vars
    BY <2>4 DEF vars
  <2>5. QED  BY <2>1, <2>2, <2>3, <2>4 DEF Next
<1>5. QED  BY <1>2, <1>3, <1>4

(* What the injector has read of the file, and what it has installed.      *)
LEMMA ReadStep == IInv /\ [Next]_vars => ReadIsKnown'
<1> SUFFICES ASSUME IInv, [Next]_vars PROVE ReadIsKnown'
  OBVIOUS
<1>1. ASSUME NEW p, Known(p) PROVE Known(p)'
  BY <1>1, KnownStep
<1>2. \A p : Known(p) => Known(p)'
  BY <1>1
<1>3. /\ got' \in {got, NoPage} \/ (ready # NoFile /\ got' = Named(ready))
      /\ inj' \in {"probe", "write"} =>
           \/ inj \in {"probe", "write"} /\ got' = got
           \/ ready # NoFile /\ got' = Named(ready)
      /\ preamble' \in {preamble, [preamble EXCEPT ![next] = got],
                        [h \in Preamble |-> NoPage]}
  <2> USE DEF process, image, disk, injector, Goto
  <2>1. CASE InitStep
    BY <2>1 DEF InitStep, Search, Allocate, Stub, Opd, OpenProbe, Patch, Patched,
                OpenTmp, WriteTmp, CloseTmp, RenameTmp
  <2>2. CASE Begin \/ Unload \/ Load \/ SmartProbe \/ WritePreamble \/ Finish
    BY <2>2 DEF Begin, Unload, Load, SmartProbe, WritePreamble, Finish, Ends, Moves
  <2>3. CASE Await
    BY <2>3 DEF Await, Ends, Moves
  <2>4. CASE GameStep \/ UNCHANGED vars
    BY <2>4 DEF GameStep, LoadLibusbd, Resolve, GameExit, vars
  <2>5. QED  BY <2>1, <2>2, <2>3, <2>4 DEF Next, InjectorStep
<1>4. ready # NoFile => Known(Named(ready)) /\ Named(ready) # NoPage
  <2> SUFFICES ASSUME ready # NoFile
               PROVE  Known(Named(ready)) /\ Named(ready) # NoPage
    OBVIOUS
  <2>1. Named(ready) = ready.page /\ ready.page \in built
    BY DEF IInv, FileIsKnown, Named
  <2>2. ready.page \in Nat /\ ready.page # NoPage
    BY <2>1, BuiltPages DEF IInv, TypeOK
  <2>3. ready.page <= ready.page
    BY <2>2
  <2>4. QED  BY <2>1, <2>2, <2>3 DEF Known
<1>5. inj' \in {"probe", "write"} => got' # NoPage
  BY <1>3, <1>4 DEF IInv, ReadIsKnown
<1>6. Known(got)
  BY DEF IInv, ReadIsKnown
<1>7. \A p : Known(p)' <=> (p # NoPage => ready' # NoFile /\ p \in built' /\ p <= ready'.page)
  BY DEF Known
<1>8. got' # NoPage => ready' # NoFile /\ got' \in built' /\ got' <= ready'.page
  BY <1>2, <1>3, <1>4, <1>6, <1>7
<1>9. ASSUME NEW h \in Preamble, preamble'[h] # NoPage
      PROVE  ready' # NoFile /\ preamble'[h] \in built' /\ preamble'[h] <= ready'.page
  <2>1. preamble'[h] \in {preamble[h], got, NoPage}
    BY <1>3 DEF IInv, TypeOK, DataType
  <2>2. Known(preamble[h])
    BY DEF IInv, ReadIsKnown
  <2>3. QED  BY <1>2, <1>6, <1>7, <1>9, <2>1, <2>2
<1>10. QED  BY <1>5, <1>8, <1>9 DEF ReadIsKnown, Known

-----------------------------------------------------------------------------
(* The game's words, the ready file and the report.                        *)

LEMMA CallsStep == IInv /\ [Next]_vars => CallsFindHooks'
<1> SUFFICES ASSUME StateType, DataType, Stages, CallsFindHooks, [Next]_vars
             PROVE  CallsFindHooks'
  BY DEF IInv, TypeOK
<1> USE DEF process, image, disk, injector, Goto
<1>1. CASE /\ UNCHANGED <<word, base>> /\ built \subseteq built'
           /\ pages' \in Nat /\ pages <= pages'
  <2>1. built \intersect Own \subseteq built' \intersect Own'
    BY <1>1 DEF Own, StateType
  <2>2. QED  BY <1>1, <2>1 DEF CallsFindHooks
<1>2. CASE Patch
  <2>1. page \in built \intersect Own
    BY <1>2, Numbers DEF Patch, Stages, StateType, NoPage
  <2>2. word' \in {word, [word EXCEPT ![at] = page]}
        /\ UNCHANGED <<built, base, pages>>
    BY <1>2 DEF Patch
  <2>3. Own' = Own
    BY <2>2 DEF Own
  <2>4. \A w \in 1 .. Words : word'[w] \in {word[w], page}
    BY <2>2 DEF DataType
  <2>5. QED  BY <2>1, <2>2, <2>3, <2>4 DEF CallsFindHooks
<1>3. ASSUME NEW w \in 1 .. Words, Resolve(w) PROVE CallsFindHooks'
  <2>1. word' = [word EXCEPT ![w] = Libusbd] /\ UNCHANGED <<built, base, pages>>
    BY <1>3 DEF Resolve
  <2>2. Own' = Own
    BY <2>1 DEF Own
  <2>3. \A v \in 1 .. Words : word'[v] \in {word[v], Libusbd}
    BY <2>1 DEF DataType
  <2>4. QED  BY <2>1, <2>2, <2>3 DEF CallsFindHooks
<1>4. CASE GameExit
  BY <1>4 DEF GameExit, CallsFindHooks
<1>5. pages \in Nat /\ pages <= pages /\ pages <= pages + 1
  BY Numbers DEF StateType
<1>6. CASE Allocate \/ Opd
  BY <1>1, <1>5, <1>6 DEF Allocate, Opd
<1>7. CASE Search \/ Stub \/ OpenProbe \/ Patched \/ CloseTmp \/ RenameTmp
  BY <1>1, <1>5, <1>7 DEF Search, Stub, OpenProbe, Patched, CloseTmp, RenameTmp
<1>8. CASE OpenTmp \/ WriteTmp \/ LoadLibusbd
  BY <1>1, <1>5, <1>8 DEF OpenTmp, WriteTmp, LoadLibusbd
<1>9. CASE InjectorStep \/ Begin
  BY <1>1, <1>5, <1>9 DEF InjectorStep, Begin, Unload, Load, Await, SmartProbe,
     WritePreamble, Finish, Ends, Moves
<1>10. CASE UNCHANGED vars
  BY <1>1, <1>5, <1>10 DEF vars
<1>11. QED
  BY <1>2, <1>3, <1>4, <1>6, <1>7, <1>8, <1>9, <1>10 DEF Next, InitStep, GameStep

LEMMA FitsStep == IInv /\ [Next]_vars => ReportFits'
<1> SUFFICES ASSUME ReportFits, [Next]_vars PROVE ReportFits'
  BY DEF IInv
<1> USE DEF process, image, disk, injector, Goto, ReportFits
<1>1. 0 < BufLen
  BY DEF BufLen
<1>2. CASE OpenTmp
  BY <1>2, ReportIsShort DEF OpenTmp
<1>3. pos' \in {pos, 0} \/ OpenTmp
  <2>1. CASE InitStep
    BY <2>1 DEF InitStep, Search, Allocate, Stub, Opd, OpenProbe, Patch, Patched,
                WriteTmp, CloseTmp, RenameTmp
  <2>2. CASE InjectorStep \/ Begin
    BY <2>2 DEF InjectorStep, Begin, Unload, Load, Await, SmartProbe, WritePreamble,
                Finish, Ends, Moves, NoImage
  <2>3. CASE GameStep
    BY <2>3 DEF GameStep, LoadLibusbd, Resolve, GameExit, NoImage
  <2>4. CASE UNCHANGED vars
    BY <2>4 DEF vars
  <2>5. QED  BY <2>1, <2>2, <2>3, <2>4 DEF Next
<1>4. QED  BY <1>1, <1>2, <1>3

LEMMA InvStep == IInv /\ [Next]_vars => IInv'
<1> SUFFICES ASSUME IInv, [Next]_vars PROVE IInv'
  OBVIOUS
<1>1. StateType' /\ PlaceType' /\ DataType' /\ Stages' /\ FileIsKnown' /\ ReadIsKnown'
  BY StateStep, PlaceStep, DataStep, StagesStep, FileStep, ReadStep
<1>2. CallsFindHooks' /\ ReportFits'
  BY CallsStep, FitsStep
<1>3. ReadyMeansReady'
  <2>1. ready' # NoFile => ready'.page # NoPage
    BY <1>1, Numbers DEF FileIsKnown, StateType, NoPage
  <2>2. QED  BY <1>1, <2>1 DEF FileIsKnown, ReadyMeansReady
<1>4. QED  BY <1>1, <1>2, <1>3 DEF IInv, TypeOK

(* What each stage of usb_hook_init has behind it, and what the file and   *)
(* the injector know of it, holds of every reachable state.                *)
THEOREM InstallIsOrderly == Spec => []IInv
BY InvInit, InvStep, PTL DEF Spec

(* A word of the game that was redirected (usb_hooks.c:1347) leads to a    *)
(* complete page of the process that runs, whenever the game follows it.   *)
THEOREM RedirectedCallsFindHooks == Spec => []CallsFindHooks
<1>1. IInv => CallsFindHooks
  BY DEF IInv
<1>2. QED  BY <1>1, InstallIsOrderly, PTL

(* The file that names the running plugin's page appears after the last    *)
(* redirected word (usb_hooks.c:488).                                      *)
THEOREM ReadyComesLast == Spec => []ReadyMeansReady
<1>1. IInv => ReadyMeansReady
  BY DEF IInv
<1>2. QED  BY <1>1, InstallIsOrderly, PTL

(* The report fits its 512 bytes whatever the numbers in it               *)
(* (usb_hooks.c:350).                                                      *)
THEOREM ReportAlwaysFits == Spec => []ReportFits
<1>1. IInv => ReportFits
  BY DEF IInv
<1>2. QED  BY <1>1, InstallIsOrderly, PTL

-----------------------------------------------------------------------------
(* The refinement.                                                         *)

PublishedPage == IF ready = NoFile THEN NoPage ELSE Named(ready)
Installed     == {preamble[h] : h \in Preamble} \ {NoPage}

LEMMA RefinedInit == Init => Published!Init
BY DEF Init, Published!Init, NoPage

LEMMA RefinedStep == IInv /\ [Next]_vars => [Published!Next]_(Published!vars)
<1> SUFFICES ASSUME IInv, [Next]_vars
             PROVE  Published!Next \/ UNCHANGED <<built, PublishedPage, Installed>>
  BY DEF Published!vars, PublishedPage, Installed
<1> USE DEF process, image, disk, injector, Goto
<1>1. CASE UNCHANGED <<built, ready, preamble>>
  BY <1>1 DEF PublishedPage, Installed, Named
<1>2. CASE Opd /\ built' # built
  <2>1. page \in Page /\ page \notin built /\ built' = built \union {page}
    BY <1>2, Numbers DEF Opd, IInv, TypeOK, StateType, Stages, Own, Page, NoPage
  <2>2. UNCHANGED <<PublishedPage, Installed>>
    BY <1>2 DEF Opd, PublishedPage, Installed, Named
  <2>3. Published!Build
    BY <2>1, <2>2 DEF Published!Build, PublishedPage, Installed
  <2>4. QED  BY <2>3 DEF Published!Next
<1>3. CASE RenameTmp /\ ready' = tmp
  <2>1. /\ tmp = [page |-> page, whole |-> TRUE] /\ page \in built
        /\ stage = "rename" /\ UNCHANGED <<built, preamble>>
    BY <1>3 DEF RenameTmp, IInv, Stages
  <2>2. page \in Page /\ page # NoPage /\ page \in Nat
    BY <2>1, BuiltPages DEF IInv, TypeOK
  <2>3. ready' # NoFile
    BY <1>3, <2>1, <2>2, FilesAreNotNoFile
  <2>4. PublishedPage' = page
    BY <1>3, <2>1, <2>3 DEF PublishedPage, Named
  <2>5. ready # NoFile =>
          ready.whole /\ ready.page \in Nat /\ ready.page <= page /\ ready.page # page
    BY <2>1, <2>2, BuiltPages DEF IInv, TypeOK, FileIsKnown
  <2>6. PublishedPage # NoPage => page > PublishedPage
    BY <2>5, <2>2 DEF PublishedPage, Named
  <2>7. Installed' = Installed
    BY <2>1 DEF Installed
  <2>8. Published!Publish
    BY <2>1, <2>4, <2>6, <2>7 DEF Published!Publish, PublishedPage, Installed
  <2>9. QED  BY <2>8 DEF Published!Next
<1>4. CASE WritePreamble /\ preamble' = [preamble EXCEPT ![next] = got]
  <2>1. UNCHANGED <<built, ready>> /\ inj = "write"
    BY <1>4 DEF WritePreamble
  <2>2. ready # NoFile /\ ready.whole /\ got \in built /\ got <= ready.page
    BY <2>1 DEF IInv, ReadIsKnown, FileIsKnown, Known
  <2>3. PublishedPage = ready.page /\ PublishedPage' = PublishedPage
    BY <2>1, <2>2 DEF PublishedPage, Named
  <2>4. PublishedPage # NoPage
    BY <2>2, <2>3, Numbers DEF IInv, TypeOK, StateType, FileIsKnown, NoPage
  <2>5. Installed' \subseteq Installed \union {got}
    BY <1>4 DEF Installed, IInv, TypeOK, DataType
  <2>6. got \in {p \in built : p <= PublishedPage}
    BY <2>2, <2>3
  <2>7. Installed' \subseteq Installed \union {p \in built : p <= PublishedPage}
    BY <2>5, <2>6
  <2>8. Published!Redirect
    BY <2>1, <2>3, <2>4, <2>7 DEF Published!Redirect, PublishedPage, Installed
  <2>9. QED  BY <2>8 DEF Published!Next
<1>5. CASE GameExit
  <2>1. Installed' = {}
    BY <1>5 DEF GameExit, Installed
  <2>2. UNCHANGED <<built, PublishedPage>>
    BY <1>5 DEF GameExit, PublishedPage, Named
  <2>3. Published!Forget
    BY <2>1, <2>2 DEF Published!Forget, PublishedPage, Installed
  <2>4. QED  BY <2>3 DEF Published!Next
<1>6. \/ UNCHANGED <<built, ready, preamble>>
      \/ Opd /\ built' # built
      \/ RenameTmp /\ ready' = tmp
      \/ WritePreamble /\ preamble' = [preamble EXCEPT ![next] = got]
      \/ GameExit
  <2>1. CASE InitStep
    BY <2>1 DEF InitStep, Search, Allocate, Stub, Opd, OpenProbe, Patch, Patched,
                OpenTmp, WriteTmp, CloseTmp, RenameTmp
  <2>2. CASE InjectorStep \/ Begin
    BY <2>2 DEF InjectorStep, Begin, Unload, Load, Await, SmartProbe, WritePreamble,
                Finish, Ends, Moves
  <2>3. CASE GameStep
    BY <2>3 DEF GameStep, LoadLibusbd, Resolve
  <2>4. CASE UNCHANGED vars
    BY <2>4 DEF vars
  <2>5. QED  BY <2>1, <2>2, <2>3, <2>4 DEF Next
<1>7. QED  BY <1>1, <1>2, <1>3, <1>4, <1>5, <1>6

(* usb_hook_init, the game and the injector together keep the promise of   *)
(* module Publication.                                                     *)
THEOREM ReadyFileIsAPublication == Spec => IsPublication
BY RefinedInit, RefinedStep, InstallIsOrderly, PTL
   DEF Spec, IsPublication, Published!Spec

-----------------------------------------------------------------------------
(* What is left to do.  usb_hook_init and the injector each take a bounded *)
(* number of steps per start, whatever the other side and the game do: the *)
(* half of WaitsEnd that needs no fairness.                                *)

StageLeft ==
  IF stage = "search" THEN 10 ELSE
  IF stage = "alloc"  THEN 9  ELSE
  IF stage = "stubs"  THEN 8  ELSE
  IF stage = "opds"   THEN 7  ELSE
  IF stage = "probe"  THEN 6  ELSE
  IF stage = "patch"  THEN 5  ELSE
  IF stage = "open"   THEN 4  ELSE
  IF stage = "write"  THEN 3  ELSE
  IF stage = "close"  THEN 2  ELSE
  IF stage = "rename" THEN 1  ELSE 0

Until(stages, k) == IF stage \in stages THEN k ELSE 0

(* Scans of the memory, in this round of the search and the next ones.     *)
ScansLeft == (MaxTries - tries.round) * MaxAttempts - tries.attempt

(* Stages, and the rounds of each that is not behind.                      *)
InitLeft ==
  StageLeft + Until({"search"}, ScansLeft)
    + Until({"search", "alloc", "stubs"}, NHooks - stubs)
    + Until({"search", "alloc", "stubs", "opds"}, NHooks - opds)
    + Until({"search", "alloc", "stubs", "opds", "probe", "patch"}, Words + 1 - at)

InjLeft ==
  IF inj = "idle"   THEN 0 ELSE
  IF inj = "unload" THEN 5 + MaxWaits + (NPreambles + 1 - next) ELSE
  IF inj = "load"   THEN 4 + MaxWaits + (NPreambles + 1 - next) ELSE
  IF inj = "wait"   THEN 3 + (MaxWaits - waits) + (NPreambles + 1 - next) ELSE
  IF inj = "probe"  THEN 2 + (NPreambles + 1 - next)
                    ELSE 1 + (NPreambles + 1 - next)

InitSteps == 11 + MaxTries * MaxAttempts + 2 * NHooks + Words
InjSteps  == 6 + MaxWaits + NPreambles

Counters ==
  /\ tries.round < MaxTries /\ tries.attempt < MaxAttempts
  /\ waits < MaxWaits /\ next <= NPreambles + 1

LEMMA CountersInit == Init => Counters
BY InstallAssumption DEF Init, Counters, FirstTry

LEMMA CountersStep == IInv /\ Counters /\ [Next]_vars => Counters'
<1> SUFFICES ASSUME StateType, Counters, [Next]_vars PROVE Counters'
  BY DEF IInv, TypeOK
<1> USE InstallAssumption DEF Counters, StateType, process, image, disk, injector,
                              FirstTry
<1>1. CASE InitStep
  <2>1. (UNCHANGED <<waits, next>> /\ tries' \in {tries, FirstTry}) \/ Search
    BY <1>1 DEF InitStep, Allocate, Stub, Opd, OpenProbe, Patch, Patched,
                OpenTmp, WriteTmp, CloseTmp, RenameTmp
  <2>2. CASE Search
    <3>1. \/ tries' = FirstTry
          \/ tries.attempt + 1 < MaxAttempts
             /\ tries' = [tries EXCEPT !.attempt = @ + 1]
          \/ tries.round + 1 < MaxTries
             /\ tries' = [round |-> tries.round + 1, attempt |-> 0]
      BY <2>2 DEF Search
    <3>2. tries'.round < MaxTries /\ tries'.attempt < MaxAttempts
      <4>1. CASE tries' = FirstTry
        BY <4>1
      <4>2. CASE /\ tries.attempt + 1 < MaxAttempts
                 /\ tries' = [tries EXCEPT !.attempt = @ + 1]
        BY <4>2
      <4>3. CASE /\ tries.round + 1 < MaxTries
                 /\ tries' = [round |-> tries.round + 1, attempt |-> 0]
        BY <4>3
      <4>4. QED  BY <3>1, <4>1, <4>2, <4>3
    <3>3. UNCHANGED <<waits, next>>
      BY <2>2 DEF Search
    <3>4. QED  BY <3>2, <3>3
  <2>3. QED  BY <2>1, <2>2
<1>2. CASE WritePreamble
  BY <1>2 DEF WritePreamble
<1>3. CASE Await
  BY <1>3 DEF Await, Ends, Moves
<1>4. CASE Unload \/ Load \/ SmartProbe \/ Finish \/ Begin
  <2>1. /\ tries' \in {tries, FirstTry} /\ waits' \in {waits, 0}
        /\ next' \in {next, 1}
    BY <1>4 DEF Unload, Load, SmartProbe, Finish, Begin, Ends, Moves, NoImage
  <2>2. QED  BY <2>1
<1>5. CASE GameStep \/ UNCHANGED vars
  <2>1. /\ tries' \in {tries, FirstTry}
        /\ UNCHANGED <<waits, next>>
    BY <1>5 DEF GameStep, LoadLibusbd, Resolve, GameExit, NoImage, vars
  <2>2. QED  BY <2>1
<1> HIDE DEF Counters, StateType, process, image, disk, injector, FirstTry
<1>6. QED  BY <1>1, <1>2, <1>3, <1>4, <1>5 DEF Next, InjectorStep

(* As many attempts as a round has make one round less.                    *)
LEMMA Rounds ==
  ASSUME NEW k \in Nat, NEW r \in Nat, r < k,
         NEW m \in Nat \ {0}, NEW a \in 0 .. m - 1
  PROVE  /\ (k - r) * m - a \in 1 .. k * m
         /\ (k - (r + 1)) * m < (k - r) * m - a
<1> DEFINE d == k - r - 1
<1>1. d \in Nat /\ d + r + 1 = k
  OBVIOUS
<1>2. (k - r) * m = d * m + m /\ (k - (r + 1)) * m = d * m
  OBVIOUS
<1>3. k * m = d * m + r * m + m
  BY <1>1
<1>4. d * m \in Nat /\ r * m \in Nat
  BY <1>1
<1> HIDE DEF d
<1>5. QED  BY <1>2, <1>3, <1>4

LEMMA ScansLeftRange ==
  IInv /\ Counters => ScansLeft \in 1 .. MaxTries * MaxAttempts
                      /\ MaxTries * MaxAttempts \in Nat
<1> SUFFICES ASSUME IInv, Counters
             PROVE  ScansLeft \in 1 .. MaxTries * MaxAttempts
                    /\ MaxTries * MaxAttempts \in Nat
  OBVIOUS
<1>1. /\ MaxTries \in Nat /\ MaxAttempts \in Nat \ {0}
      /\ tries.round \in Nat /\ tries.round < MaxTries
      /\ tries.attempt \in 0 .. MaxAttempts - 1
  BY InstallAssumption DEF IInv, TypeOK, StateType, Counters
<1>2. MaxTries * MaxAttempts \in Nat
  BY <1>1
<1>3. QED  BY <1>1, <1>2, Rounds DEF ScansLeft

LEMMA InitLeftRange ==
  IInv /\ Counters =>
    /\ InitLeft \in 0 .. InitSteps
    /\ stage \notin {"none", "failed", "running"} => InitLeft > 0
<1> SUFFICES ASSUME IInv, Counters
             PROVE  /\ InitLeft \in 0 .. InitSteps
                    /\ stage \notin {"none", "failed", "running"} => InitLeft > 0
  OBVIOUS
<1> DEFINE scans  == Until({"search"}, ScansLeft)
           stubs2 == Until({"search", "alloc", "stubs"}, NHooks - stubs)
           opds2  == Until({"search", "alloc", "stubs", "opds"}, NHooks - opds)
           words  == Until({"search", "alloc", "stubs", "opds", "probe", "patch"},
                           Words + 1 - at)
           all    == MaxTries * MaxAttempts
<1>1. all \in Nat /\ ScansLeft \in 1 .. all
  BY ScansLeftRange
<1>2. /\ StageLeft \in 0 .. 10
      /\ stage \notin {"none", "failed", "running"} => StageLeft > 0
  BY DEF StageLeft, IInv, TypeOK, PlaceType
<1>3. scans \in 0 .. all
  BY <1>1 DEF Until
<1>4. /\ stubs2 \in 0 .. NHooks /\ opds2 \in 0 .. NHooks
      /\ words \in 0 .. Words + 1
      /\ NHooks \in Nat /\ Words \in Nat
  BY InstallAssumption DEF Until, IInv, TypeOK, StateType
<1>5. /\ InitLeft = StageLeft + scans + stubs2 + opds2 + words
      /\ InitSteps = 11 + all + 2 * NHooks + Words
  BY DEF InitLeft, InitSteps
<1> HIDE DEF scans, stubs2, opds2, words, all
<1>6. QED  BY <1>1, <1>2, <1>3, <1>4, <1>5

LEMMA InjLeftRange ==
  IInv /\ Counters =>
    InjLeft \in 0 .. InjSteps /\ (inj # "idle" => InjLeft > 0)
BY InstallAssumption
   DEF IInv, TypeOK, StateType, PlaceType, Counters, InjLeft, InjSteps

(* Each step of usb_hook_init leaves less to do.                           *)
LEMMA InitLeftLess ==
  ASSUME IInv, Counters, InitStep
  PROVE  InitLeft' < InitLeft
<1>a. /\ MaxTries \in Nat /\ MaxAttempts \in Nat \ {0}
      /\ tries.round \in Nat /\ tries.round < MaxTries
      /\ tries.attempt \in 0 .. MaxAttempts - 1
      /\ tries = [round |-> tries.round, attempt |-> tries.attempt]
  BY InstallAssumption DEF IInv, TypeOK, StateType, Counters
<1>b. ScansLeft \in Nat \ {0}
  BY ScansLeftRange
<1>c. ASSUME Search, stage' = "search"
      PROVE  ScansLeft' \in Int /\ ScansLeft' < ScansLeft
  <2>1. CASE tries' = [tries EXCEPT !.attempt = @ + 1]
    <3>1. tries'.round = tries.round /\ tries'.attempt = tries.attempt + 1
      BY <1>a, <2>1
    <3> DEFINE p == (MaxTries - tries.round) * MaxAttempts
    <3>2. p \in Int
      BY <1>a
    <3>3. ScansLeft = p - tries.attempt /\ ScansLeft' = p - (tries.attempt + 1)
      BY <3>1 DEF ScansLeft
    <3> HIDE DEF p
    <3>4. QED  BY <1>a, <3>2, <3>3
  <2>2. CASE tries' = [round |-> tries.round + 1, attempt |-> 0]
    <3> DEFINE q == (MaxTries - (tries.round + 1)) * MaxAttempts
    <3>1. q \in Int
      BY <1>a
    <3>2. ScansLeft' = q
      BY <2>2, <3>1 DEF ScansLeft
    <3>3. q < ScansLeft
      BY <1>a, Rounds DEF ScansLeft
    <3> HIDE DEF q
    <3>4. QED  BY <3>1, <3>2, <3>3
  <2>3. QED  BY <1>c, <2>1, <2>2 DEF Search, Goto
<1> HIDE DEF ScansLeft
<1> USE InstallAssumption
    DEF IInv, TypeOK, StateType, Counters, InitLeft, StageLeft, Until, Goto
<1>1. CASE Search
  <2>1. stage = "search" /\ stage' \in {"search", "alloc", "failed"}
        /\ UNCHANGED <<stubs, opds, at>>
    BY <1>1 DEF Search
  <2>2. CASE stage' = "search"
    BY <1>1, <1>b, <1>c, <2>1, <2>2
  <2>3. CASE stage' # "search"
    BY <1>b, <2>1, <2>3
  <2>4. QED  BY <2>2, <2>3
<1>2. CASE Allocate
  BY <1>2 DEF Allocate
<1>3. CASE Stub
  BY <1>3 DEF Stub
<1>4. CASE Opd
  BY <1>4 DEF Opd
<1>5. CASE OpenProbe
  BY <1>5 DEF OpenProbe
<1>6. CASE Patch
  BY <1>6 DEF Patch
<1>7. CASE Patched
  BY <1>7 DEF Patched
<1>8. CASE OpenTmp
  BY <1>8 DEF OpenTmp
<1>9. CASE WriteTmp
  <2>1. stage = "write" /\ stage' \in {"close", "running"}
    BY <1>9 DEF WriteTmp
  <2>2. QED  BY <2>1
<1>10. CASE CloseTmp
  BY <1>10 DEF CloseTmp
<1>11. CASE RenameTmp
  BY <1>11 DEF RenameTmp
<1>12. QED
  BY <1>1, <1>2, <1>3, <1>4, <1>5, <1>6, <1>7, <1>8, <1>9, <1>10, <1>11
     DEF InitStep

(* Nobody else gives it more to do, but for a load that starts it.         *)
LEMMA InitLeftKept ==
  ASSUME IInv, Counters, [Next]_vars, ~InitStep, ~Load
  PROVE  InitLeft' <= InitLeft
<1> USE DEF process, image, disk, injector
<1>1. InitLeft \in Nat
  BY InitLeftRange, ScansLeftRange, InstallAssumption DEF InitSteps
<1>2. CASE stage' = "none"
  BY <1>1, <1>2 DEF InitLeft, StageLeft, Until
<1>3. CASE UNCHANGED image
  BY <1>1, <1>3 DEF InitLeft, ScansLeft, StageLeft, Until
<1>4. stage' = "none" \/ UNCHANGED image
  <2>1. CASE InjectorStep \/ Begin
    BY <2>1 DEF InjectorStep, Begin, Unload, Await, SmartProbe, WritePreamble,
                Finish, Ends, Moves, NoImage
  <2>2. CASE GameStep \/ UNCHANGED vars
    BY <2>2 DEF GameStep, LoadLibusbd, Resolve, GameExit, NoImage, vars
  <2>3. QED  BY <2>1, <2>2 DEF Next
<1>5. QED  BY <1>2, <1>3, <1>4

LEMMA InjLeftLess ==
  ASSUME IInv, Counters, InjectorStep
  PROVE  InjLeft' < InjLeft
<1>0. /\ MaxWaits \in Nat /\ NPreambles \in Nat /\ waits \in Nat /\ next \in Nat \ {0}
      /\ waits < MaxWaits /\ next <= NPreambles + 1
  BY InstallAssumption DEF IInv, TypeOK, StateType, Counters
<1>1. CASE Unload
  BY <1>0, <1>1 DEF Unload, InjLeft, Moves, Ends
<1>2. CASE Load
  <2>1. inj = "load"
    BY <1>2 DEF Load
  <2>2. CASE Ends
    BY <1>0, <2>1, <2>2 DEF InjLeft, Moves, Ends
  <2>3. CASE ~Ends
    <3>1. Moves("wait") /\ UNCHANGED <<waits, next>>
      BY <1>2, <2>3 DEF Load
    <3>2. QED  BY <1>0, <2>1, <3>1 DEF InjLeft, Moves
  <2>4. QED  BY <2>2, <2>3
<1>3. CASE Await
  BY <1>0, <1>3 DEF Await, InjLeft, Moves, Ends
<1>4. CASE SmartProbe
  BY <1>0, <1>4 DEF SmartProbe, InjLeft, Moves, Ends
<1>5. CASE WritePreamble
  BY <1>0, <1>5 DEF WritePreamble, InjLeft, Moves, Ends
<1>6. CASE Finish
  BY <1>0, <1>6 DEF Finish, InjLeft, Moves, Ends
<1>7. QED  BY <1>1, <1>2, <1>3, <1>4, <1>5, <1>6 DEF InjectorStep

LEMMA InjLeftKept ==
  ASSUME [Next]_vars, ~InjectorStep, ~Begin
  PROVE  InjLeft' = InjLeft
<1>1. UNCHANGED injector
  <2>1. CASE InitStep
    BY <2>1 DEF InitStep, Search, Allocate, Stub, Opd, OpenProbe, Patch, Patched,
                OpenTmp, WriteTmp, CloseTmp, RenameTmp
  <2>2. CASE GameStep \/ UNCHANGED vars
    BY <2>2 DEF GameStep, LoadLibusbd, Resolve, GameExit, vars
  <2>3. QED  BY <2>1, <2>2 DEF Next
<1>2. QED  BY <1>1 DEF InjLeft, injector

(* usb_hook_init does at most InitSteps steps, MaxTries * MaxAttempts of   *)
(* them scans: each leaves less to do, and neither the injector nor the    *)
(* game gives it more; only a new load does.                               *)
THEOREM InitialisationIsBounded ==
  Spec => /\ []( /\ InitLeft \in 0 .. InitSteps
                 /\ stage \notin {"none", "failed", "running"} => InitLeft > 0 )
          /\ [][ /\ InitStep => InitLeft' < InitLeft
                 /\ ~InitStep /\ ~Load => InitLeft' <= InitLeft ]_vars
<1>1. IInv /\ Counters /\ [Next]_vars =>
        [ /\ InitStep => InitLeft' < InitLeft
          /\ ~InitStep /\ ~Load => InitLeft' <= InitLeft ]_vars
  BY InitLeftLess, InitLeftKept
<1>2. Spec => []Counters
  BY CountersInit, CountersStep, InstallIsOrderly, PTL DEF Spec
<1>3. QED  BY <1>1, <1>2, InitLeftRange, InstallIsOrderly, PTL DEF Spec

(* One run of the injector takes at most InjSteps steps, and nobody makes  *)
(* it longer (inject-sprx.js:262).                                         *)
THEOREM InjectionIsBounded ==
  Spec => /\ [](InjLeft \in 0 .. InjSteps /\ (inj # "idle" => InjLeft > 0))
          /\ [][ /\ InjectorStep => InjLeft' < InjLeft
                 /\ ~InjectorStep /\ ~Begin => InjLeft' = InjLeft ]_vars
<1>1. IInv /\ Counters /\ [Next]_vars =>
        [ /\ InjectorStep => InjLeft' < InjLeft
          /\ ~InjectorStep /\ ~Begin => InjLeft' = InjLeft ]_vars
  BY InjLeftLess, InjLeftKept
<1>2. Spec => []Counters
  BY CountersInit, CountersStep, InstallIsOrderly, PTL DEF Spec
<1>3. QED  BY PTL, InstallIsOrderly, InjLeftRange, <1>1, <1>2 DEF Spec

=============================================================================
