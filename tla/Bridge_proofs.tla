---------------------------- MODULE Bridge_proofs ----------------------------
(***************************************************************************)
(* Theorems about Bridge, for every choice of its constants.               *)
(***************************************************************************)
EXTENDS Bridge, SequenceTheorems, FiniteSetTheorems, TLAPS

(* Taking element i out of a sequence keeps the others and their order.    *)
LEMMA RemoveAtFacts ==
  ASSUME NEW S, NEW s \in Seq(S), NEW i \in DOMAIN s
  PROVE  /\ RemoveAt(s, i) \in Seq(S)
         /\ Len(RemoveAt(s, i)) = Len(s) - 1
         /\ \A j \in DOMAIN RemoveAt(s, i) :
              RemoveAt(s, i)[j] = IF j < i THEN s[j] ELSE s[j + 1]
<1>1. i \in 1 .. Len(s) /\ Len(s) \in Nat
  BY LenProperties
<1> DEFINE front == SubSeq(s, 1, i - 1)
           back  == SubSeq(s, i + 1, Len(s))
<1>2. /\ front \in Seq(S) /\ Len(front) = i - 1
      /\ \A j \in 1 .. i - 1 : front[j] = s[j]
  <2>1. \A j \in 1 .. i - 1 : s[j] \in S
    BY <1>1, ElementOfSeq
  <2>2. 1 \in Int /\ i - 1 \in Int
    BY <1>1
  <2>3. /\ front \in Seq(S)
        /\ Len(front) = IF 1 <= i - 1 THEN (i - 1) - 1 + 1 ELSE 0
        /\ \A j \in 1 .. (i - 1) - 1 + 1 : front[j] = s[1 + j - 1]
    BY <2>1, <2>2, SubSeqProperties
  <2>4. QED  BY <1>1, <2>3
<1>3. /\ back \in Seq(S) /\ Len(back) = Len(s) - i
      /\ \A j \in 1 .. Len(s) - i : back[j] = s[j + i]
  <2>1. \A j \in i + 1 .. Len(s) : s[j] \in S
    BY <1>1, ElementOfSeq
  <2>2. i + 1 \in Int /\ Len(s) \in Int
    BY <1>1
  <2>3. /\ back \in Seq(S)
        /\ Len(back) = IF i + 1 <= Len(s) THEN Len(s) - (i + 1) + 1 ELSE 0
        /\ \A j \in 1 .. Len(s) - (i + 1) + 1 : back[j] = s[i + 1 + j - 1]
    BY <2>1, <2>2, SubSeqProperties
  <2>4. QED  BY <1>1, <2>3
<1> HIDE DEF front, back
<1> DEFINE r == front \o back
<1>4. /\ r \in Seq(S) /\ Len(r) = Len(front) + Len(back)
      /\ \A j \in 1 .. Len(front) + Len(back) :
           r[j] = IF j <= Len(front) THEN front[j] ELSE back[j - Len(front)]
  BY <1>2, <1>3, ConcatProperties
<1>r. RemoveAt(s, i) = r
  BY DEF RemoveAt, front, back
<1> HIDE DEF r
<1>5. DOMAIN r = 1 .. Len(s) - 1 /\ Len(r) = Len(s) - 1
  <2>1. Len(front) + Len(back) = Len(s) - 1
    BY <1>1, <1>2, <1>3
  <2>2. QED  BY <1>4, <2>1, LenProperties
<1>6. ASSUME NEW j \in 1 .. Len(s) - 1
      PROVE  r[j] = IF j < i THEN s[j] ELSE s[j + 1]
  <2>0. Len(front) = i - 1 /\ Len(front) + Len(back) = Len(s) - 1
    BY <1>1, <1>2, <1>3
  <2>1. r[j] = IF j <= i - 1 THEN front[j] ELSE back[j - (i - 1)]
    <3>1. \A k \in 1 .. Len(s) - 1 :
            r[k] = IF k <= Len(front) THEN front[k] ELSE back[k - Len(front)]
      BY <1>4, <2>0
    <3>2. r[j] = IF j <= Len(front) THEN front[j] ELSE back[j - Len(front)]
      BY <3>1
    <3>3. QED  BY <2>0, <3>2
  <2>2. CASE j < i
    BY <1>1, <1>2, <2>1, <2>2
  <2>3. CASE ~(j < i)
    <3>1. j - (i - 1) \in 1 .. Len(s) - i /\ (j - (i - 1)) + i = j + 1
      BY <1>1, <2>3
    <3>2. back[j - (i - 1)] = s[j + 1]
      BY <1>3, <3>1
    <3>3. ~(j <= i - 1)
      BY <1>1, <2>3
    <3>4. QED  BY <2>1, <2>3, <3>2, <3>3
  <2>4. QED  BY <2>2, <2>3
<1>7. QED  BY <1>4, <1>5, <1>6, <1>r

(* A poll of the centre zone reads what is on it: the zone has one slot,   *)
(* so the sequence byte makes no difference.                               *)
LEMMA CenterPoll ==
  ASSUME ZonesType, NEW hint \in Nat
  PROVE  GetZoneState(CENTER, hint) = CenterToy
<1>1. Slots(CENTER) = {0}
  BY CapacityAssumption DEF Slots
<1>2. CASE CenterToy = NoToy
  BY <1>1, <1>2 DEF GetZoneState, Occupied, CenterToy
<1>3. CASE CenterToy # NoToy
  <2>1. Occupied(CENTER) = {0}
    BY <1>1, <1>3 DEF Occupied, CenterToy
  <2>2. Cardinality(Occupied(CENTER)) = 1
    BY <2>1, FS_Singleton
  <2>3. hint % 1 = 0
    OBVIOUS
  <2>4. Rank(CENTER, 0) = 0
    <3>1. {t \in Occupied(CENTER) : t < 0} = {}
      BY <2>1
    <3>2. QED  BY <3>1, FS_EmptySet DEF Rank
  <2>5. SlotFor(CENTER, hint) = 0
    BY <2>1, <2>2, <2>3, <2>4 DEF SlotFor
  <2>6. QED  BY <2>1, <2>5 DEF GetZoneState, CenterToy
<1>4. QED  BY <1>2, <1>3

(* A datagram sent leaves the channel with some of what it held, shifted   *)
(* by at most one place, and possibly the new datagram at its end.         *)
LEMMA SentFacts ==
  ASSUME NEW S, NEW ch \in Seq(S), NEW d \in S, NEW cap \in Nat \ {0},
         NEW r \in Sent(ch, cap, d)
  PROVE  /\ r \in Seq(S)
         /\ Len(ch) <= cap => Len(r) <= cap
         /\ \E o \in {0, 1} : \A j \in DOMAIN r :
              \/ j + o \in DOMAIN ch /\ r[j] = ch[j + o]
              \/ j = Len(r) /\ r[j] = d
<1>1. CASE r = ch
  BY <1>1, LenProperties
<1>2. CASE Len(ch) < cap /\ r = Append(ch, d)
  <2>1. /\ r \in Seq(S) /\ Len(r) = Len(ch) + 1
        /\ \A j \in 1 .. Len(ch) : r[j] = ch[j]
        /\ r[Len(ch) + 1] = d
    BY <1>2, AppendProperties
  <2>2. DOMAIN ch = 1 .. Len(ch) /\ DOMAIN r = 1 .. Len(r) /\ Len(ch) \in Nat
    BY <2>1, LenProperties
  <2>3. \A j \in DOMAIN r :
          \/ j + 0 \in DOMAIN ch /\ r[j] = ch[j + 0]
          \/ j = Len(r) /\ r[j] = d
    BY <2>1, <2>2
  <2>4. Len(r) <= cap
    BY <1>2, <2>1, <2>2
  <2>5. QED  BY <2>1, <2>3, <2>4
<1>3. CASE ch # <<>> /\ r = Append(Tail(ch), d)
  <2>1. /\ Tail(ch) \in Seq(S) /\ Len(Tail(ch)) = Len(ch) - 1
        /\ \A j \in 1 .. Len(Tail(ch)) : Tail(ch)[j] = ch[j + 1]
    BY <1>3, HeadTailProperties
  <2>2. /\ r \in Seq(S) /\ Len(r) = Len(Tail(ch)) + 1
        /\ \A j \in 1 .. Len(Tail(ch)) : r[j] = Tail(ch)[j]
        /\ r[Len(Tail(ch)) + 1] = d
    BY <1>3, <2>1, AppendProperties
  <2>3. Len(ch) \in Nat /\ DOMAIN ch = 1 .. Len(ch) /\ DOMAIN r = 1 .. Len(r)
    BY <2>2, LenProperties
  <2>4. \A j \in DOMAIN r :
          \/ j + 1 \in DOMAIN ch /\ r[j] = ch[j + 1]
          \/ j = Len(r) /\ r[j] = d
    BY <2>1, <2>2, <2>3
  <2>5. Len(r) = Len(ch)
    BY <2>1, <2>2, <2>3
  <2>6. QED  BY <2>2, <2>4, <2>5
<1>4. ~(Len(ch) < cap) => ch # <<>>
  BY LenProperties, EmptySeq
<1>5. QED  BY <1>1, <1>2, <1>3, <1>4 DEF Sent

-----------------------------------------------------------------------------
(* Type correctness.                                                       *)

(* Placing and removing toys keeps the zones a zones record.               *)
LEMMA ZonesStep ==
  ASSUME ZonesType,
         NEW z \in Zone, NEW slot,
         (\E name \in Name : PlaceToy(z, name, slot)) \/ RemoveToy(z, slot)
  PROVE  ZonesType'
<1>1. PICK s \in Slots(z), x \in Toy \union {NoToy} :
        zones' = [zones EXCEPT ![z][s] = x]
  BY CatalogAssumption
     DEF PlaceToy, PlaceSlot, RemoveToy, RemoveSlot, Free, Occupied
<1>2. QED  BY <1>1 DEF ZonesType

(* The centre zone has a slot 0.                                           *)
LEMMA CenterSlot == CENTER \in Zone /\ 0 \in Slots(CENTER)
BY CapacityAssumption DEF Slots, Zone

(* What lies on the centre is a toy, or nothing.                           *)
LEMMA CenterToyType ==
  ASSUME ZonesType
  PROVE  CenterToy \in Toy \union {NoToy}
BY CenterSlot DEF ZonesType, CenterToy

(* The two forms of datagram are datagrams.                                *)
LEMMA DatagramTypes ==
  /\ \A st \in Status : Plain(st) \in Datagram
  /\ \A t \in Toy, n \in Nat : TagReply(t, n) \in Datagram
BY DEF Plain, TagReply, Datagram, Status

(* The bridge starts well typed.                                           *)
LEMMA TypeInit == Init => TypeOK
<1> SUFFICES ASSUME Init PROVE TypeOK
  OBVIOUS
<1>1. ZonesType
  BY DEF Init, EmptyZones, ZonesType
<1>2. <<NoToy>> \in Seq(Toy \union {NoToy}) /\ <<NoToy>> # <<>>
  OBVIOUS
<1>3. <<>> \in Seq(Request) /\ <<>> \in Seq(Datagram)
  BY EmptySeq
<1>4. Pad!NoReport \in [kind : {"none", "dummy", "blank", "tag"},
                        toy : Toy \union {NoToy}]
  BY DEF Pad!NoReport
<1>5. /\ toServer \in Seq(Request) /\ Len(toServer) <= UpCap
      /\ toConsole \in Seq(Datagram) /\ Len(toConsole) <= DownCap
      /\ socket \in Seq(Datagram) /\ Len(socket) <= SocketCap
  <2>1. {UpCap, DownCap, SocketCap} \subseteq Nat \ {0} /\ Len(<<>>) = 0
    BY BridgeAssumption
  <2>2. QED  BY <1>3, <2>1 DEF Init
<1>6. padLog \in Seq(Toy \union {NoToy}) /\ padLog # <<>>
  BY <1>2 DEF Init
<1>7. client \in BOOLEAN /\ pc \in {"idle", "polled"} /\ shown \in Nat
  BY DEF Init
<1>8. QED  BY <1>1, <1>4, <1>5, <1>6, <1>7 DEF Init, TypeOK

(* The steps of the console and of the network.                            *)
LEMMA ConsoleTypeStep ==
  ASSUME TypeOK,
         InPoll \/ InReceive \/ OutTransfer \/ Keepalive
           \/ \E i \in Arrivable(toConsole) : Arrive(i)
  PROVE  TypeOK'
<1> USE DEF TypeOK
<1>1. ASSUME NEW r \in Request, Send(r)
      PROVE  toServer' \in Seq(Request) /\ Len(toServer') <= UpCap
  <2>1. UpCap \in Nat \ {0}
    BY BridgeAssumption
  <2>2. QED  BY <1>1, <2>1, SentFacts DEF Send
<1>2. CASE InPoll
  BY <1>1, <1>2 DEF InPoll, SendPoll, server, Request, ZonesType
<1>3. CASE InReceive
  <2>1. CASE socket = <<>>
    BY <1>3, <2>1 DEF InReceive, Recv, server, ZonesType, Pad!Dummy
  <2>2. CASE socket # <<>>
    <3>1. /\ Head(socket) \in Datagram /\ Tail(socket) \in Seq(Datagram)
          /\ Len(Tail(socket)) <= SocketCap
      <4>1. /\ Head(socket) \in Datagram /\ Tail(socket) \in Seq(Datagram)
            /\ Len(Tail(socket)) = Len(socket) - 1
        BY <2>2, HeadTailProperties
      <4>2. Len(socket) \in Nat /\ SocketCap \in Nat
        BY LenProperties, BridgeAssumption
      <4>3. QED  BY <4>1, <4>2
    <3>2. ReportOf(Head(socket)) \in [kind : {"none", "dummy", "blank", "tag"},
                                      toy : Toy \union {NoToy}]
      BY <3>1 DEF ReportOf, Datagram, Pad!Dummy, Pad!Blank, Pad!Tag
    <3>3. Head(socket).at \in Nat
      BY <3>1 DEF Datagram
    <3>4. QED  BY <1>3, <2>2, <3>1, <3>2, <3>3
         DEF InReceive, Recv, server, ZonesType
  <2>3. QED  BY <2>1, <2>2
<1>4. CASE OutTransfer
  BY <1>1, <1>4 DEF OutTransfer, SendData, server, game, Request, ZonesType
<1>5. CASE Keepalive
  BY <1>1, <1>5 DEF Keepalive, server, game, Request, ZonesType
<1>6. ASSUME NEW i \in Arrivable(toConsole), Arrive(i)
      PROVE  TypeOK'
  <2>1. i \in DOMAIN toConsole
    BY DEF Arrivable
  <2>2. toConsole' \in Seq(Datagram) /\ Len(toConsole') <= DownCap
    <3>1. /\ toConsole' \in Seq(Datagram)
          /\ Len(toConsole') = Len(toConsole) - 1
      BY <1>6, <2>1, RemoveAtFacts DEF Arrive
    <3>2. Len(toConsole) \in Nat /\ DownCap \in Nat
      BY LenProperties, BridgeAssumption
    <3>3. QED  BY <3>1, <3>2
  <2>3. toConsole[i] \in Datagram
    BY <2>1, LenProperties, ElementOfSeq
  <2>4. socket' \in Seq(Datagram) /\ Len(socket') <= SocketCap
    <3>1. Len(socket) \in Nat /\ SocketCap \in Nat
      BY LenProperties, BridgeAssumption
    <3>2. QED  BY <1>6, <2>3, <3>1, AppendProperties DEF Arrive
  <2>5. QED  BY <1>6, <2>2, <2>4 DEF Arrive, server, game, ZonesType
<1>7. QED  BY <1>2, <1>3, <1>4, <1>5, <1>6

(* The steps of the server and of its users.                               *)
LEMMA ServerTypeStep ==
  ASSUME TypeOK,
         \/ \E i \in Arrivable(toServer) : Handle(i)
         \/ Beacon \/ UserEdits \/ ServerRestart
  PROVE  TypeOK'
<1> USE DEF TypeOK
<1>1. ASSUME NEW d \in Datagram, Reply(d)
      PROVE  toConsole' \in Seq(Datagram) /\ Len(toConsole') <= DownCap
  <2>1. DownCap \in Nat \ {0}
    BY BridgeAssumption
  <2>2. QED  BY <1>1, <2>1, SentFacts DEF Reply
<1>2. ASSUME NEW i \in Arrivable(toServer), Handle(i)
      PROVE  TypeOK'
  <2>1. toServer' \in Seq(Request) /\ Len(toServer') <= UpCap
    <3>1. toServer' \in Seq(Request) /\ Len(toServer') = Len(toServer) - 1
      BY <1>2, RemoveAtFacts DEF Handle, Arrivable
    <3>2. Len(toServer) \in Nat /\ UpCap \in Nat
      BY LenProperties, BridgeAssumption
    <3>3. QED  BY <3>1, <3>2
  <2>2. toConsole' \in Seq(Datagram) /\ Len(toConsole') <= DownCap
    <3>1. CASE HandlePoll
      <4>1. PICK hint \in Hints :
              LET t == GetZoneState(PollZone, hint)
              IN  Reply(IF t = NoToy THEN Plain("no_tag")
                        ELSE TagReply(t, Len(padLog)))
        BY <3>1 DEF HandlePoll
      <4>2. GetZoneState(PollZone, hint) = CenterToy
        BY CenterPoll, BridgeAssumption DEF PollZone
      <4>3. Len(padLog) \in Nat
        BY LenProperties
      <4>4. QED
        BY <1>1, <4>1, <4>2, <4>3, DatagramTypes, CenterToyType DEF Status
    <3>2. CASE HandleDataOut \/ HandleKeepalive
      BY <1>1, <3>2, DatagramTypes DEF HandleDataOut, HandleKeepalive, Status
    <3>3. QED  BY <1>2, <3>1, <3>2 DEF Handle
  <2>3. QED  BY <1>2, <2>1, <2>2 DEF Handle, game, ZonesType
<1>3. CASE Beacon
  BY <1>1, <1>3, DatagramTypes DEF Beacon, server, game, Status, ZonesType
<1>4. ASSUME LogCenter, ZonesType'
      PROVE  padLog' \in Seq(Toy \union {NoToy}) /\ padLog' # <<>>
  <2>1. CenterToy' \in Toy \union {NoToy}
    BY <1>4, CenterSlot DEF ZonesType, CenterToy
  <2>2. CASE padLog' = padLog
    BY <2>2, LenProperties
  <2>3. CASE padLog' = Append(padLog, CenterToy')
    <3>1. /\ padLog' \in Seq(Toy \union {NoToy})
          /\ Len(padLog') = Len(padLog) + 1
      BY <2>1, <2>3, AppendProperties
    <3>2. QED  BY <3>1, LenProperties, EmptySeq
  <2>4. QED  BY <1>4, <2>2, <2>3 DEF LogCenter
<1>6. CASE UserEdits
  <2>1. ZonesType'
    BY <1>6, ZonesStep, BridgeAssumption DEF UserEdits
  <2>2. QED  BY <1>4, <1>6, <2>1 DEF UserEdits, network, game
<1>7. CASE ServerRestart
  <2>1. ZonesType'
    BY <1>7 DEF ServerRestart, ZonesType, EmptyZones
  <2>2. QED  BY <1>4, <1>7, <2>1 DEF ServerRestart, network, game
<1>8. QED  BY <1>2, <1>3, <1>6, <1>7

(* No step spoils the types.                                               *)
LEMMA TypeStep == TypeOK /\ [Next]_vars => TypeOK'
<1> SUFFICES ASSUME TypeOK, [Next]_vars PROVE TypeOK'
  OBVIOUS
<1>1. CASE UNCHANGED vars
  BY <1>1 DEF vars, server, network, game, TypeOK, ZonesType
<1>2. CASE Next
  BY <1>2, ConsoleTypeStep, ServerTypeStep DEF Next
<1>3. QED  BY <1>1, <1>2

(* Every reachable state is well typed: no datagram, report or log entry   *)
(* is anything but what the declarations of Bridge say.                    *)
THEOREM TypeCorrect == Spec => []TypeOK
BY TypeInit, TypeStep, PTL DEF Spec

-----------------------------------------------------------------------------
(* The tags between server and game are true, and in order.                *)

TrueTags(q, log) ==
  \A i \in DOMAIN q :
    q[i].toy # NoToy => q[i].at \in DOMAIN log /\ log[q[i].at] = q[i].toy

(* A log that only grows keeps every tag true.                             *)
LEMMA LogGrows ==
  ASSUME TypeOK, NEW x \in Toy \union {NoToy}
  PROVE  /\ Append(padLog, x) # <<>>
         /\ Len(Append(padLog, x)) = Len(padLog) + 1
         /\ Append(padLog, x)[Len(padLog) + 1] = x
         /\ DOMAIN padLog = 1 .. Len(padLog) /\ Len(padLog) \in Nat \ {0}
         /\ DOMAIN Append(padLog, x) = 1 .. Len(padLog) + 1
         /\ \A i \in DOMAIN padLog : Append(padLog, x)[i] = padLog[i]
<1>1. padLog \in Seq(Toy \union {NoToy}) /\ padLog # <<>>
  BY DEF TypeOK
<1>2. DOMAIN padLog = 1 .. Len(padLog) /\ Len(padLog) \in Nat \ {0}
  BY <1>1, LenProperties, EmptySeq
<1>3. /\ Append(padLog, x) \in Seq(Toy \union {NoToy})
      /\ Len(Append(padLog, x)) = Len(padLog) + 1
      /\ \A i \in 1 .. Len(padLog) : Append(padLog, x)[i] = padLog[i]
      /\ Append(padLog, x)[Len(padLog) + 1] = x
  BY <1>1, AppendProperties
<1>4. QED  BY <1>2, <1>3, LenProperties, EmptySeq

(* A reply to a poll of the centre zone is true when it is sent.           *)
LEMMA PollReply ==
  ASSUME TypeOK, LogTracksPad, HandlePoll
  PROVE  \E d \in Datagram :
           /\ Reply(d)
           /\ d.toy # NoToy => d.at = Len(padLog) /\ d.toy = padLog[Len(padLog)]
<1>1. PICK hint \in Hints :
        LET t == GetZoneState(PollZone, hint)
        IN  Reply(IF t = NoToy THEN Plain("no_tag") ELSE TagReply(t, Len(padLog)))
  BY DEF HandlePoll
<1>2. GetZoneState(PollZone, hint) = CenterToy
  BY CenterPoll, BridgeAssumption DEF PollZone, TypeOK
<1>3. CenterToy \in Toy \union {NoToy} /\ Len(padLog) \in Nat
  BY CenterToyType, LenProperties DEF TypeOK
<1>4. CASE CenterToy = NoToy
  <2>1. Reply(Plain("no_tag")) /\ Plain("no_tag") \in Datagram
    BY <1>1, <1>2, <1>4, DatagramTypes DEF Status
  <2>2. Plain("no_tag").toy = NoToy
    BY DEF Plain
  <2>3. QED  BY <2>1, <2>2
<1>5. CASE CenterToy # NoToy
  <2>1. /\ Reply(TagReply(CenterToy, Len(padLog)))
        /\ TagReply(CenterToy, Len(padLog)) \in Datagram
    BY <1>1, <1>2, <1>3, <1>5, DatagramTypes
  <2>2. /\ TagReply(CenterToy, Len(padLog)).toy = CenterToy
        /\ TagReply(CenterToy, Len(padLog)).at = Len(padLog)
    BY DEF TagReply
  <2>3. QED  BY <2>1, <2>2 DEF LogTracksPad
<1>6. QED  BY <1>4, <1>5

(* Whatever the server sends is a true tag of this moment, or no tag.      *)
LEMMA ServerSends ==
  ASSUME TypeOK, LogTracksPad,
         (\E i \in Arrivable(toServer) : Handle(i)) \/ Beacon
  PROVE  /\ \E d \in Datagram :
              /\ Reply(d)
              /\ d.toy # NoToy
                   => d.at = Len(padLog) /\ d.toy = padLog[Len(padLog)]
         /\ UNCHANGED <<socket, padLog, zones, game>>
<1>1. \A st \in Status : Plain(st) \in Datagram /\ Plain(st).toy = NoToy
  BY DatagramTypes DEF Plain
<1>2. CASE Beacon
  BY <1>1, <1>2 DEF Beacon, server, Status
<1>3. CASE \E i \in Arrivable(toServer) : Handle(i)
  <2>1. UNCHANGED <<socket, padLog, zones, game>>
    BY <1>3 DEF Handle
  <2>2. HandlePoll \/ HandleDataOut \/ HandleKeepalive
    BY <1>3 DEF Handle
  <2>3. CASE HandlePoll
    BY <2>1, <2>3, PollReply
  <2>4. CASE HandleDataOut \/ HandleKeepalive
    BY <1>1, <2>1, <2>4 DEF HandleDataOut, HandleKeepalive, Status
  <2>5. QED  BY <2>2, <2>3, <2>4
<1>4. QED  BY <1>2, <1>3

(* What a sent datagram does to the channel to the console.                *)
LEMMA ReplyFacts ==
  ASSUME TypeOK, NEW d \in Datagram, Reply(d)
  PROVE  \E o \in {0, 1} : \A j \in DOMAIN toConsole' :
           \/ j + o \in DOMAIN toConsole /\ toConsole'[j] = toConsole[j + o]
           \/ j = Len(toConsole') /\ toConsole'[j] = d
<1>1. toConsole \in Seq(Datagram) /\ DownCap \in Nat \ {0}
  BY BridgeAssumption DEF TypeOK
<1>2. toConsole' \in Sent(toConsole, DownCap, d)
  BY DEF Reply
<1>3. QED  BY <1>1, <1>2, SentFacts

Truths == LogTracksPad /\ TagsAreTrue /\ (Ordered => TagsInOrder)

(* Nothing untrue is under way at the start.                               *)
LEMMA TruthsInit == Init => Truths
BY CenterSlot
   DEF Init, Truths, LogTracksPad, TagsAreTrue, TagsInOrder, EmptyZones,
       CenterToy

(* An IN transfer takes the head of the socket: nothing left in it is      *)
(* older on an ordered network.                                            *)
LEMMA ReceiveTruths ==
  ASSUME TypeOK, Truths, InReceive
  PROVE  Truths'
<1> USE DEF Truths
<1>1. CASE socket = <<>>
  BY <1>1 DEF InReceive, Recv, server, LogTracksPad, TagsAreTrue, TagsInOrder,
              InOrder, CenterToy
<1>2. CASE socket # <<>>
  <2>1. /\ socket \in Seq(Datagram) /\ toConsole \in Seq(Datagram)
        /\ padLog \in Seq(Toy \union {NoToy})
    BY DEF TypeOK
  <2>2. UNCHANGED <<toConsole, padLog, zones>>
    BY <1>2 DEF InReceive, Recv, server
  <2>3. DOMAIN socket = 1 .. Len(socket) /\ Len(socket) \in Nat \ {0}
    BY <1>2, <2>1, LenProperties, EmptySeq
  <2>4. /\ DOMAIN socket' = 1 .. Len(socket) - 1
        /\ \A j \in DOMAIN socket' : socket'[j] = socket[j + 1]
    <3>1. /\ Tail(socket) \in Seq(Datagram)
          /\ Len(Tail(socket)) = Len(socket) - 1
          /\ \A j \in 1 .. Len(Tail(socket)) : Tail(socket)[j] = socket[j + 1]
      BY <1>2, <2>1, HeadTailProperties
    <3>2. socket' = Tail(socket)
      BY <1>2 DEF InReceive, Recv
    <3>3. QED  BY <3>1, <3>2, LenProperties
  <2>5. Head(socket) = socket[1] /\ 1 \in DOMAIN socket
    BY <2>3
  <2>6. \/ shown' = shown
        \/ socket[1].toy # NoToy /\ shown' = socket[1].at
    BY <1>2, <2>5 DEF InReceive, Recv, ReportOf, Pad!Dummy, Pad!Blank
  <2>7. LogTracksPad'
    BY <2>2, <2>5, <2>6 DEF LogTracksPad, TagsAreTrue, CenterToy
  <2>8. \A j \in DOMAIN socket' : j + 1 \in DOMAIN socket
    BY <2>3, <2>4
  <2>9. TagsAreTrue'
    <3>1. ASSUME NEW j \in DOMAIN socket', socket'[j].toy # NoToy
          PROVE  /\ socket'[j].at \in DOMAIN padLog
                 /\ padLog[socket'[j].at] = socket'[j].toy
      BY <2>4, <2>8, <3>1 DEF TagsAreTrue
    <3>2. QED  BY <2>2, <3>1 DEF TagsAreTrue
  <2>10. ASSUME Ordered PROVE TagsInOrder'
    <3>1. TagsInOrder
      BY <2>10
    <3>2. ASSUME NEW i \in DOMAIN socket'
          PROVE  /\ socket'[i].toy # NoToy => shown' <= socket'[i].at
                 /\ \A j \in DOMAIN socket' :
                      i < j => InOrder(socket'[i], socket'[j])
                 /\ \A j \in DOMAIN toConsole' :
                      InOrder(socket'[i], toConsole'[j])
      <4>1. /\ i + 1 \in DOMAIN socket /\ 1 < i + 1
            /\ socket'[i] = socket[i + 1]
        BY <2>3, <2>4, <2>8
      <4>2. InOrder(socket[1], socket[i + 1])
        BY <2>5, <3>1, <4>1 DEF TagsInOrder
      <4>3. socket'[i].toy # NoToy => shown' <= socket'[i].at
        BY <2>6, <3>1, <4>1, <4>2 DEF TagsInOrder, InOrder
      <4>4. ASSUME NEW j \in DOMAIN socket', i < j
            PROVE  InOrder(socket'[i], socket'[j])
        <5>1. j + 1 \in DOMAIN socket /\ socket'[j] = socket[j + 1]
          BY <2>4, <2>8
        <5>2. i + 1 < j + 1
          BY <2>4, <4>4
        <5>3. QED  BY <3>1, <4>1, <5>1, <5>2 DEF TagsInOrder
      <4>5. QED  BY <2>2, <3>1, <4>1, <4>3, <4>4 DEF TagsInOrder
    <3>3. ASSUME NEW i \in DOMAIN toConsole'
          PROVE  /\ toConsole'[i].toy # NoToy => shown' <= toConsole'[i].at
                 /\ \A j \in DOMAIN toConsole' :
                      i < j => InOrder(toConsole'[i], toConsole'[j])
      <4>1. InOrder(socket[1], toConsole[i])
        BY <2>2, <2>5, <3>1 DEF TagsInOrder
      <4>2. QED  BY <2>2, <2>6, <3>1, <4>1 DEF TagsInOrder, InOrder
    <3>4. QED  BY <3>2, <3>3 DEF TagsInOrder
  <2>11. QED  BY <2>7, <2>9, <2>10
<1>3. QED  BY <1>1, <1>2

(* A datagram that arrives goes behind those in the socket, or is dropped. *)
LEMMA ArriveTruths ==
  ASSUME TypeOK, Truths, NEW i \in Arrivable(toConsole), Arrive(i)
  PROVE  Truths'
<1> USE DEF Truths
<1>1. /\ socket \in Seq(Datagram) /\ toConsole \in Seq(Datagram)
      /\ i \in DOMAIN toConsole /\ toConsole[i] \in Datagram
  BY LenProperties, ElementOfSeq DEF TypeOK, Arrivable
<1>2. /\ UNCHANGED <<zones, padLog, shown>>
      /\ toConsole' = RemoveAt(toConsole, i)
      /\ socket' = socket \/ socket' = Append(socket, toConsole[i])
  BY DEF Arrive, server, game
<1>3. /\ DOMAIN toConsole = 1 .. Len(toConsole) /\ Len(toConsole) \in Nat
      /\ DOMAIN socket = 1 .. Len(socket) /\ Len(socket) \in Nat
  BY <1>1, LenProperties
<1>4. /\ DOMAIN toConsole' = 1 .. Len(toConsole) - 1
      /\ \A j \in DOMAIN toConsole' :
           toConsole'[j] = IF j < i THEN toConsole[j] ELSE toConsole[j + 1]
  BY <1>1, <1>2, RemoveAtFacts, LenProperties
<1>5. /\ DOMAIN socket \subseteq DOMAIN socket'
      /\ \A j \in DOMAIN socket : socket'[j] = socket[j]
      /\ \A j \in DOMAIN socket' \ DOMAIN socket :
           socket'[j] = toConsole[i] /\ j = Len(socket) + 1
  <2>1. CASE socket' = Append(socket, toConsole[i])
    <3>1. /\ socket' \in Seq(Datagram) /\ Len(socket') = Len(socket) + 1
          /\ \A j \in 1 .. Len(socket) : socket'[j] = socket[j]
          /\ socket'[Len(socket) + 1] = toConsole[i]
      BY <1>1, <2>1, AppendProperties
    <3>2. DOMAIN socket' = 1 .. Len(socket) + 1
      BY <3>1, LenProperties
    <3>3. QED  BY <1>3, <3>1, <3>2
  <2>2. QED  BY <1>2, <2>1
<1>6. \A j \in DOMAIN toConsole' :
        /\ j \in DOMAIN toConsole /\ j + 1 \in DOMAIN toConsole
        /\ \E k \in DOMAIN toConsole : toConsole'[j] = toConsole[k]
  BY <1>3, <1>4
<1>7. LogTracksPad'
  BY <1>2 DEF LogTracksPad, CenterToy
<1>8. TagsAreTrue'
  <2>1. \A j \in DOMAIN socket' :
          \/ \E k \in DOMAIN socket : socket'[j] = socket[k]
          \/ socket'[j] = toConsole[i]
    BY <1>5
  <2>2. QED  BY <1>1, <1>2, <1>6, <2>1 DEF TagsAreTrue
<1>9. ASSUME Ordered PROVE TagsInOrder'
  <2>1. TagsInOrder /\ i = 1
    BY <1>9 DEF Arrivable
  <2>2. \A j \in DOMAIN toConsole' :
          /\ toConsole'[j] = toConsole[j + 1]
          /\ j + 1 \in DOMAIN toConsole /\ 1 < j + 1
    BY <1>3, <1>4, <2>1
  <2>3. ASSUME NEW j \in DOMAIN toConsole'
        PROVE  /\ toConsole'[j].toy # NoToy => shown' <= toConsole'[j].at
               /\ \A k \in DOMAIN toConsole' :
                    j < k => InOrder(toConsole'[j], toConsole'[k])
    <3>1. ASSUME NEW k \in DOMAIN toConsole', j < k
          PROVE  j + 1 < k + 1
      BY <1>4, <3>1
    <3>2. QED  BY <1>2, <2>1, <2>2, <3>1 DEF TagsInOrder
  <2>4. ASSUME NEW j \in DOMAIN socket'
        PROVE  /\ socket'[j].toy # NoToy => shown' <= socket'[j].at
               /\ \A k \in DOMAIN socket' :
                    j < k => InOrder(socket'[j], socket'[k])
               /\ \A k \in DOMAIN toConsole' :
                    InOrder(socket'[j], toConsole'[k])
    <3>1. CASE j \in DOMAIN socket
      <4>1. ASSUME NEW k \in DOMAIN socket', j < k
            PROVE  InOrder(socket'[j], socket'[k])
        BY <1>1, <1>5, <2>1, <3>1, <4>1 DEF TagsInOrder
      <4>2. QED  BY <1>2, <1>5, <2>1, <2>2, <3>1, <4>1 DEF TagsInOrder
    <3>2. CASE j \notin DOMAIN socket
      <4>1. socket'[j] = toConsole[1] /\ j = Len(socket) + 1
        BY <1>5, <2>1, <3>2
      <4>2. \A k \in DOMAIN socket' : ~(j < k)
        BY <1>3, <1>5, <4>1
      <4>3. QED  BY <1>1, <1>2, <2>1, <2>2, <4>1, <4>2 DEF TagsInOrder
    <3>3. QED  BY <3>1, <3>2
  <2>5. QED  BY <2>3, <2>4 DEF TagsInOrder
<1>10. QED  BY <1>7, <1>8, <1>9

(* A reply joins the end of the channel and shows the latest moment.       *)
LEMMA ServerTruths ==
  ASSUME TypeOK, Truths,
         (\E i \in Arrivable(toServer) : Handle(i)) \/ Beacon
  PROVE  Truths'
<1> USE DEF Truths
<1>1. PICK d \in Datagram :
        /\ Reply(d)
        /\ d.toy # NoToy => d.at = Len(padLog) /\ d.toy = padLog[Len(padLog)]
  BY ServerSends
<1>2. UNCHANGED <<socket, padLog, zones, shown>>
  BY ServerSends DEF game
<1>3. PICK o \in {0, 1} : \A j \in DOMAIN toConsole' :
        \/ j + o \in DOMAIN toConsole /\ toConsole'[j] = toConsole[j + o]
        \/ j = Len(toConsole') /\ toConsole'[j] = d
  BY <1>1, ReplyFacts
<1>4. toConsole' \in Seq(Datagram)
  BY ServerTypeStep DEF TypeOK
<1>5. /\ DOMAIN padLog = 1 .. Len(padLog) /\ Len(padLog) \in Nat \ {0}
      /\ DOMAIN toConsole = 1 .. Len(toConsole) /\ Len(toConsole) \in Nat
      /\ DOMAIN toConsole' = 1 .. Len(toConsole') /\ Len(toConsole') \in Nat
  BY <1>4, LenProperties, EmptySeq DEF TypeOK
<1>6. LogTracksPad'
  BY <1>2 DEF LogTracksPad, CenterToy
<1>7. TagsAreTrue'
  <2>1. ASSUME NEW j \in DOMAIN toConsole', toConsole'[j].toy # NoToy
        PROVE  /\ toConsole'[j].at \in DOMAIN padLog
               /\ padLog[toConsole'[j].at] = toConsole'[j].toy
    BY <1>1, <1>3, <1>5, <2>1 DEF TagsAreTrue
  <2>2. QED  BY <1>2, <2>1 DEF TagsAreTrue
<1>8. ASSUME Ordered PROVE TagsInOrder'
  <2>1. TagsInOrder
    BY <1>8
  <2>2. ASSUME NEW q \in {toConsole, socket}, NEW i \in DOMAIN q
        PROVE  InOrder(q[i], d)
    BY <1>1, <1>5 DEF InOrder, TagsAreTrue
  <2>3. d.toy # NoToy => shown <= d.at
    BY <1>1, <1>5 DEF LogTracksPad
  <2>4. ASSUME NEW i \in DOMAIN toConsole'
        PROVE  /\ toConsole'[i].toy # NoToy => shown' <= toConsole'[i].at
               /\ \A j \in DOMAIN toConsole' :
                    i < j => InOrder(toConsole'[i], toConsole'[j])
    <3>1. toConsole'[i].toy # NoToy => shown' <= toConsole'[i].at
      BY <1>2, <1>3, <2>1, <2>3 DEF TagsInOrder
    <3>2. ASSUME NEW j \in DOMAIN toConsole', i < j
          PROVE  InOrder(toConsole'[i], toConsole'[j])
      <4>1. i # Len(toConsole') /\ i + o < j + o
        BY <1>5, <3>2
      <4>2. i + o \in DOMAIN toConsole /\ toConsole'[i] = toConsole[i + o]
        BY <1>3, <4>1
      <4>3. CASE j + o \in DOMAIN toConsole /\ toConsole'[j] = toConsole[j + o]
        BY <2>1, <4>1, <4>2, <4>3 DEF TagsInOrder
      <4>4. CASE toConsole'[j] = d
        BY <2>2, <4>2, <4>4
      <4>5. QED  BY <1>3, <4>3, <4>4
    <3>3. QED  BY <3>1, <3>2
  <2>5. ASSUME NEW i \in DOMAIN socket, NEW j \in DOMAIN toConsole'
        PROVE  InOrder(socket[i], toConsole'[j])
    BY <1>3, <2>1, <2>2 DEF TagsInOrder
  <2>6. QED  BY <1>2, <2>1, <2>4, <2>5 DEF TagsInOrder
<1>9. QED  BY <1>6, <1>7, <1>8

(* An edit or a restart adds at most one entry to the log.                 *)
LEMMA EditTruths ==
  ASSUME TypeOK, Truths, TypeOK', LogCenter, UNCHANGED <<network, game>>
  PROVE  Truths'
<1> USE DEF Truths
<1>1. UNCHANGED <<toConsole, socket, shown>>
  BY DEF network, game
<1>2. CASE CenterToy' = CenterToy /\ padLog' = padLog
  BY <1>1, <1>2 DEF LogTracksPad, TagsAreTrue, TagsInOrder, InOrder
<1>3. CASE padLog' = Append(padLog, CenterToy')
  <2>1. CenterToy' \in Toy \union {NoToy}
    BY CenterSlot DEF TypeOK, ZonesType, CenterToy
  <2>2. /\ Len(padLog') = Len(padLog) + 1
        /\ padLog'[Len(padLog) + 1] = CenterToy'
        /\ \A i \in DOMAIN padLog : i \in DOMAIN padLog' /\ padLog'[i] = padLog[i]
    BY <1>3, <2>1, LogGrows
  <2>3. LogTracksPad' /\ TagsAreTrue'
    BY <1>1, <2>2 DEF LogTracksPad, TagsAreTrue
  <2>4. QED  BY <1>1, <2>3 DEF TagsInOrder, InOrder
<1>4. QED  BY <1>2, <1>3 DEF LogCenter

(* No step spoils the invariant.                                           *)
LEMMA InvStep == IInv /\ [Next]_vars => IInv'
<1> SUFFICES ASSUME TypeOK, Truths, [Next]_vars PROVE TypeOK' /\ Truths'
  BY DEF IInv, Truths
<1>1. TypeOK'
  BY TypeStep
<1>2. CASE UNCHANGED vars \/ InPoll \/ OutTransfer \/ Keepalive
  <2>1. UNCHANGED <<toConsole, socket, padLog, zones, shown>>
    BY <1>2
       DEF vars, server, network, game, InPoll, OutTransfer, Keepalive
  <2>2. QED
    BY <1>1, <2>1
       DEF Truths, LogTracksPad, TagsAreTrue, TagsInOrder, InOrder, CenterToy
<1>3. CASE UserEdits \/ ServerRestart
  BY <1>1, <1>3, EditTruths DEF UserEdits, ServerRestart, network, game
<1>4. QED
  BY <1>1, <1>2, <1>3, ReceiveTruths, ArriveTruths, ServerTruths DEF Next

(* The inductive invariant: whatever is lost, delayed or reordered, every  *)
(* tag between server and game is one the centre zone carried, and on an   *)
(* ordered network the game will meet them in the order of the pad.        *)
THEOREM TagsStayTrue == Spec => []IInv
<1>1. Init => IInv
  BY TypeInit, TruthsInit DEF IInv, Truths
<1>2. QED  BY <1>1, InvStep, PTL DEF Spec

(* No tag the game can still receive was invented: the property the runs   *)
(* check as TagsAreTrue.                                                   *)
THEOREM NoInventedTag == Spec => []TagsAreTrue
BY TagsStayTrue, PTL DEF IInv

-----------------------------------------------------------------------------
(* Outdated replies run out.                                               *)

(* There are at most as many outdated replies as there are datagrams.      *)
LEMMA OldCount ==
  ASSUME NEW q \in Seq(Datagram)
  PROVE  /\ IsFiniteSet(OldIn(q))
         /\ Cardinality(OldIn(q)) \in Nat /\ Cardinality(OldIn(q)) <= Len(q)
<1>1. DOMAIN q = 1 .. Len(q) /\ Len(q) \in Nat
  BY LenProperties
<1>2. IsFiniteSet(1 .. Len(q)) /\ Cardinality(1 .. Len(q)) = Len(q)
  BY <1>1, FS_Interval
<1>3. OldIn(q) \in SUBSET (1 .. Len(q))
  BY <1>1 DEF OldIn
<1>4. QED  BY <1>2, <1>3, FS_Subset, FS_CardinalityType

(* A set whose members come, each from another one, out of a finite set.   *)
LEMMA NoMore ==
  ASSUME NEW A, NEW B, IsFiniteSet(B), NEW f \in [A -> B],
         \A x, y \in A : f[x] = f[y] => x = y
  PROVE  IsFiniteSet(A) /\ Cardinality(A) <= Cardinality(B)
<1>1. f \in Injection(A, B)
  BY DEF Injection, IsInjective
<1>2. QED  BY <1>1, FS_Injection

(* A receive takes one datagram away, and an outdated tag if it shows one. *)
LEMMA ReceiveLag ==
  ASSUME TypeOK, InReceive
  PROVE  Lag' + (IF ShowsOld THEN 1 ELSE 0) <= Lag
<1> DEFINE old == OldIn(socket)
           rest == OldIn(toConsole)
<1>1. /\ socket \in Seq(Datagram) /\ toConsole \in Seq(Datagram)
      /\ UNCHANGED <<padLog, toConsole>>
  BY DEF TypeOK, InReceive, server
<1>2. /\ IsFiniteSet(old) /\ Cardinality(old) \in Nat
      /\ Cardinality(rest) \in Nat /\ rest' = rest
  BY <1>1, OldCount DEF OldIn
<1>3. CASE socket = <<>>
  <2>1. socket' = socket /\ report'.kind # "tag"
    BY <1>3 DEF InReceive, Recv, Pad!Dummy
  <2>2. Lag' = Lag /\ ~ShowsOld
    BY <1>1, <2>1 DEF Lag, OldIn, ShowsOld
  <2>3. QED  BY <1>2, <2>2 DEF Lag
<1>4. CASE socket # <<>>
  <2>1. /\ Head(socket) = socket[1] /\ 1 \in DOMAIN socket
        /\ DOMAIN socket = 1 .. Len(socket) /\ Len(socket) \in Nat \ {0}
    BY <1>1, <1>4, LenProperties, EmptySeq
  <2>2. /\ DOMAIN socket' = 1 .. Len(socket) - 1
        /\ \A j \in DOMAIN socket' : socket'[j] = socket[j + 1]
    <3>1. /\ Tail(socket) \in Seq(Datagram)
          /\ Len(Tail(socket)) = Len(socket) - 1
          /\ \A j \in 1 .. Len(Tail(socket)) : Tail(socket)[j] = socket[j + 1]
      BY <1>1, <1>4, HeadTailProperties
    <3>2. socket' = Tail(socket)
      BY <1>4 DEF InReceive, Recv
    <3>3. QED  BY <3>1, <3>2, LenProperties
  <2> DEFINE f == [j \in old' |-> j + 1]
  <2>3. /\ IsFiniteSet(old \ {1})
        /\ Cardinality(old \ {1})
             = IF 1 \in old THEN Cardinality(old) - 1 ELSE Cardinality(old)
    BY <1>2, FS_RemoveElement
  <2>4. f \in [old' -> old \ {1}]
    BY <1>1, <2>1, <2>2 DEF OldIn
  <2>5. \A x, y \in old' : f[x] = f[y] => x = y
    BY <2>2 DEF OldIn
  <2>6. Cardinality(old') <= Cardinality(old \ {1})
    <3> HIDE DEF f
    <3>1. QED  BY <2>3, <2>4, <2>5, NoMore
  <2>7. ShowsOld => 1 \in old
    <3>1. ASSUME ShowsOld PROVE 1 \in old
      <4>1. /\ report' = ReportOf(socket[1]) /\ report'.kind = "tag"
            /\ shown' = socket[1].at /\ shown' < Len(padLog)
        BY <1>1, <1>4, <2>1, <3>1 DEF InReceive, Recv, ShowsOld
      <4>2. socket[1].toy # NoToy
        BY <4>1 DEF ReportOf, Pad!Dummy, Pad!Blank
      <4>3. QED  BY <2>1, <4>1, <4>2 DEF OldIn
    <3>2. QED  BY <3>1
  <2>8. socket' \in Seq(Datagram)
    BY <1>1, <1>4, HeadTailProperties DEF InReceive, Recv
  <2>9. Cardinality(old') \in Nat
    <3>1. IsFiniteSet(old')
      <4> HIDE DEF f
      <4>1. QED  BY <2>3, <2>4, <2>5, NoMore
    <3>2. QED  BY <3>1, FS_CardinalityType
  <2>10. Lag = Cardinality(old) + Cardinality(rest)
         /\ Lag' = Cardinality(old') + Cardinality(rest)
    BY <1>2 DEF Lag
  <2> HIDE DEF old, rest
  <2>11. QED  BY <1>2, <2>3, <2>6, <2>7, <2>9, <2>10
<1>5. QED  BY <1>3, <1>4

(* An arrival moves a datagram, or loses it.                               *)
LEMMA ArriveLag ==
  ASSUME TypeOK, NEW i \in Arrivable(toConsole), Arrive(i)
  PROVE  Lag' <= Lag
<1> DEFINE here == OldIn(socket)
           there == OldIn(toConsole)
<1>1. /\ socket \in Seq(Datagram) /\ toConsole \in Seq(Datagram)
      /\ i \in DOMAIN toConsole /\ toConsole[i] \in Datagram
      /\ UNCHANGED padLog
  BY LenProperties, ElementOfSeq DEF TypeOK, Arrivable, Arrive, server
<1>2. /\ IsFiniteSet(here) /\ Cardinality(here) \in Nat
      /\ IsFiniteSet(there) /\ Cardinality(there) \in Nat
  BY <1>1, OldCount
<1>3. /\ DOMAIN toConsole = 1 .. Len(toConsole) /\ Len(toConsole) \in Nat
      /\ DOMAIN socket = 1 .. Len(socket) /\ Len(socket) \in Nat
      /\ DOMAIN toConsole' = 1 .. Len(toConsole) - 1
      /\ \A j \in DOMAIN toConsole' :
           toConsole'[j] = IF j < i THEN toConsole[j] ELSE toConsole[j + 1]
  BY <1>1, RemoveAtFacts, LenProperties DEF Arrive
<1> DEFINE f == [j \in there' |-> IF j < i THEN j ELSE j + 1]
<1>4. /\ IsFiniteSet(there \ {i})
      /\ Cardinality(there \ {i})
           = IF i \in there THEN Cardinality(there) - 1 ELSE Cardinality(there)
  BY <1>2, FS_RemoveElement
<1>5. f \in [there' -> there \ {i}]
  <2>1. ASSUME NEW j \in there'
        PROVE  (IF j < i THEN j ELSE j + 1) \in there \ {i}
    <3>1. j \in DOMAIN toConsole' /\ toConsole'[j].toy # NoToy
          /\ toConsole'[j].at < Len(padLog)
      BY <1>1 DEF OldIn
    <3>2. CASE j < i
      BY <1>1, <1>3, <3>1, <3>2 DEF OldIn
    <3>3. CASE ~(j < i)
      BY <1>1, <1>3, <3>1, <3>3 DEF OldIn
    <3>4. QED  BY <3>2, <3>3
  <2>2. QED  BY <2>1
<1>6. \A x, y \in there' : f[x] = f[y] => x = y
  BY <1>1, <1>3 DEF OldIn
<1>7. /\ IsFiniteSet(there') /\ Cardinality(there') \in Nat
      /\ Cardinality(there') <= Cardinality(there \ {i})
  <2> HIDE DEF f
  <2>1. IsFiniteSet(there') /\ Cardinality(there') <= Cardinality(there \ {i})
    BY <1>4, <1>5, <1>6, NoMore
  <2>2. QED  BY <2>1, FS_CardinalityType
<1> DEFINE more == here \union (IF i \in there THEN {Len(socket) + 1} ELSE {})
<1>8. here' \subseteq more
  <2>1. CASE socket' = socket
    BY <1>1, <2>1 DEF OldIn
  <2>2. CASE socket' = Append(socket, toConsole[i])
    <3>1. /\ socket' \in Seq(Datagram) /\ Len(socket') = Len(socket) + 1
          /\ \A j \in 1 .. Len(socket) : socket'[j] = socket[j]
          /\ socket'[Len(socket) + 1] = toConsole[i]
      BY <1>1, <2>2, AppendProperties
    <3>2. DOMAIN socket' = 1 .. Len(socket) + 1
      BY <3>1, LenProperties
    <3>3. ASSUME NEW j \in here' PROVE j \in more
      <4>1. /\ j \in 1 .. Len(socket) + 1 /\ socket'[j].toy # NoToy
            /\ socket'[j].at < Len(padLog)
        BY <1>1, <3>2 DEF OldIn
      <4>2. CASE j = Len(socket) + 1
        BY <1>1, <3>1, <4>1, <4>2 DEF OldIn
      <4>3. CASE j \in 1 .. Len(socket)
        BY <1>3, <3>1, <4>1, <4>3 DEF OldIn
      <4>4. QED  BY <1>3, <4>1, <4>2, <4>3
    <3>4. QED  BY <3>3
  <2>3. QED  BY <2>1, <2>2 DEF Arrive
<1>9. /\ IsFiniteSet(more) /\ Cardinality(more) \in Nat
      /\ Cardinality(more)
           <= Cardinality(here) + (IF i \in there THEN 1 ELSE 0)
  <2> HIDE DEF here, there
  <2>1. CASE i \in there
    <3>1. /\ IsFiniteSet(here \union {Len(socket) + 1})
          /\ Cardinality(here \union {Len(socket) + 1})
               = IF Len(socket) + 1 \in here
                 THEN Cardinality(here) ELSE Cardinality(here) + 1
      BY <1>2, FS_AddElement
    <3>2. QED  BY <1>2, <2>1, <3>1
  <2>2. CASE i \notin there
    <3>1. more = here
      BY <2>2
    <3>2. QED  BY <1>2, <2>2, <3>1
  <2>3. QED  BY <2>1, <2>2
<1>10. Cardinality(here') \in Nat /\ Cardinality(here') <= Cardinality(more)
  <2> HIDE DEF more
  <2>1. here' \in SUBSET more
    BY <1>8
  <2>2. QED  BY <1>9, <2>1, FS_Subset, FS_CardinalityType
<1>11. Lag = Cardinality(here) + Cardinality(there)
       /\ Lag' = Cardinality(here') + Cardinality(there')
  BY DEF Lag
<1> HIDE DEF here, there, more
<1>12. QED  BY <1>2, <1>4, <1>7, <1>9, <1>10, <1>11

(* What the server sends is not outdated, and may push out what is.        *)
LEMMA ServerLag ==
  ASSUME TypeOK, TypeOK', LogTracksPad,
         (\E i \in Arrivable(toServer) : Handle(i)) \/ Beacon
  PROVE  Lag' <= Lag
<1> DEFINE there == OldIn(toConsole)
<1>1. PICK d \in Datagram :
        /\ Reply(d)
        /\ d.toy # NoToy => d.at = Len(padLog) /\ d.toy = padLog[Len(padLog)]
  BY ServerSends
<1>2. UNCHANGED <<socket, padLog>>
  BY ServerSends
<1>3. PICK o \in {0, 1} : \A j \in DOMAIN toConsole' :
        \/ j + o \in DOMAIN toConsole /\ toConsole'[j] = toConsole[j + o]
        \/ j = Len(toConsole') /\ toConsole'[j] = d
  BY <1>1, ReplyFacts
<1>4. /\ toConsole \in Seq(Datagram) /\ toConsole' \in Seq(Datagram)
      /\ socket \in Seq(Datagram) /\ Len(padLog) \in Nat
      /\ DOMAIN toConsole' = 1 .. Len(toConsole') /\ Len(toConsole') \in Nat
  BY LenProperties DEF TypeOK
<1>5. /\ IsFiniteSet(there) /\ Cardinality(there) \in Nat
      /\ Cardinality(OldIn(socket)) \in Nat
  BY <1>4, OldCount
<1> DEFINE f == [j \in there' |-> j + o]
<1>6. f \in [there' -> there]
  <2>1. ASSUME NEW j \in there' PROVE j + o \in there
    <3>1. /\ j \in DOMAIN toConsole' /\ toConsole'[j].toy # NoToy
          /\ toConsole'[j].at < Len(padLog)
      BY <1>2 DEF OldIn
    <3>2. toConsole'[j] # d
      BY <1>1, <1>4, <3>1
    <3>3. QED  BY <1>3, <3>1, <3>2 DEF OldIn
  <2>2. QED  BY <2>1
<1>7. \A x, y \in there' : f[x] = f[y] => x = y
  <2>1. \A x \in there' : x \in Nat
    BY <1>4 DEF OldIn
  <2>2. QED  BY <2>1
<1>8. Cardinality(there') \in Nat /\ Cardinality(there') <= Cardinality(there)
  <2> HIDE DEF f, there
  <2>1. IsFiniteSet(there') /\ Cardinality(there') <= Cardinality(there)
    BY <1>5, <1>6, <1>7, NoMore
  <2>2. QED  BY <2>1, FS_CardinalityType
<1>9. OldIn(socket)' = OldIn(socket)
  BY <1>2 DEF OldIn
<1>10. QED  BY <1>5, <1>8, <1>9 DEF Lag

(* Without a change of the pad no step makes a reply outdated, and one     *)
(* that is shown is gone.                                                  *)
LEMMA LagStep ==
  ASSUME TypeOK, TypeOK', LogTracksPad, [Next]_vars, UNCHANGED padLog
  PROVE  Lag' + (IF ShowsOld THEN 1 ELSE 0) <= Lag
<1>0. Lag \in Nat /\ Lag' \in Nat
  <2>1. /\ socket \in Seq(Datagram) /\ toConsole \in Seq(Datagram)
        /\ socket' \in Seq(Datagram) /\ toConsole' \in Seq(Datagram)
    BY DEF TypeOK
  <2>2. Lag \in Nat
    BY <2>1, OldCount DEF Lag
  <2>3. OldIn(socket)' = OldIn(socket') /\ OldIn(toConsole)' = OldIn(toConsole')
    BY DEF OldIn
  <2>4. Cardinality(OldIn(socket')) \in Nat /\ Cardinality(OldIn(toConsole')) \in Nat
    BY <2>1, OldCount
  <2>5. QED  BY <2>2, <2>3, <2>4 DEF Lag
<1>1. CASE InReceive
  BY <1>1, ReceiveLag
<1>2. CASE \E i \in Arrivable(toConsole) : Arrive(i)
  <2>1. Lag' <= Lag
    BY <1>2, ArriveLag
  <2>0. ~ShowsOld
    BY <1>2 DEF Arrive, game, ShowsOld
  <2>2. (IF ShowsOld THEN 1 ELSE 0) = 0
    BY <2>0
  <2>3. Lag' + 0 <= Lag
    <3> DEFINE now == Lag
               next == Lag'
    <3>1. now \in Nat /\ next \in Nat /\ next <= now
      BY <1>0, <2>1
    <3> HIDE DEF now, next
    <3>2. next + 0 <= now
      BY <3>1
    <3>3. QED  BY <3>2 DEF now, next
  <2>4. QED  BY <2>2, <2>3
<1>3. CASE (\E i \in Arrivable(toServer) : Handle(i)) \/ Beacon
  <2>1. Lag' <= Lag
    BY <1>3, ServerLag
  <2>0. ~ShowsOld
    BY <1>3, ServerSends DEF game, ShowsOld
  <2>2. (IF ShowsOld THEN 1 ELSE 0) = 0
    BY <2>0
  <2>3. Lag' + 0 <= Lag
    <3> DEFINE now == Lag
               next == Lag'
    <3>1. now \in Nat /\ next \in Nat /\ next <= now
      BY <1>0, <2>1
    <3> HIDE DEF now, next
    <3>2. next + 0 <= now
      BY <3>1
    <3>3. QED  BY <3>2 DEF now, next
  <2>4. QED  BY <2>2, <2>3
<1>4. CASE \/ UNCHANGED vars \/ InPoll \/ OutTransfer \/ Keepalive
           \/ UserEdits \/ ServerRestart
  <2>1. UNCHANGED <<toConsole, socket>> /\ ~ShowsOld
    BY <1>4 DEF vars, network, game, InPoll, OutTransfer, Keepalive, UserEdits,
                ServerRestart, ShowsOld
  <2>2. Lag' = Lag
    BY <2>1 DEF Lag, OldIn
  <2>3. (IF ShowsOld THEN 1 ELSE 0) = 0
    BY <2>1
  <2>4. QED  BY <1>0, <2>2, <2>3
<1>5. QED  BY <1>1, <1>2, <1>3, <1>4 DEF Next

(* The number of outdated replies never exceeds the two buffers, and while *)
(* the centre zone is left alone it only falls, by one for each that the   *)
(* game is shown: a removed toy can be shown no more often than there were *)
(* replies under way when it was removed, for any size of the buffers.     *)
THEOREM OldRepliesDrain == Spec => OldRepliesRunOut
<1>1. TypeOK => Lag <= SocketCap + DownCap
  <2> SUFFICES ASSUME TypeOK PROVE Lag <= SocketCap + DownCap
    OBVIOUS
  <2>1. /\ socket \in Seq(Datagram) /\ Len(socket) <= SocketCap
        /\ toConsole \in Seq(Datagram) /\ Len(toConsole) <= DownCap
        /\ SocketCap \in Nat /\ DownCap \in Nat
    BY BridgeAssumption DEF TypeOK
  <2>2. Len(socket) \in Nat /\ Len(toConsole) \in Nat
    BY <2>1, LenProperties
  <2>3. QED  BY <2>1, <2>2, OldCount DEF Lag
<1>2. IInv /\ IInv' /\ [Next]_vars
        => [UNCHANGED padLog
              => Lag' + (IF ShowsOld THEN 1 ELSE 0) <= Lag]_vars
  BY LagStep DEF IInv
<1>3. IInv => TypeOK
  BY DEF IInv
<1>4. QED  BY <1>1, <1>2, <1>3, TagsStayTrue, PTL DEF Spec, OldRepliesRunOut

-----------------------------------------------------------------------------
(* The bridge implements ToyPad.                                           *)

(* The bridge starts as the abstract pad does.                             *)
LEMMA PadInit == Init => Pad!Init
BY DEF Init, Pad!Init

(* Every step of the bridge is a step of the abstract pad, or a stutter.   *)
LEMMA PadStep == IInv /\ IInv' /\ [Next]_vars => [Pad!Next]_(Pad!vars)
<1> SUFFICES ASSUME IInv, IInv', [Next]_vars PROVE [Pad!Next]_(Pad!vars)
  OBVIOUS
<1> USE DEF IInv, Pad!vars
<1>1. CASE InReceive
  <2>1. CASE socket = <<>>
    BY <1>1, <2>1 DEF InReceive, Recv, server, Pad!Next, Pad!ReportNothing
  <2>2. CASE socket # <<>> /\ ReportOf(Head(socket)).kind # "tag"
    BY <1>1, <2>2
       DEF InReceive, Recv, server, ReportOf, Pad!Next, Pad!ReportNothing, Pad!Tag
  <2>3. CASE socket # <<>> /\ ReportOf(Head(socket)).kind = "tag"
    <3>1. 1 \in DOMAIN socket /\ Head(socket) = socket[1]
          /\ socket[1] \in Datagram
      BY <2>3, LenProperties, EmptySeq, ElementOfSeq DEF TypeOK
    <3>2. ReportOf(socket[1]) = Pad!Tag(socket[1].toy) /\ socket[1].toy # NoToy
      BY <2>3, <3>1 DEF ReportOf, Pad!Dummy, Pad!Blank
    <3>3. /\ socket[1].at \in DOMAIN padLog
          /\ padLog[socket[1].at] = socket[1].toy
          /\ Ordered => socket[1].at >= shown
      <4>1. DOMAIN padLog = 1 .. Len(padLog)
        BY LenProperties DEF TypeOK
      <4>2. QED
        BY <3>1, <3>2, <4>1 DEF TagsAreTrue, TagsInOrder, LogTracksPad
    <3>4. socket[1].at \in 1 .. Len(padLog) /\ socket[1].toy \in Toy
      BY <3>1, <3>2, <3>3, LenProperties DEF TypeOK, Datagram
    <3>5. /\ report' = Pad!Tag(padLog[socket[1].at])
          /\ shown' = socket[1].at /\ padLog' = padLog
      BY <1>1, <2>3, <3>1, <3>2, <3>3 DEF InReceive, Recv, server
    <3>6. QED
      BY <3>3, <3>4, <3>5 DEF Pad!Next, Pad!ReportTag
  <2>4. QED  BY <2>1, <2>2, <2>3
<1>2. CASE UserEdits \/ ServerRestart
  <2>1. UNCHANGED <<report, shown>> /\ LogCenter
    BY <1>2 DEF UserEdits, ServerRestart, game
  <2>2. CenterToy' \in Toy \union {NoToy}
    BY CenterSlot DEF TypeOK, ZonesType, CenterToy
  <2>3. QED  BY <2>1, <2>2 DEF LogCenter, Pad!Next, Pad!PadChanges
<1>3. CASE (\E i \in Arrivable(toServer) : Handle(i)) \/ Beacon
  BY <1>3, ServerSends DEF game
<1>4. CASE \/ UNCHANGED vars \/ InPoll \/ OutTransfer \/ Keepalive
           \/ \E i \in Arrivable(toConsole) : Arrive(i)
  BY <1>4 DEF vars, server, game, InPoll, OutTransfer, Keepalive, Arrive
<1>5. QED  BY <1>1, <1>2, <1>3, <1>4 DEF Next

(* The bridge is a toy pad: each report the game is woken with shows the   *)
(* centre zone as it was at some moment, or nothing, and on an ordered     *)
(* network the moments never go back.                                      *)
THEOREM BridgeIsAToyPad == Spec => IsAToyPad
<1>1. IInv /\ IInv' /\ [Next]_vars => [Pad!Next]_(Pad!vars)
  BY PadStep
<1>2. Init => Pad!Init
  BY PadInit
<1>3. Spec => []IInv
  BY TagsStayTrue
<1>4. QED  BY <1>1, <1>2, <1>3, PTL DEF Spec, IsAToyPad, Pad!Spec

=============================================================================
