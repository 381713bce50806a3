------------------------- MODULE Registration_proofs -------------------------
(***************************************************************************)
(* Proofs about Registration, for every set of machines and any number of  *)
(* restarts, whether or not the server runs at the address it has written  *)
(* into it.                                                                *)
(***************************************************************************)
EXTENDS Registration, SequenceTheorems, FiniteSetTheorems, TLAPS

(* What the socket buffer holds are packets, whatever is appended or lost. *)
LEMMA DeliverType ==
  ASSUME NEW p \in Packet, inbox \in Seq(Packet), Len(inbox) <= InCap, Deliver(p)
  PROVE  inbox' \in Seq(Packet) /\ Len(inbox') <= InCap
<1>1. InCap \in Nat
  BY RegistrationAssumption
<1>2. CASE inbox' = inbox
  BY <1>2
<1>3. CASE Len(inbox) < InCap /\ inbox' = Append(inbox, p)
  BY <1>1, <1>3
<1>4. QED  BY <1>2, <1>3 DEF Deliver

(* Handling a packet keeps the registered client an address, or none.      *)
LEMMA HandleType ==
  ASSUME TypeOK, Handle
  PROVE  TypeOK'
<1> DEFINE p == Head(inbox)
<1>1. inbox \in Seq(Packet) /\ inbox # <<>> /\ Len(inbox) <= InCap /\ InCap \in Nat
  BY RegistrationAssumption DEF TypeOK, Handle
<1>2. p \in Packet
  BY <1>1
<1>3. p.from \in Address
  BY <1>2 DEF Packet
<1>4. Tail(inbox) \in Seq(Packet) /\ Len(Tail(inbox)) < InCap
  BY <1>1
<1>5. /\ Append(Tail(inbox), p) \in Seq(Packet)
      /\ Len(Append(Tail(inbox), p)) <= InCap
  BY <1>1, <1>2, <1>4
<1>6. inbox' \in {Tail(inbox), Append(Tail(inbox), p)}
  BY DEF Handle
<1>7. inbox' \in Seq(Packet) /\ Len(inbox') <= InCap
  BY <1>1, <1>4, <1>5, <1>6
<1>8. /\ client' \in Address \union {NoAddress} /\ heard' \subseteq Address
      /\ restarts' = restarts /\ fixed' = fixed
  BY <1>3 DEF Handle, TypeOK
<1>9. mail' \in [Talker \union {Loopback} -> SUBSET Mail]
  <2>1. \/ mail' = mail
        \/ p.from # Self /\ mail' = [mail EXCEPT ![p.from] = @ \union {"answer"}]
    BY DEF Handle
  <2>2. p.from # Self => p.from \in Talker \union {Loopback}
    BY <1>3 DEF Address
  <2>3. QED  BY <2>1, <2>2 DEF TypeOK, Mail
<1>10. QED  BY <1>7, <1>8, <1>9 DEF TypeOK

(* Type correctness: the socket buffer keeps within its size and what is   *)
(* registered is an address, whoever sends what and when.                  *)
THEOREM TypeCorrect == Spec => []TypeOK
<1>1. Init => TypeOK
  BY RegistrationAssumption DEF Init, TypeOK, Mail
<1>2. TypeOK /\ [Next]_vars => TypeOK'
  <2> SUFFICES ASSUME TypeOK, [Next]_vars PROVE TypeOK'
    OBVIOUS
  <2>1. ASSUME NEW a \in Talker \union {Loopback}, NEW kind \in Kind, Talk(a, kind)
        PROVE  TypeOK'
    <3>1. [from |-> a, kind |-> kind] \in Packet
      BY DEF Packet, Address
    <3>2. inbox' \in Seq(Packet) /\ Len(inbox') <= InCap
      BY <2>1, <3>1, DeliverType DEF Talk, TypeOK
    <3>3. QED  BY <2>1, <3>2 DEF Talk, TypeOK
  <2>2. ASSUME NEW a \in Talker \union {Loopback}, NEW m \in Mail, Receive(a, m)
        PROVE  TypeOK'
    BY <2>2 DEF Receive, TypeOK
  <2>3. CASE Beacon
    <3>1. [from |-> Self, kind |-> "discovery"] \in Packet
      BY DEF Packet, Address, Kind
    <3>2. inbox' \in Seq(Packet) /\ Len(inbox') <= InCap
      BY <2>3, <3>1, DeliverType DEF Beacon, TypeOK
    <3>3. mail' \in [Talker \union {Loopback} -> SUBSET Mail]
      BY <2>3 DEF Beacon, TypeOK, Mail
    <3>4. QED  BY <2>3, <3>2, <3>3 DEF Beacon, TypeOK
  <2>4. CASE Handle
    BY <2>4, HandleType
  <2>5. CASE Restart
    BY <2>5, RegistrationAssumption DEF Restart, TypeOK
  <2>6. CASE UNCHANGED vars
    BY <2>6 DEF vars, TypeOK
  <2>7. QED  BY <2>1, <2>2, <2>3, <2>4, <2>5, <2>6 DEF Next
<1>3. QED  BY <1>1, <1>2, PTL DEF Spec

(* A started server has a client exactly if it has handled a packet of an  *)
(* address outside its list, and then one that sent such a packet; whether *)
(* that can be the server itself depends on its address (server.js:466).   *)
THEOREM ClientSpoke == Spec => []ClientHasSpoken
<1>1. Init => ClientHasSpoken
  BY DEF Init, ClientHasSpoken
<1>2. TypeOK /\ ClientHasSpoken /\ [Next]_vars => ClientHasSpoken'
  <2> SUFFICES ASSUME TypeOK, ClientHasSpoken, [Next]_vars PROVE ClientHasSpoken'
    OBVIOUS
  <2>1. CASE Handle
    <3>1. inbox \in Seq(Packet) /\ inbox # <<>>
      BY <2>1 DEF Handle, TypeOK
    <3>2. Head(inbox) \in Packet
      BY <3>1
    <3>3. Head(inbox).from \in Address /\ NoAddress \notin Address
      BY <3>2, RegistrationAssumption DEF Packet
    <3>4. QED  BY <2>1, <3>3 DEF Handle, ClientHasSpoken, Skipped
  <2>2. CASE Restart
    BY <2>2 DEF Restart, ClientHasSpoken
  <2>3. CASE ~Handle /\ ~Restart
    BY <2>3 DEF Next, Talk, Receive, Beacon, vars, ClientHasSpoken, Skipped
  <2>4. QED  BY <2>1, <2>2, <2>3
<1>3. QED  BY <1>1, <1>2, TypeCorrect, PTL DEF Spec

-----------------------------------------------------------------------------
(* Counting the server's own packets in its socket.                        *)

EchoesIn(box) == {i \in DOMAIN box : box[i].from = Self}

LEMMA EchoCount ==
  ASSUME NEW box \in Seq(Packet)
  PROVE  IsFiniteSet(EchoesIn(box)) /\ Cardinality(EchoesIn(box)) \in Nat
<1>1. DOMAIN box = 1 .. Len(box) /\ Len(box) \in Nat
  BY LenProperties
<1>2. IsFiniteSet(1 .. Len(box))
  BY <1>1, FS_Interval
<1>3. EchoesIn(box) \subseteq 1 .. Len(box)
  BY <1>1 DEF EchoesIn
<1>4. QED  BY <1>2, <1>3, FS_Subset, FS_CardinalityType

(* Somebody else's packet adds none, one of the server's own adds one.     *)
LEMMA EchoAppend ==
  ASSUME NEW box \in Seq(Packet), NEW p \in Packet
  PROVE  Cardinality(EchoesIn(Append(box, p)))
           <= Cardinality(EchoesIn(box)) + (IF p.from = Self THEN 1 ELSE 0)
<1> DEFINE n == Len(box) + 1
           more == EchoesIn(box) \union (IF p.from = Self THEN {n} ELSE {})
<1>1. /\ DOMAIN box = 1 .. Len(box) /\ Len(box) \in Nat
      /\ Append(box, p) \in Seq(Packet) /\ DOMAIN Append(box, p) = 1 .. n
      /\ \A j \in 1 .. Len(box) : Append(box, p)[j] = box[j]
      /\ Append(box, p)[n] = p
  BY LenProperties, AppendProperties
<1>2. EchoesIn(Append(box, p)) \subseteq more
  BY <1>1 DEF EchoesIn
<1>3. IsFiniteSet(EchoesIn(box)) /\ Cardinality(EchoesIn(box)) \in Nat
  BY EchoCount
<1>4. /\ IsFiniteSet(more) /\ Cardinality(more) \in Nat
      /\ Cardinality(more)
           <= Cardinality(EchoesIn(box)) + (IF p.from = Self THEN 1 ELSE 0)
  <2>1. CASE p.from = Self
    <3>1. /\ IsFiniteSet(EchoesIn(box) \union {n})
          /\ Cardinality(EchoesIn(box) \union {n})
               = IF n \in EchoesIn(box) THEN Cardinality(EchoesIn(box))
                                        ELSE Cardinality(EchoesIn(box)) + 1
      BY <1>3, FS_AddElement
    <3>2. QED  BY <1>3, <2>1, <3>1
  <2>2. CASE p.from # Self
    BY <1>3, <2>2
  <2>3. QED  BY <2>1, <2>2
<1> HIDE DEF more
<1>5. /\ Cardinality(EchoesIn(Append(box, p))) <= Cardinality(more)
      /\ Cardinality(EchoesIn(Append(box, p))) \in Nat
  BY <1>1, <1>2, <1>4, FS_Subset, EchoCount
<1>6. QED  BY <1>3, <1>4, <1>5

(* A packet that is taken out is one less if it was one of them.           *)
LEMMA EchoTail ==
  ASSUME NEW box \in Seq(Packet), box # <<>>
  PROVE  Cardinality(EchoesIn(Tail(box))) + (IF Head(box).from = Self THEN 1 ELSE 0)
           <= Cardinality(EchoesIn(box))
<1> DEFINE old == EchoesIn(box)
           rest == EchoesIn(Tail(box))
           f == [j \in rest |-> j + 1]
<1>1. /\ Head(box) = box[1] /\ 1 \in DOMAIN box
      /\ DOMAIN box = 1 .. Len(box) /\ Len(box) \in Nat \ {0}
  BY LenProperties, EmptySeq, HeadTailProperties
<1>2. /\ Tail(box) \in Seq(Packet) /\ DOMAIN Tail(box) = 1 .. Len(box) - 1
      /\ \A j \in DOMAIN Tail(box) : Tail(box)[j] = box[j + 1]
  <2>1. /\ Tail(box) \in Seq(Packet)
        /\ Len(Tail(box)) = Len(box) - 1
        /\ \A j \in 1 .. Len(Tail(box)) : Tail(box)[j] = box[j + 1]
    BY HeadTailProperties
  <2>2. QED  BY <2>1, LenProperties
<1>3. IsFiniteSet(old) /\ Cardinality(old) \in Nat /\ Cardinality(rest) \in Nat
  BY <1>2, EchoCount
<1>4. /\ IsFiniteSet(old \ {1})
      /\ Cardinality(old \ {1})
           = IF 1 \in old THEN Cardinality(old) - 1 ELSE Cardinality(old)
  BY <1>3, FS_RemoveElement
<1>5. f \in [rest -> old \ {1}]
  BY <1>1, <1>2 DEF EchoesIn
<1>6. \A x, y \in rest : f[x] = f[y] => x = y
  BY <1>2 DEF EchoesIn
<1>7. Cardinality(rest) <= Cardinality(old \ {1})
  <2> HIDE DEF f, old, rest
  <2>1. f \in Injection(rest, old \ {1})
    BY <1>5, <1>6 DEF Injection, IsInjective
  <2>2. QED  BY <1>4, <2>1, FS_Injection
<1>8. Head(box).from = Self => 1 \in old
  BY <1>1 DEF EchoesIn
<1> HIDE DEF old, rest
<1>9. QED  BY <1>3, <1>4, <1>7, <1>8 DEF old, rest

(* The echoes in the socket: only a beacon brings one more.                *)
LEMMA EchoStep ==
  ASSUME TypeOK, [Next]_vars, client # NoAddress
  PROVE  Echoes' <= Echoes
<1>0. /\ inbox \in Seq(Packet) /\ Echoes = Cardinality(EchoesIn(inbox))
      /\ Echoes' = Cardinality(EchoesIn(inbox'))
      /\ Cardinality(EchoesIn(inbox)) \in Nat
  BY EchoCount DEF TypeOK, Echoes, EchoesIn
<1>1. CASE inbox' = inbox
  BY <1>0, <1>1
<1>2. ASSUME NEW a \in Talker \union {Loopback}, NEW kind \in Kind, Talk(a, kind),
             inbox' # inbox
      PROVE  Echoes' <= Echoes
  <2> DEFINE p == [from |-> a, kind |-> kind]
  <2>1. p \in Packet /\ p.from # Self
    BY RegistrationAssumption DEF Packet, Address
  <2>2. inbox' = Append(inbox, p)
    BY <1>2 DEF Talk, Deliver
  <2> HIDE DEF p
  <2>3. Cardinality(EchoesIn(inbox'))
          <= Cardinality(EchoesIn(inbox)) + (IF p.from = Self THEN 1 ELSE 0)
    BY <1>0, <2>1, <2>2, EchoAppend
  <2>4. QED  BY <1>0, <2>1, <2>3
<1>3. CASE Handle
  <2> DEFINE p == Head(inbox)  rest == Tail(inbox)
             one == IF p.from = Self THEN 1 ELSE 0
  <2>1. inbox # <<>> /\ p \in Packet /\ rest \in Seq(Packet)
    BY <1>0, <1>3, HeadTailProperties DEF Handle
  <2>2. inbox' = rest \/ (p.from = Self /\ inbox' = Append(rest, p))
    BY <1>3 DEF Handle
  <2>3. Cardinality(EchoesIn(rest)) + one <= Cardinality(EchoesIn(inbox))
    BY <1>0, <2>1, EchoTail
  <2>4. Cardinality(EchoesIn(Append(rest, p))) <= Cardinality(EchoesIn(rest)) + one
    BY <2>1, EchoAppend
  <2>5. /\ Cardinality(EchoesIn(rest)) \in Nat /\ one \in Nat
        /\ Cardinality(EchoesIn(Append(rest, p))) \in Nat
    BY <2>1, AppendProperties, EchoCount
  <2> HIDE DEF p, rest, one
  <2>6. CASE inbox' = rest
    BY <1>0, <2>3, <2>5, <2>6
  <2>7. CASE inbox' = Append(rest, p)
    BY <1>0, <2>3, <2>4, <2>5, <2>7
  <2>8. QED  BY <2>2, <2>6, <2>7
<1>4. CASE Restart
  <2>1. inbox' = <<>> /\ EchoesIn(<<>>) = {}
    BY <1>4 DEF Restart, EchoesIn
  <2>2. Cardinality(EchoesIn(inbox')) = 0
    BY <2>1, FS_EmptySet
  <2>3. QED  BY <1>0, <2>2
<1>5. QED
  BY <1>1, <1>2, <1>3, <1>4 DEF Next, Receive, Beacon, vars

(* A registered server, which answers its own packets (server.js:466),     *)
(* never makes more of them than came back before it had a client, for any *)
(* machines, addresses and size of the socket.                             *)
THEOREM EchoesDoNotMultiply == Spec => EchoesDoNotGrow
<1>1. TypeOK /\ [Next]_vars => [client # NoAddress => Echoes' <= Echoes]_vars
  BY EchoStep
<1>2. QED  BY <1>1, TypeCorrect, PTL DEF Spec, EchoesDoNotGrow

=============================================================================
