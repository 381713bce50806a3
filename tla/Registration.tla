---------------------------- MODULE Registration ----------------------------
(***************************************************************************)
(* How the UDP server of ld-toypad-server/server.js finds its console: it  *)
(* broadcasts a beacon every second until the first packet of somebody     *)
(* else registers a client, and answers packets, whoever sends them.  A    *)
(* broadcast comes back to the server's own socket.  What the server takes *)
(* for its own address is written into it: 127.0.0.1 and 192.168.0.17.     *)
(*                                                                         *)
(* The timer and the packet handler are callbacks of one event loop, so    *)
(* each is one action.  Requests are told apart only as far as it matters  *)
(* here: a discovery packet is answered with a discovery packet.           *)
(***************************************************************************)
EXTENDS Integers, FiniteSets, Sequences

CONSTANTS
  Talker,      \* the other machines that send to the server
  Loopback,    \* 127.0.0.1: programs on the server's own machine
  Self,        \* the address its own broadcasts come back from
  PS3_IP,      \* the console's address, if the server was told
  NoAddress,
  InCap,       \* packets the server's socket buffers (bound)
  MaxRestarts  \* restarts of the server in a run (bound)

Address == Talker \union {Loopback, Self}

ASSUME RegistrationAssumption ==
  /\ Loopback \notin Talker /\ Self \notin Talker /\ Self # Loopback
  /\ NoAddress \notin Address
  /\ PS3_IP \in Talker \union {NoAddress}
  /\ InCap \in Nat \ {0} /\ MaxRestarts \in Nat

Kind   == {"request", "discovery"}
Mail   == {"answer", "beacon"}
Packet == [from : Address, kind : Kind]

VARIABLES
  client,    \* clientAddress
  inbox,     \* the server's socket buffer
  mail,      \* mail[a]: what is under way from the server to address a
  heard,     \* history: whose packets were handled since the server started
  restarts,
  fixed      \* who has the address 192.168.0.17: the server or nobody

vars == <<client, inbox, mail, heard, restarts, fixed>>

(* The addresses that cannot register.                                     *)
Skipped == {Loopback, fixed}

TypeOK ==
  /\ client \in Address \union {NoAddress}
  /\ inbox \in Seq(Packet) /\ Len(inbox) <= InCap
  /\ mail \in [Talker \union {Loopback} -> SUBSET Mail]
  /\ heard \subseteq Address
  /\ restarts \in 0 .. MaxRestarts
  /\ fixed \in {Self, NoAddress}

(* The server may run at any address; only if it is 192.168.0.17 does it   *)
(* know its own broadcasts.                                                *)
Init ==
  /\ client = NoAddress
  /\ inbox = <<>>
  /\ mail = [a \in Talker \union {Loopback} |-> {}]
  /\ heard = {} /\ restarts = 0
  /\ fixed \in {Self, NoAddress}

-----------------------------------------------------------------------------
(* A packet reaches the server's socket, or is lost.                       *)
Deliver(p) ==
  inbox' \in {inbox} \union
             (IF Len(inbox) < InCap THEN {Append(inbox, p)} ELSE {})

(* Somebody sends the server a packet: the console its polls, data and     *)
(* heartbeats, a test program a probe.                                     *)
Talk(a, kind) ==
  /\ Deliver([from |-> a, kind |-> kind])
  /\ UNCHANGED <<client, mail, heard, restarts, fixed>>

(* Something the server sent to a arrives there, or is lost.               *)
Receive(a, m) ==
  /\ m \in mail[a] /\ mail' = [mail EXCEPT ![a] = @ \ {m}]
  /\ UNCHANGED <<client, inbox, heard, restarts, fixed>>

(* Mutant: a timer that does not look at clientAddress.                    *)
BeaconAlways ==
  /\ Deliver([from |-> Self, kind |-> "discovery"])
  /\ mail' = [a \in DOMAIN mail |-> mail[a] \union {"beacon"}]
  /\ UNCHANGED <<client, heard, restarts, fixed>>

(* The discovery timer: a broadcast, which anybody on the network and the  *)
(* server itself may receive, and a second copy to the console if its      *)
(* address is known.                                                       *)
Beacon ==
  /\ client = NoAddress
  /\ Deliver([from |-> Self, kind |-> "discovery"])
  /\ \E reached \in SUBSET Talker :
       mail' = [a \in DOMAIN mail |->
                 IF a \in reached \union {PS3_IP}
                 THEN mail[a] \union {"beacon"} ELSE mail[a]]
  /\ UNCHANGED <<client, heard, restarts, fixed>>

(* Mutants: packets of the addresses in the list register a client; only   *)
(* the client is answered.                                                 *)
HandleAnybody ==
  /\ inbox # <<>>
  /\ heard' = heard \union {Head(inbox).from}
  /\ inbox' = Tail(inbox)
  /\ client' = IF client = NoAddress THEN Head(inbox).from ELSE client
  /\ UNCHANGED <<mail, restarts, fixed>>

HandleClientOnly ==
  /\ inbox # <<>>
  /\ heard' = heard \union {Head(inbox).from}
  /\ inbox' = Tail(inbox)
  /\ client' = IF client = NoAddress /\ Head(inbox).from \notin Skipped
               THEN Head(inbox).from ELSE client
  /\ mail' = IF client' \in Talker
             THEN [mail EXCEPT ![client'] = @ \union {"answer"}] ELSE mail
  /\ UNCHANGED <<restarts, fixed>>

(* server.on('message'): while there is no client, a packet of one of the  *)
(* addresses in the list is dropped and any other registers its sender;    *)
(* the packet is then answered, to where it came from.  Self is such a     *)
(* place, and the answer to a discovery packet is a discovery packet.      *)
Handle ==
  /\ inbox # <<>>
  /\ LET p == Head(inbox) IN
       /\ heard' = heard \union {p.from}
       /\ \/ /\ client = NoAddress /\ p.from \in Skipped
             /\ inbox' = Tail(inbox)
             /\ UNCHANGED <<client, mail>>
          \/ /\ client # NoAddress \/ p.from \notin Skipped
             /\ client' = IF client = NoAddress THEN p.from ELSE client
             /\ IF p.from = Self
                THEN inbox' \in {Tail(inbox), Append(Tail(inbox), p)}
                     /\ UNCHANGED mail
                ELSE inbox' = Tail(inbox)
                     /\ mail' = [mail EXCEPT ![p.from] = @ \union {"answer"}]
  /\ UNCHANGED <<restarts, fixed>>

(* The server process is stopped and started again.                        *)
Restart ==
  /\ restarts < MaxRestarts /\ restarts' = restarts + 1
  /\ client' = NoAddress /\ inbox' = <<>> /\ heard' = {}
  /\ UNCHANGED <<mail, fixed>>

-----------------------------------------------------------------------------
Next ==
  \/ \E a \in Talker \union {Loopback}, kind \in Kind : Talk(a, kind)
  \/ \E a \in Talker \union {Loopback}, m \in Mail : Receive(a, m)
  \/ Beacon \/ Handle \/ Restart

Spec == Init /\ [][Next]_vars

(* Fairness: the event loop handles packets, the network delivers or drops *)
(* what is under way, and a machine that keeps sending (the console does,  *)
(* every 3 seconds) gets a packet through now and then.                    *)
Heard(a) == \E kind \in Kind : Talk(a, kind) /\ inbox' # inbox

FairSpec ==
  /\ Spec /\ WF_vars(Handle)
  /\ \A a \in Talker \union {Loopback} :
       SF_vars(Heard(a)) /\ \A m \in Mail : WF_vars(Receive(a, m))

-----------------------------------------------------------------------------
(* Properties.                                                             *)

(* Since it was started the server has a client exactly if it has handled  *)
(* a packet of an address that is not in the list of server.js:468, and    *)
(* the client is somebody who sent such a packet, whatever came back or    *)
(* was lost.  This does not exclude the server itself: at an address other *)
(* than 192.168.0.17 its own beacon registers it.                          *)
ClientHasSpoken ==
  IF client = NoAddress THEN heard \subseteq Skipped
                        ELSE client \in heard \ Skipped

(* The server's own packets in its socket, which it answers to itself.     *)
Echoes == Cardinality({i \in DOMAIN inbox : inbox[i].from = Self})

(* A registered server makes no more of them: answering itself it goes     *)
(* round with the beacons that came back before, and never multiplies them.*)
EchoesDoNotGrow == [][client # NoAddress => Echoes' <= Echoes]_vars

(* Somebody is registered, be it the server itself, and the broadcasts     *)
(* stop for good, even if the server is restarted meanwhile.               *)
BeaconsCease == <>[](\A a \in DOMAIN mail : "beacon" \notin mail[a])

(* Whoever keeps sending keeps being answered, also when somebody else was *)
(* registered first.                                                       *)
TalkersAreServed == \A a \in Talker : []<>("answer" \in mail[a])

(* "skip our own IPs - server echoes its beacons" (server.js:463): packets *)
(* the server sent itself leave its socket for good once no beacon is sent,*)
(* at least if it runs at the address in its list.                         *)
OwnPacketsDieOut ==
  fixed = Self => <>[](\A i \in DOMAIN inbox : inbox[i].from # Self)

=============================================================================
