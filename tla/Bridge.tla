------------------------------- MODULE Bridge -------------------------------
(***************************************************************************)
(* The path of a toy from the server to the game.  The game's USB thread   *)
(* calls the hooked interrupt transfers of sprx-plugin/usb_hooks.c; an IN  *)
(* transfer sends a POLL to the server and then takes at most one datagram *)
(* from the plugin's socket, an OUT transfer sends DATA_OUT.  The worker   *)
(* thread of main.c sends keepalives.  The server answers every request    *)
(* from the virtual pad that the web UI and the CLI edit, and broadcasts   *)
(* discovery beacons until it has a client.                                *)
(*                                                                         *)
(* The model starts where the worker enters its main loop with the hooks   *)
(* installed and the server's address set.  The sequence byte of a request *)
(* is left out: the only code that reads it is getZoneState, which gets an *)
(* arbitrary byte here.                                                    *)
(***************************************************************************)
EXTENDS VirtualToys, Sequences, SequencesExt

CONSTANTS
  Ordered,     \* BOOLEAN: the network keeps datagrams in order
  Hints,       \* the sequence bytes a poll may carry (0..255)
  UserZones,   \* the zones that users edit (bound of a run)
  UpCap,       \* datagrams in flight to the server (bound)
  DownCap,     \* datagrams in flight to the console (bound)
  SocketCap,   \* datagrams in the plugin's socket buffer
  MaxNoise,    \* datagrams of other exchanges under way at a time (bound)
  MaxLog       \* contents the centre zone takes in a run (bound)

ASSUME BridgeAssumption ==
  /\ Ordered \in BOOLEAN
  /\ Hints \subseteq Nat
  /\ UserZones \subseteq Zone
  /\ {UpCap, DownCap, SocketCap, MaxNoise, MaxLog} \subseteq Nat \ {0}

VARIABLES
  client,     \* the server has registered a client address
  toServer,   \* requests in flight, in the order they were sent
  toConsole,  \* datagrams in flight to the console
  socket,     \* datagrams buffered in the plugin's UDP socket
  pc,         \* the game's USB thread: "idle", or "polled" inside an IN
  padLog,     \* history: every content the centre zone has had
  report,     \* the last IN report handed to the game
  shown       \* history: the entry of padLog the last tag report showed

Pad == INSTANCE ToyPad WITH Toy <- Toy, NoToy <- NoToy, Ordered <- Ordered,
                           padLog <- padLog, report <- report, shown <- shown

network == <<toServer, toConsole, socket>>
game    == <<pc, report, shown>>
server  == <<zones, client, padLog>>
vars    == <<server, network, game>>

-----------------------------------------------------------------------------
(* Datagrams.  `at' is history: the entry of padLog a poll reply shows.    *)

Request == {"poll", "data", "keepalive"}

Status == {"ok", "no_tag", "keepalive", "discovery"}

Datagram == [status : Status, toy : Toy \union {NoToy}, at : Nat]

Plain(status)   == [status |-> status, toy |-> NoToy, at |-> 0]
TagReply(t, at) == [status |-> "ok", toy |-> t, at |-> at]

(* sendto: the datagram is lost, or joins those in flight; on a full link  *)
(* it is the oldest of them that is lost.                                  *)
Sent(channel, cap, d) ==
  {channel,
   Append(IF Len(channel) < cap THEN channel ELSE Tail(channel), d)}

(* The datagrams in flight that can arrive next.                           *)
Arrivable(channel) == {i \in DOMAIN channel : Ordered => i = 1}

(* Exchanges that are not polls: heartbeats, OUT reports, beacons.  They    *)
(* are rare next to polls, which a run renders by a bound on how many of   *)
(* their datagrams are under way at a time.                                *)
IsNoise(d) == d.toy = NoToy /\ d.status # "no_tag"

Quiet ==
  Len(SelectSeq(toServer, LAMBDA r : r # "poll"))
    + Len(SelectSeq(toConsole \o socket, IsNoise)) < MaxNoise

CenterToy == zones[CENTER][0]

TypeOK ==
  /\ ZonesType
  /\ client \in BOOLEAN
  /\ toServer \in Seq(Request) /\ Len(toServer) <= UpCap
  /\ toConsole \in Seq(Datagram) /\ Len(toConsole) <= DownCap
  /\ socket \in Seq(Datagram) /\ Len(socket) <= SocketCap
  /\ pc \in {"idle", "polled"}
  /\ padLog \in Seq(Toy \union {NoToy}) /\ padLog # <<>>
  /\ report \in [kind : {"none", "dummy", "blank", "tag"},
                 toy  : Toy \union {NoToy}]
  /\ shown \in Nat

Init ==
  /\ zones = EmptyZones
  /\ client = FALSE
  /\ toServer = <<>> /\ toConsole = <<>> /\ socket = <<>>
  /\ pc = "idle"
  /\ padLog = <<NoToy>>
  /\ report = Pad!NoReport
  /\ shown = 1

-----------------------------------------------------------------------------
(* The console.                                                            *)

Send(r) == toServer' \in Sent(toServer, UpCap, r)

(* network_send_poll and network_send_data: what the zone, the sequence    *)
(* number and the data are makes no difference to what is answered.        *)
SendPoll == Send("poll")
SendData == Send("data")

(* network_recv, with a datagram to read.  The server is known since the   *)
(* start (main.c:209), so nothing is learnt from the datagram, and nothing *)
(* the console sends comes back to it.                                     *)
Recv == socket # <<>> /\ socket' = Tail(socket)

(* First half of an IN transfer: send the poll, whatever becomes of it.    *)
InPoll ==
  /\ pc = "idle"
  /\ SendPoll
  /\ pc' = "polled"
  /\ UNCHANGED <<server, toConsole, socket, report, shown>>

(* Mutant: an acknowledgement taken for a tag.                             *)
AckIsTag(d) == IF d.status # "ok" THEN Pad!Dummy ELSE Pad!Tag(d.toy)

(* What an IN transfer hands to the game when it took datagram d: the      *)
(* status byte decides, nothing else is looked at.                         *)
ReportOf(d) ==
  IF d.status # "ok" THEN Pad!Dummy
  ELSE IF d.toy = NoToy THEN Pad!Blank ELSE Pad!Tag(d.toy)

(* Mutant: a receive that looks at the datagram and leaves it buffered.    *)
InPeek ==
  /\ pc = "polled"
  /\ pc' = "idle"
  /\ IF socket = <<>> THEN report' = Pad!Dummy /\ UNCHANGED shown
     ELSE /\ report' = ReportOf(Head(socket))
          /\ shown' = IF report'.kind = "tag" THEN Head(socket).at ELSE shown
  /\ UNCHANGED <<server, network>>

(* Second half: one non-blocking receive, then done_cb with the report.    *)
InReceive ==
  /\ pc = "polled"
  /\ pc' = "idle"
  /\ \/ /\ socket = <<>>
        /\ report' = Pad!Dummy
        /\ UNCHANGED <<socket, shown>>
     \/ /\ Recv
        /\ report' = ReportOf(Head(socket))
        /\ shown' = IF ReportOf(Head(socket)).kind = "tag"
                    THEN Head(socket).at ELSE shown
  /\ UNCHANGED <<server, toServer, toConsole>>

(* An OUT transfer: the data goes to the server, done_cb is called at once *)
(* and the result of the send is ignored.                                  *)
OutTransfer ==
  /\ pc = "idle" /\ Quiet
  /\ SendData
  /\ UNCHANGED <<server, toConsole, socket, game>>

(* The worker's heartbeat, every 3 seconds of a clock that is not modelled.*)
Keepalive ==
  /\ Quiet
  /\ Send("keepalive")
  /\ UNCHANGED <<server, toConsole, socket, game>>

(* A datagram reaches the socket; a full buffer drops it.                  *)
Arrive(i) ==
  /\ toConsole' = RemoveAt(toConsole, i)
  /\ socket' = IF Len(socket) < SocketCap
               THEN Append(socket, toConsole[i]) ELSE socket
  /\ UNCHANGED <<server, toServer, game>>

-----------------------------------------------------------------------------
(* The server.                                                             *)

Reply(d) == toConsole' \in Sent(toConsole, DownCap, d)

(* Mutant: zones counted from the left.                                    *)
LeftPollZone == LEFT

(* The hooks poll zone 1 only.                                             *)
PollZone == CENTER

(* Mutant: the server answers with the content of the zone before the last *)
(* edit, as a cache that is refreshed too late would.                      *)
PollCached ==
  LET before == padLog[IF Len(padLog) = 1 THEN 1 ELSE Len(padLog) - 1]
  IN  Reply(IF before = NoToy THEN Plain("no_tag")
            ELSE TagReply(before, Len(padLog)))

HandlePoll ==
  \E hint \in Hints :
    LET t == GetZoneState(PollZone, hint)
    IN  Reply(IF t = NoToy THEN Plain("no_tag") ELSE TagReply(t, Len(padLog)))

HandleDataOut   == Reply(Plain("ok"))
HandleKeepalive == Reply(Plain("keepalive"))

(* The message handler: register the first sender, answer the request.     *)
Handle(i) ==
  /\ toServer' = RemoveAt(toServer, i)
  /\ client' = TRUE
  /\ \/ toServer[i] = "poll"      /\ HandlePoll
     \/ toServer[i] = "data"      /\ HandleDataOut
     \/ toServer[i] = "keepalive" /\ HandleKeepalive
  /\ UNCHANGED <<zones, padLog, socket, game>>

Beacon ==
  /\ ~client /\ Quiet
  /\ Reply(Plain("discovery"))
  /\ UNCHANGED <<server, toServer, socket, game>>

(* History: a change of the centre zone is a new entry of the log.         *)
LogCenter ==
  padLog' = IF CenterToy' = CenterToy
            THEN padLog ELSE Append(padLog, CenterToy')

(* A user places or removes a toy through the HTTP API or the CLI.         *)
UserEdits ==
  /\ Len(padLog) < MaxLog
  /\ \E z \in UserZones : \E slot \in Slots(z) \union {NoSlot} :
       \/ \E name \in Name : PlaceToy(z, name, slot)
       \/ RemoveToy(z, slot)
  /\ LogCenter
  /\ UNCHANGED <<client, network, game>>

(* The server process is restarted: its whole state is in memory.          *)
ServerRestart ==
  /\ Len(padLog) < MaxLog
  /\ zones' = EmptyZones
  /\ client' = FALSE
  /\ LogCenter
  /\ UNCHANGED <<network, game>>

-----------------------------------------------------------------------------
Next ==
  \/ InPoll \/ InReceive \/ OutTransfer \/ Keepalive
  \/ \E i \in Arrivable(toConsole) : Arrive(i)
  \/ \E i \in Arrivable(toServer) : Handle(i)
  \/ Beacon \/ UserEdits \/ ServerRestart

Spec == Init /\ [][Next]_vars

(* Fairness.  The game keeps polling (the kernel schedules its USB thread, *)
(* and it is woken by every done_cb); node's event loop and the network    *)
(* stack make progress; the network is lossy but fair: a kind of datagram  *)
(* that keeps being sent keeps getting through.                            *)
PollLeaves   == InPoll /\ toServer' # toServer
PollAnswered == \E i \in Arrivable(toServer) :
                  toServer[i] = "poll" /\ Handle(i) /\ toConsole' # toConsole
TagArrives   == \E i \in Arrivable(toConsole) :
                  toConsole[i].toy # NoToy /\ Arrive(i) /\ socket' # socket

Fairness ==
  /\ WF_vars(InPoll) /\ WF_vars(InReceive)
  /\ WF_vars(\E i \in Arrivable(toServer) : Handle(i))
  /\ WF_vars(\E i \in Arrivable(toConsole) : Arrive(i))
  /\ SF_vars(PollLeaves) /\ SF_vars(PollAnswered) /\ SF_vars(TagArrives)

FairSpec == Spec /\ Fairness

-----------------------------------------------------------------------------
(* Properties.                                                             *)

(* Every tag in flight or buffered shows a toy that really was on the      *)
(* centre zone at the moment the history gives it, even when it was        *)
(* replaced, the server was restarted or datagrams were lost since.        *)
TagsAreTrue ==
  \A q \in {toConsole, socket} : \A i \in DOMAIN q :
    q[i].toy # NoToy => /\ q[i].at \in DOMAIN padLog
                        /\ padLog[q[i].at] = q[i].toy

(* What the proofs need besides: the log ends with what is on the zone,    *)
(* and on an ordered network the tags between server and game, those in    *)
(* the socket ahead of those in flight, show ever later moments, none      *)
(* before the one last shown.                                              *)
LogTracksPad ==
  /\ padLog[Len(padLog)] = CenterToy
  /\ shown \in DOMAIN padLog

InOrder(d, e) == (d.toy # NoToy /\ e.toy # NoToy) => d.at <= e.at

TagsInOrder ==
  /\ \A q \in {toConsole, socket} : \A i \in DOMAIN q :
       /\ q[i].toy # NoToy => shown <= q[i].at
       /\ \A j \in DOMAIN q : i < j => InOrder(q[i], q[j])
  /\ \A i \in DOMAIN socket, j \in DOMAIN toConsole :
       InOrder(socket[i], toConsole[j])

(* The inductive invariant: TypeOK, with every tag between server and game *)
(* true and, on an ordered network, in order.  A reply overtaken, doubled  *)
(* or read out of a buffer that is not a queue would break it.             *)
IInv ==
  /\ TypeOK
  /\ LogTracksPad
  /\ TagsAreTrue
  /\ Ordered => TagsInOrder

(* The bridge is a pad in the sense of ToyPad: whatever the game is shown  *)
(* was on the pad, and in order if the network keeps order.                *)
IsAToyPad == Pad!Spec

(* Replies to polls from before the last change of the centre zone, on the *)
(* way to the game.                                                        *)
OldIn(q) == {i \in DOMAIN q : q[i].toy # NoToy /\ q[i].at < Len(padLog)}

Lag == Cardinality(OldIn(socket)) + Cardinality(OldIn(toConsole))

(* This step hands the game such a reply.                                  *)
ShowsOld ==
  /\ pc = "polled" /\ pc' = "idle"
  /\ report'.kind = "tag" /\ shown' < Len(padLog)

(* The buffers bound how many outdated replies there are, and while the    *)
(* centre zone is left alone no step makes one: every outdated toy the     *)
(* game is shown is one less to come, although each poll of a full socket  *)
(* queues a reply for every one it takes.                                  *)
OldRepliesRunOut ==
  /\ [](Lag <= SocketCap + DownCap)
  /\ [][UNCHANGED padLog => Lag' + (IF ShowsOld THEN 1 ELSE 0) <= Lag]_vars

(* A toy left on the centre zone is shown to the game, unless somebody     *)
(* takes it away first.                                                    *)
PlacedToyIsReported ==
  \A t \in Toy : (CenterToy = t) ~> (report.toy = t \/ CenterToy # t)

(* A toy taken away for good stops being shown: no stale reply survives in *)
(* the network or the socket for ever.                                     *)
RemovedToyIsForgotten ==
  \A t \in Toy : <>[](CenterToy # t) => <>[](report.toy # t)

=============================================================================
