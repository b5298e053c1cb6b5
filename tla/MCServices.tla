----------------------------- MODULE MCServices -----------------------------
(***************************************************************************)
(* Instances of the modules about services that run on POX.  A behaviour   *)
(* is one of the component `active`.  As only one runs, they share the     *)
(* variables r1 to r15; those that it does not use stay 0.  Where there    *)
(* are theorems about a component its parameters are constants, to which   *)
(* services.cfg gives values.                                              *)
(***************************************************************************)
EXTENDS Integers, Sequences, FiniteSets, TLC

CONSTANTS
  Place, HostIp, pingLim, arpAware, arpSilent,     \* the host tracker
  Addr, HostPort, Fakeway, MAX_BUFFERED_PER_IP,    \* the layer 3 learning switch
  Server, Client, ServerPort, arp_timeout,         \* the load balancer
  ArpIp, Mac, Switch, Config,                      \* the ARP responder
  Question, MaxParts,                              \* statistics
  Conn,                                            \* deferred sending
  WebRequest, WebFlow, WebKind, FlowsWanted, NoRequest,
                                                   \* requests of the web service
  Tx, TxKind, Contact, nbMessChan,                 \* the dealer
  MaxRounds, MaxMoves, MaxProbes, MaxPackets, MaxArps, MaxQuestions, MaxSent,
  MaxConnects                                      \* bounds

VARIABLES active, r1, r2, r3, r4, r5, r6, r7, r8, r9, r10, r11, r12, r13, r14, r15

-----------------------------------------------------------------------------
(* Telnet options, with a client that changes its mind and types.           *)

Telnet == INSTANCE TelnetOptions WITH
  MaxAsks <- 3, MaxNoise <- 1,
  opts <- r1, willing <- r2, toClient <- r3, toServer <- r4, buf <- r5, parser <- r6,
  running <- r7, said <- r8, heard <- r9, asks <- r10, noise <- r11

-----------------------------------------------------------------------------
(* The line editor.                                                         *)

Editor == INSTANCE LineEditor WITH
  Char <- {"a"}, MaxLine <- 3, MaxHistory <- 2,
  current <- r1, cursor <- r2, hist <- r3, pos <- r4, password_mode <- r5, shown <- r6,
  column <- r7

-----------------------------------------------------------------------------
(* The core and its events.                                                 *)

Core == INSTANCE PoxCore WITH
  Component <- {"c", "d"}, Event <- {"e"}, MaxCalls <- 4,
  components <- r1, waiters <- r2, served <- r3, handlers <- r4, stack <- r5, calls <- r6

-----------------------------------------------------------------------------
(* A websocket.                                                             *)

Web == INSTANCE Websocket WITH
  MaxFrames <- 3,
  parts <- r1, frames <- r2, said <- r3, open <- r4, got <- r5, old_op <- r6, data <- r7,
  dead <- r8, reading <- r9, _pending <- r10, _rx_queue <- r11, calls <- r12,
  draining <- r13, doing <- r14, handled <- r15

-----------------------------------------------------------------------------
(* The IO loop, with a connection that is made again.                       *)

Io == INSTANCE IoLoop WITH
  MaxWorkers <- 2, MaxSent <- 2, MaxHeard <- 1,
  worker <- r1, inbound <- r2, outbound <- r3, given <- r4, read <- r5, _workers <- r6,
  _pending_commands <- r7, later <- r8, phase <- r9, elist <- r10, rlist <- r11,
  wlist <- r12

-----------------------------------------------------------------------------
(* L2Multi: a ring of three switches; discovery did not find one of the     *)
(* links yet.  One host may move from a switch to another.                  *)

Wire(a, b, c, d) == {<<a, b>>, <<c, d>>}
Ring == {Wire(1, 1, 3, 1), Wire(3, 2, 2, 2), Wire(2, 4, 1, 4)}
BothDirections == {l \in (UNION Ring) \X (UNION Ring) : {l[1], l[2]} \in Ring}

Paths == INSTANCE L2Multi WITH
  Switch <- 1..3, Wires <- Ring, Initially <- BothDirections \ {<< <<1, 4>>, <<2, 4>> >>},
  Home <- ("h1" :> {<<1, 9>>}) @@ ("h2" :> {<<2, 9>>, <<3, 9>>}), MaxPackets <- 2,
  MaxChanges <- 1,
  links <- r1, connected <- r2, adjacency <- r3, path_map <- r4, mac_map <- r5,
  waiting_paths <- r6, toSw <- r7, toCtl <- r8, table <- r9, packets <- r10,
  changes <- r11, made <- r12, released <- r13

-----------------------------------------------------------------------------
(* The spanning forest: a triangle.                                         *)

Forest == INSTANCE SpanningForest WITH
  Switch <- 1..3, Links <- << <<1, 1, 2, 1>>, <<1, 2, 3, 1>>, <<2, 2, 3, 2>> >>,
  MaxChanges <- 2,
  connected <- r1, there <- r2, ports <- r3, adjacency <- r4, seen <- r5, alive <- r6,
  _prev <- r7, _port_out_cache <- r8, toSw <- r9, config <- r10, hurried <- r11,
  changes <- r12

-----------------------------------------------------------------------------
(* A RIP router with two neighbors behind one port and one behind another.  *)

Rip == INSTANCE RipRouter WITH
  Neighbor <- {"r", "q", "z"}, PortOf <- ("r" :> 1) @@ ("q" :> 1) @@ ("z" :> 2), Remote <-
  {"n"}, Own <- (1 :> "net1") @@ (2 :> "net2"), MaxSteps <- 3,
  table <- r1, triggered_pending <- r2, _deferred <- r3, conn <- r4, present <- r5,
  _ports <- r6, _prev <- r7, routes <- r8, announced <- r9, steps <- r10

-----------------------------------------------------------------------------
(* Where hosts are: the host tracker; and L3Learning, with two hosts that   *)
(* move and an address that the controller answers for.                     *)

Places == {<<1, 1>>, <<1, 2>>, <<2, 1>>}

Hosts == INSTANCE Hosts_proofs WITH
  Ip <- HostIp, MaxSteps <- MaxRounds, Port <- HostPort, MaxPackets <- MaxMoves,
  entry <- r1, pings <- r2, at <- r3, ip <- r4, connected <- r5, missed <- r6, steps <- r7,
  wide <- r1, arpTable <- r2, lost_buffers <- r3, outstanding_arps <- r4, where <- r5,
  toCtl <- r6, toSw <- r7, table <- r8, held <- r9, used <- r10, packets <- r11

-----------------------------------------------------------------------------
(* The synchronized table: an entry that covers another.                    *)

Sync == INSTANCE SyncFlowTable WITH
  Entry <- {"e", "f"}, Under <- ("e" :> {"e", "f"}) @@ ("f" :> {"f"}), MaxOps <- 2,
  MaxConnects <- 2,
  flow_table <- r1, pending <- r2, barriers <- r3, waiting <- r4, connection <- r5,
  listening <- r6, timer <- r7, alive <- r8, swCon <- r9, swFlows <- r10, toSw <- r11,
  toCtl <- r12, ops <- r13, connects <- r14, xid <- r15

-----------------------------------------------------------------------------
(* Addresses.  IPv4: every prefix of four bits, with a host part of one     *)
(* bit or none; IPv6: every pattern of zeroes, and addresses that hold one  *)
(* of IPv4.                                                                 *)

Ethernet == {<<1, 128, 194, 0, 0, x>> : x \in {14, 255}}
Bits32(top, n) == [i \in 1..32 |-> IF i <= 4 THEN top[i] ELSE IF i = n THEN 1 ELSE 0]
Four == {Bits32(top, n) : top \in [1..4 -> 0..1], n \in {0} \cup 5..32}
Six == [1..8 -> {0, 1}] \cup {<<0, 0, 0, 0, 0, 65535, 513, x>> : x \in {0, 1}}

Texts == INSTANCE Addresses WITH
  Eth <- Ethernet, IPv4 <- Four, IPv6 <- Six,
  addr <- r1, read <- r2

-----------------------------------------------------------------------------
(* What answers for addresses: the ARP responder, with a static entry and  *)
(* one the switches answer for; and the load balancer.                     *)

OneOfEach == ("i" :> "own") @@ ("j" :> "a")

Respond == INSTANCE Responders_proofs WITH
  Ip <- ArpIp, Port <- ServerPort, MaxPackets <- MaxArps, MaxTcp <- MaxPackets,
  arp_table <- r1, connected <- r2, out <- r3, set <- r4, said <- r5, packets <- r6,
  servers <- r1, live_servers <- r2, outstanding_probes <- r3, memory <- r4, chosen <- r5,
  flows <- r6, asked <- r7, missed <- r8, first <- r9, probes <- r10, tcpPackets <- r11

-----------------------------------------------------------------------------
(* A connection to a switch: statistics, and the sending of what the        *)
(* sockets did not take.                                                    *)

Asked(t, there) == [type |-> t, there |-> there]
Questions == {Asked("flow", TRUE), Asked("desc", TRUE), Asked("port", FALSE),
              Asked("vendor", TRUE), Asked("aggregate", FALSE)}

Connection == INSTANCE ConnectionIO_proofs WITH
  Request <- Question, MaxRequests <- MaxQuestions,
  own <- r1, asked <- r2, done <- r3, sent <- r4, toCtl <- r5, open <- r6,
  _previous_stats <- r7, raised <- r8, came <- r9, undisturbed <- r10,
  given <- r1, checked <- r2, wire <- r3, queue <- r4, sending <- r5, failed <- r6,
  dropped <- r7, senderPc <- r8, watched <- r9

-----------------------------------------------------------------------------
(* Calls that wait for an answer: requests of the web service, of which two *)
(* set the table, one after the other; and the dealer's, with a transaction *)
(* of each kind.                                                            *)

WebKinds == ("s" :> "set") @@ ("t" :> "set") @@ ("v" :> "stats")
WebFlows == ("s" :> <<"f", "g">>) @@ ("t" :> <<"g">>) @@ ("v" :> <<>>)
OfEachKind == ("r" :> "request") @@ ("l" :> "link") @@ ("c" :> "client")

Requests == INSTANCE Requests_proofs WITH
  Request <- WebRequest, Flow <- WebFlow, RequestKind <- WebKind, Flows <- FlowsWanted,
  later <- r1, begun <- r2, listeners <- r3, count <- r4, _response <- r5, outcome <- r6,
  toSw <- r7, toCtl <- r8, table <- r9, open <- r10, shown <- r11, took <- r12,
  refused <- r13, set <- r14, late <- r15,
  Kind <- TxKind, Node <- Contact,
  uniform <- r1, call <- r2, pending <- r3, respChan <- r4, conn <- r5, spawned <- r6,
  waiter <- r7, chanMsg <- r8, nodeCount <- r9, sockets <- r10, running <- r11, given <- r12,
  taken <- r13, main <- r14, listening <- r15

-----------------------------------------------------------------------------
(* One component runs.                                                     *)

Free15 == r15 = 0
Free14 == r14 = 0 /\ Free15
Free13 == r13 = 0 /\ Free14
Free12 == r12 = 0 /\ Free13
Free11 == r11 = 0 /\ Free12
Free10 == r10 = 0 /\ Free11
Free9 == r9 = 0 /\ Free10
Free8 == r8 = 0 /\ Free9
Free7 == r7 = 0 /\ Free8
Free6 == r6 = 0 /\ Free7
Free5 == r5 = 0 /\ Free6
Free4 == r4 = 0 /\ Free5
Free3 == r3 = 0 /\ Free4

Init ==
  \/ active = "telnet" /\ Telnet!Init /\ Free12
  \/ active = "editor" /\ Editor!Init /\ Free8
  \/ active = "core" /\ Core!Init /\ Free7
  \/ active = "web" /\ Web!Init
  \/ active = "io" /\ Io!Init /\ Free13
  \/ active = "paths" /\ Paths!Init /\ Free14
  \/ active = "forest" /\ Forest!Init /\ Free13
  \/ active = "rip" /\ Rip!Init /\ Free11
  \/ active = "hosts" /\ Hosts!Init /\ Free8
  \/ active = "l3" /\ Hosts!LearningInit /\ Free12
  \/ active = "balancer" /\ Respond!BalancerInit /\ Free12
  \/ active = "sync" /\ Sync!Init
  \/ active = "texts" /\ Texts!AddressesInit /\ Free3
  \/ active = "arp" /\ Respond!Init /\ Free7
  \/ active = "stats" /\ Connection!Init /\ Free11
  \/ active = "requests" /\ Requests!Init
  \/ active = "sender" /\ Connection!SenderInit /\ Free10
  \/ active = "dealer" /\ Requests!DealerInit

TelnetStep == active = "telnet" /\ Telnet!Next /\ UNCHANGED <<active, r12, r13, r14,
  r15>>
EditorStep == active = "editor" /\ Editor!Next /\ UNCHANGED <<active, r8, r9, r10, r11,
  r12, r13, r14, r15>>
CoreStep == active = "core" /\ Core!Next /\ UNCHANGED <<active, r7, r8, r9, r10, r11,
  r12, r13, r14, r15>>
WebStep == active = "web" /\ Web!Next /\ UNCHANGED <<active>>
IoStep == active = "io" /\ Io!Next /\ UNCHANGED <<active, r13, r14, r15>>
PathsStep == active = "paths" /\ Paths!Next /\ UNCHANGED <<active, r14, r15>>
ForestStep == active = "forest" /\ Forest!Next /\ UNCHANGED <<active, r13, r14, r15>>
RipStep == active = "rip" /\ Rip!Next /\ UNCHANGED <<active, r11, r12, r13, r14, r15>>
HostsStep == active = "hosts" /\ Hosts!Next /\ UNCHANGED <<active, r8, r9, r10, r11,
  r12, r13, r14, r15>>
L3Step == active = "l3" /\ Hosts!LearningNext /\ UNCHANGED <<active, r12, r13, r14, r15>>
BalancerStep == active = "balancer" /\ Respond!BalancerNext /\ UNCHANGED <<active, r12, r13,
  r14, r15>>
SyncStep == active = "sync" /\ Sync!Next /\ UNCHANGED <<active>>
TextsStep == active = "texts" /\ Texts!AddressesNext /\ UNCHANGED <<active, r3, r4, r5,
  r6, r7, r8, r9, r10, r11, r12, r13, r14, r15>>
ArpStep == active = "arp" /\ Respond!Next /\ UNCHANGED <<active, r7, r8, r9, r10, r11, r12,
  r13, r14, r15>>
StatsStep == active = "stats" /\ Connection!Next /\ UNCHANGED <<active, r11, r12, r13, r14,
  r15>>
RequestsStep == active = "requests" /\ Requests!Next /\ UNCHANGED <<active>>
SenderStep == active = "sender" /\ Connection!SenderNext /\ UNCHANGED <<active, r10, r11, r12, r13,
  r14, r15>>
DealerStep == active = "dealer" /\ Requests!DealerNext /\ UNCHANGED <<active>>

Next ==
  \/ TelnetStep \/ EditorStep \/ CoreStep \/ WebStep \/ IoStep
  \/ PathsStep \/ ForestStep \/ RipStep \/ HostsStep \/ L3Step
  \/ BalancerStep \/ SyncStep \/ TextsStep \/ ArpStep
  \/ StatsStep \/ RequestsStep \/ SenderStep \/ DealerStep

vars == <<active, r1, r2, r3, r4, r5, r6, r7, r8, r9, r10, r11, r12, r13, r14, r15>>
Spec == Init /\ [][Next]_vars

-----------------------------------------------------------------------------
\* What the client negotiates is heard in order, and both sides end with one view of the
\* options (TelnetOptions); the terminal shows the line (LineEditor).  What an address is
\* written as is read as that address, and networks hold what they should (Addresses).
TextSound ==
  /\ active = "telnet" => Telnet!HeardInOrder /\ Telnet!SidesAgree
  /\ active = "editor" => Editor!ScreenShowsLine
  /\ active = "texts" => Texts!AddressesReadBack

\* Handlers hear of each event once, and waiters are called once and in time (PoxCore).
EventsArrive == active = "core" => Core!NobodySkipped /\ Core!CalledOnceReady

\* Messages come complete, in order, and none stays in the queue (Websocket); there is
\* one connection, and its bytes come in order (IoLoop).
StreamsArrive ==
  /\ active = "web" => Web!MessagesArrive
  /\ active = "io" => Io!OneConnection /\ Io!BytesInOrder

\* Paths are shortest, complete before a packet follows them, and lead home (L2Multi).
PathsFollowed == active = "paths" => Paths!PathsShortest /\ Paths!PathReady /\ Paths!FlowsLeadHome

\* Switches flood to a forest, as large as the links allow (SpanningForest).
FloodsTheForest == active = "forest" => Forest!FloodsTheForest

\* The switch has the routes of the table, and none is announced to where it came from
\* (RipRouter).
RoutesRight == active = "rip" => Rip!SwitchRoutes /\ Rip!NotEchoed

\* A packet waits once and flows follow a host that moves (L3Learning).
WaitsOnce == active = "l3" => Hosts!WaitsOnce /\ Hosts!FlowsFollow

\* A connection stays with its server (IpLoadBalancer).
StaysWithServer == active = "balancer" => Respond!StaysWithServer

\* The table has the flows of the switch (SyncFlowTable).
InSync == active = "sync" => Sync!InSync

\* ARP does not take over an address the switches answer for (ArpResponder).
AnswersRight == active = "arp" => Respond!AnswersRight

\* Events are whole replies, and what comes undisturbed is raised (StatsReplies).
RepliesWhole == active = "stats" => Connection!WholeReplies /\ Connection!RepliesRaised

\* A request has its own answer, the table it wanted is there when it is told so, and
\* nobody is left listening (OFRequests).
RequestsAnswered ==
  active = "requests" => /\ Requests!AllTaken /\ Requests!OwnAnswer
                         /\ Requests!NobodyLeft /\ Requests!TableSet

\* Bytes reach a socket in order and without a gap (DeferredSender).
StreamIntact == active = "sender" => Connection!StreamIntact

\* The WaitGroup of the dealer is never done too often, nodes get transactions in one order,
\* and a result that comes in time reaches the call that waits for it (DealerGateway).
DealerSound == active = "dealer" => Requests!DealerSound

\* A host that answers is not given up (HostTracker).
HostsStay == [][active = "hosts" => Hosts!HostStays]_vars
=============================================================================
