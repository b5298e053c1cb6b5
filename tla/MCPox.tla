------------------------------- MODULE MCPox --------------------------------
(***************************************************************************)
(* Instances of the modules about POX for TLC.  A behaviour is one of the  *)
(* component `active`; the others stay where they start.                   *)
(***************************************************************************)
EXTENDS OpenFlowMessages, NiciraMessages, OpenFlowMatch, PacketHeaders

CONSTANTS Wild, h1, h2

VARIABLES
  active, table, buffer, portConfig, ctlQueue, swQueue, macToPort, left, arrivals, mods,
  swPorts, swCon, helloSent, barriers, tcp, toCtl, toSw, con, polled, nexus, ups,
  downs, steps,
  found, portsOf, thisCycle, nextCycle, inFlight, links, fresh, changes,
  topo, linked, young, known, prev, flood,
  macs, activeLinks, blocks, calculated, notices, replies, outs, packets, linkEvents

-----------------------------------------------------------------------------
(* OpenFlow messages: every class, with every kind of part it may have.    *)

P(c) == [class |-> c, parts |-> <<>>]
X(c, parts) == [class |-> c, parts |-> parts]
NBytes(n) == [class |-> "bytes", parts |-> n]
Queue(n) == X("packet_queue", [i \in 1..n |-> P("min_rate")])
FlowStats(n) == X("flow_stats", [i \in 1..n |-> P("output")])

Followers == {P("barrier_reply"), X("packet_out", <<P("output"), NBytes(3)>>)}

ActionPart(c) == IF c \in {"vendor_action", "unknown_action"} THEN X(c, <<NBytes(4)>>)
                 ELSE P(c)
AllMessages ==
  {P(c) : c \in DOMAIN Messages \ {"stats_request", "stats_reply"}} \cup
  {X("flow_mod", <<ActionPart(a), P("set_dl_src")>>) : a \in DOMAIN Actions} \cup
  {X("packet_out", <<ActionPart(a), P("enqueue"), NBytes(3)>>) : a \in DOMAIN Actions} \cup
  {X(c, <<NBytes(3)>>) :
     c \in {"error", "echo_request", "echo_reply", "vendor", "packet_in", "packet_out"}} \cup
  {X("features_reply", <<P("phy_port"), P("phy_port")>>),
   X("queue_get_config_reply", <<Queue(0), Queue(2), Queue(1)>>),
   X("stats_reply", <<FlowStats(0), FlowStats(2), FlowStats(1)>>),
   X("stats_reply", <<P("port_stats"), P("port_stats")>>)} \cup
  {X("stats_request", <<P(StatsInfo(t)[1])>>) : t \in 0..5} \cup
  {X("stats_reply", <<P(StatsInfo(t)[2])>>) : t \in 0..5}

-----------------------------------------------------------------------------
(* Nicira's objects.                                                       *)

Reg(c, r, o, n) == [class |-> c, reg |-> r, offset |-> o, nbits |-> n]
UpTo(n, S) == UNION {[1..k -> S] : k \in 0..n}
Specs ==
  {Spec2("field", "match", 12), Spec2("field", "output", 16),
   Spec2("immediate", "match", 16), Spec2("immediate", "load", 48),
   Spec2("field", "load", 48), Spec2("immediate", "output", 32)}
Matches ==
  {<<>>, <<Entry("ip_src", "some")>>, <<Entry("weird", "some")>>,
   <<Entry("in_port", "none"), Entry("eth_src", "some")>>,
   <<Entry("weird", "none"), Entry("ip_src", "none")>>}
\* Those without padding behind them.
Aligned ==
  {<<>>, <<Entry("ip_src", "none")>>,
   <<Entry("ip_src", "some"), Entry("tun_id", "some"), Entry("weird", "none")>>,
   <<Entry("eth_src", "none"), Entry("in_port", "none")>>}
InFlowMod ==
  {[class |-> "exit"], Reg("reg_load", "weird", 0, 32),
   [class |-> "learn", spec |-> <<Spec2("field", "match", 12)>>]}
NxObjects ==
  {[class |-> c] : c \in DOMAIN FixedActions \cup DOMAIN FixedMessages} \cup
  {Reg(c, r, o, n) : c \in {"output_reg", "reg_load"}, o \in {0, 5}, n \in {0, 1, 16},
     r \in {"reg1", "tun_id", "ipv6_src", "mpls_label", "weird"}} \cup
  {[class |-> "reg_move", src |-> s, reg |-> d, nbits |-> n] :
     s \in {"reg1", "weird"}, d \in {"tun_id", "mpls_tc"}, n \in {0, 3}} \cup
  {Reg("bundle", "reg1", 0, 16) @@ [slaves |-> k] : k \in 0..8} \cup
  {[class |-> "learn", spec |-> s] : s \in UpTo(2, Specs)} \cup
  {Entry(t, "none") : t \in DOMAIN Known \cup {"weird"}} \cup
  {Entry(t, m) : t \in Maskable \cup {"weird"}, m \in {"some", "ones"}} \cup
  {[class |-> "packet_in", match |-> m, data |-> d] : m \in Matches, d \in {0, 3}} \cup
  {[class |-> "flow_mod", match |-> m, actions |-> a] :
     m \in Aligned, a \in UpTo(2, InFlowMod)}

-----------------------------------------------------------------------------
(* Matches: no fragment of TCP but the later ones.                         *)

Pkt(type, proto, frag, vlan) ==
  [port |-> "port 1", from |-> "mac a", to |-> "mac b", vlan |-> vlan, type |-> type,
   proto |-> proto, tos |-> "tos", src |-> 1, dst |-> 2, sport |-> "p1",
   dport |-> "p2", frag |-> frag]
Packets ==
  {Pkt("ip", p, f, v) : p \in {"tcp", "ospf"}, f \in {"whole", "later"},
                        v \in {"OFP_VLAN_NONE", "5"}} \cup
  {Pkt("ip", "icmp", "whole", "5"), Pkt("ip", "ospf", "first", "5")} \cup
  {Pkt("arp", p, "whole", "5") : p \in {"request", "opcode over 255"}} \cup
  {Pkt("ipv6", "tcp", "whole", "5"), Pkt("other", "tcp", "whole", "5")}

-----------------------------------------------------------------------------
(* Frames, as a correct sender makes them.                                 *)

Data(n) == <<Cell("data", n, 5)>>
Summed(h, rest, more) == WithField(h, "csum", more + SumOf(WithField(h, "csum", 0) \o rest))
EthF(type, rest) == <<Cell("dst", 6, 1), Cell("src", 6, 2), Cell("type", 2, type)>> \o rest
VlanF(tci, type, rest) == EthF(33024, <<Cell("tci", 2, tci), Cell("type", 2, type)>> \o rest)
OptsF(opts, proto, frag, rest) ==
  Summed(<<Cell("vhl", 1, 69 + Width(opts) \div 4), Cell("tos", 1, 3),
           Cell("iplen", 2, 20 + Width(opts \o rest)), Cell("id", 2, 7), Cell("frag", 2, frag),
           Cell("ttl", 1, 64), Cell("protocol", 1, proto), Cell("csum", 2, 0),
           Cell("srcip", 4, 10), Cell("dstip", 4, 20)>> \o opts, <<>>, 0) \o rest
IpF(proto, frag, rest) == OptsF(<<>>, proto, frag, rest)
Ip6F(next, rest) ==
  <<Cell("vtcfl", 4, 6), Cell("payload_length", 2, Width(rest)), Cell("protocol", 1, next),
    Cell("hop_limit", 1, 9), Cell("srcip", 16, 10), Cell("dstip", 16, 20)>> \o rest

\* `missing` is the part of a datagram that its other fragments have.
UdpFragF(dport, rest, missing) ==
  LET n == 8 + Width(rest \o missing) IN
  Summed(<<Cell("srcport", 2, 4000), Cell("dstport", 2, dport), Cell("len", 2, n),
           Cell("csum", 2, 0)>>, rest \o missing, 10 + 20 + 17 + n) \o rest
UdpF(dport, rest) == UdpFragF(dport, rest, <<>>)
TcpF(opts, rest) ==
  Summed(<<Cell("srcport", 2, 4000), Cell("dstport", 2, 80), Cell("seq", 4, 1),
           Cell("ack", 4, 2), Cell("offres", 1, (5 + Width(opts) \div 4) * 16 + 1),
           Cell("flags", 1, 3), Cell("win", 2, 4), Cell("csum", 2, 0), Cell("urg", 2, 0)>>,
         opts \o rest, 10 + 20 + 6 + 20 + Width(opts \o rest)) \o opts \o rest
IcmpF(type, rest) ==
  Summed(<<Cell("type", 1, type), Cell("code", 1, 0), Cell("csum", 2, 0)>>, rest, 0) \o rest
Icmp6F(type, rest) ==
  Summed(<<Cell("type", 1, type), Cell("code", 1, 0), Cell("csum", 2, 0)>>, rest,
         10 + 20 + 58 + 4 + Width(rest)) \o rest
OptF(kind, rest) == <<Cell("kind", 1, kind), Cell("olen", 1, 2 + Width(rest))>> \o rest
Nop == <<Cell("kind", 1, 1)>>
Echo(n) == <<Cell("id", 2, 1), Cell("seq", 2, 2)>> \o Data(n)
ArpF(hw) ==
  [i \in 1..9 |-> Cell(Layouts.arp[i][1], Layouts.arp[i][2],
                       <<hw, 2048, 6, 4, 1, 1, 10, 2, 20>>[i])]
DnsF(n) == [i \in 1..7 |-> Cell(Layouts.dns[i][1], Layouts.dns[i][2], IF i = 4 THEN n ELSE 0)]
RipF(zero) ==
  <<Cell("command", 1, 2), Cell("version", 1, 2), Cell("zero", 2, zero), Cell("afi", 2, 2),
    Cell("tag", 2, 0), Cell("ip", 4, 30), Cell("mask", 4, 8), Cell("nexthop", 4, 0),
    Cell("metric", 4, 1)>>
VxlanF(rest) ==
  <<Cell("flags", 1, 8), Cell("reserved1", 3, 0), Cell("vni", 3, 77), Cell("reserved2", 1, 0)>>
  \o rest
GreF(flags, type, more, rest) == <<Cell("flags", 2, flags), Cell("type", 2, type)>> \o more \o rest
TlvF(type, n) == <<Cell("tlv", 2, type * 512 + n)>> \o (IF n = 0 THEN <<>> ELSE Data(n))
LldpF(extra) == TlvF(1, 7) \o TlvF(2, 3) \o TlvF(3, 2) \o extra \o TlvF(0, 0)
MplsF(bottom) == <<Cell("label", 2, 1), Cell("label_tc_s", 1, bottom), Cell("ttl", 1, 9)>>
LlcF(sap, control, rest) ==
  <<Cell("dsap", 1, sap), Cell("ssap", 1, sap), Cell("control", 1, control)>> \o rest
IgmpF == <<Cell("ver_and_type", 1, 22), Cell("max_response_time", 1, 0), Cell("csum", 2, 46),
           Cell("address", 4, 24)>>
Igmp3F(sources, rest) ==
  Summed(<<Cell("ver_and_type", 1, 34), Cell("res1", 1, 0), Cell("csum", 2, 0), Cell("res2", 2, 0),
           Cell("num", 2, 1), Cell("gtype", 1, 4), Cell("auxlen", 1, 0),
           Cell("nsources", 2, sources), Cell("group", 4, 24)>>, rest, 0) \o rest
HopF(next) == <<Cell("next", 1, next), Cell("hlen", 1, 0)>> \o Data(6)

Ip4Payloads ==
  {IpF(17, 0, UdpF(99, Data(4))), IpF(17, 0, UdpF(53, DnsF(1) \o Data(8))),
   IpF(17, 0, UdpF(53, DnsF(0))), IpF(17, 0, UdpF(520, RipF(0))),
   IpF(17, 0, UdpF(4789, VxlanF(EthF(2048, IpF(6, 0, TcpF(<<>>, Data(2))))))),
   IpF(6, 0, TcpF(<<>>, Data(2))), IpF(6, 0, TcpF(OptF(2, Data(2)) \o OptF(4, <<>>) \o Nop \o Nop, <<>>)),
   IpF(6, 0, TcpF(Nop \o OptF(3, Data(1)) \o Nop \o Nop \o OptF(8, Data(8)), Data(6))),
   OptsF(Data(4), 6, 0, TcpF(<<>>, <<>>)), IpF(6, 5, Data(9)), IpF(17, 8197, Data(16)),
   IpF(1, 0, IcmpF(8, Echo(4))), IpF(1, 0, IcmpF(5, Data(8))),
   IpF(1, 0, IcmpF(3, <<Cell("unused", 2, 0), Cell("next_mtu", 2, 0)>> \o Data(8))),
   IpF(2, 0, IgmpF), IpF(2, 0, Igmp3F(0, <<>>)), IpF(89, 0, Data(7)),
   IpF(47, 0, GreF(8192, 2048, <<Cell("key", 4, 3)>>, IpF(17, 0, UdpF(99, Data(2))))),
   IpF(47, 0, GreF(0, 25944, <<>>, EthF(2054, ArpF(1))))}
Frames ==
  {EthF(2048, p) : p \in Ip4Payloads} \cup
  {VlanF(8192 + 7, 2048, p) : p \in {IpF(17, 0, UdpF(99, Data(4))), IpF(6, 0, TcpF(<<>>, Data(2))),
                                     IpF(1, 0, IcmpF(0, Echo(2)))}} \cup
  {EthF(34525, p) : p \in {Ip6F(17, UdpF(99, Data(4))), Ip6F(6, TcpF(<<>>, Data(2))),
                           Ip6F(58, Icmp6F(128, Echo(4))), Ip6F(59, <<>>),
                           Ip6F(44, Data(8) \o Data(4))}} \cup
  {EthF(2054, ArpF(1)), EthF(2054, ArpF(1) \o Data(18)), EthF(2054, ArpF(6)),
   EthF(34887, MplsF(0) \o MplsF(1) \o Data(4)), EthF(35020, LldpF(TlvF(127, 6))),
   EthF(34958, <<Cell("version", 1, 1), Cell("type", 1, 1), Cell("bodylen", 2, 0)>>),
   EthF(10, LlcF(66, 3, Data(7))), EthF(10, LlcF(66, 0, <<Cell("control2", 1, 1)>> \o Data(6))),
   EthF(14, LlcF(170, 3, <<Cell("oui", 3, 0), Cell("pid", 2, 2048)>> \o Data(6))),
   EthF(2048, Data(9)), EthF(4660, Data(5))}

\* TCP and UDP that stay bytes: their checksum is not brought up to date.
FramesToKeep ==
  {EthF(2048, IpF(6, 0, TcpF(Nop \o Nop \o OptF(5, Data(8)), Data(2)))),
   EthF(33024, Data(2))}
FramesLost ==
  \* odd payloads, first fragments, what follows the datagram
  {EthF(2048, p) : p \in {IpF(17, 0, UdpF(99, Data(3))), IpF(6, 0, TcpF(<<>>, Data(3))),
                          IpF(1, 0, IcmpF(8, Echo(1))), IpF(17, 8192, UdpFragF(99, Data(8), Data(4))),
                          IpF(89, 0, Data(4)) \o Data(14)}} \cup
  \* errors, leases, unknown options, group sources, a routing entry
  {EthF(2048, p) : p \in {IpF(1, 0, IcmpF(3, Data(4) \o IpF(17, 0, UdpF(99, <<>>)))),
                          IpF(1, 0, IcmpF(11, Data(4) \o IpF(17, 0, UdpF(99, <<>>)))),
                          IpF(17, 0, UdpF(67, Layouts.dhcp \o OptF(53, Data(1)))),
                          IpF(6, 0, TcpF(OptF(19, Data(2)), Data(2))),
                          IpF(6, 0, TcpF(OptF(30, <<Cell("mp", 1, 32), Cell("dss", 1, 1), Cell("dack", 4, 9)>>), <<>>)),
                          IpF(2, 0, Igmp3F(1, Data(4))),
                          IpF(47, 0, GreF(16384, 2048, <<Cell("csum", 2, 0), Cell("offset", 2, 0), Cell("af", 2, 0),
                                 Cell("sre offset", 1, 0), Cell("sre length", 1, 0)>>, Data(8)))}} \cup
  \* IPv6: extension headers, neighbours, errors
  {EthF(34525, p) : p \in {Ip6F(0, HopF(17) \o UdpF(99, Data(4))),
                           Ip6F(58, Icmp6F(135, Data(4) \o Data(16) \o <<Cell("nd", 1, 1), Cell("ndlen", 1, 1)>> \o Data(6))),
                           Ip6F(58, Icmp6F(1, <<Cell("unused", 4, 0)>> \o Data(48))),
                           Ip6F(58, Icmp6F(2, <<Cell("mtu", 4, 0)>> \o Data(48)))}} \cup
  \* a tag with CFI, an address for management, a login
  {VlanF(4096 + 7, 2048, IpF(89, 0, Data(4))), EthF(35020, LldpF(TlvF(8, 9))),
   EthF(34958, <<Cell("version", 1, 1), Cell("type", 1, 0), Cell("bodylen", 2, 9), Cell("code", 1, 1),
                 Cell("id", 1, 0), Cell("length", 2, 9), Cell("eaptype", 1, 1)>> \o Data(4))}
Rewrites ==
  {<<"src", 77>>, <<"id", 9>>, <<"pcp", 2>>, <<"strip", 0>>, <<"srcip", 55>>, <<"tos", 8>>,
   <<"srcport", 500>>, <<"dstport", 67>>}

-----------------------------------------------------------------------------
formatVars == <<streamVars, nxVars, matchVars, headerVars>>

FormatsInit == StreamInit /\ NxInit /\ MatchInit /\ HeadersInit

MessageStep ==
  /\ active = "messages" /\ StreamNext
  /\ UNCHANGED <<active, nxVars, matchVars, headerVars>>

NiciraStep ==
  /\ active = "nicira" /\ NxNext
  /\ UNCHANGED <<active, streamVars, matchVars, headerVars>>

MatchStep ==
  /\ active = "match" /\ MatchNext
  /\ UNCHANGED <<active, streamVars, nxVars, headerVars>>

HeaderStep ==
  /\ active = "headers" /\ HeadersNext
  /\ UNCHANGED <<active, streamVars, nxVars, matchVars>>

FormatsNext == MessageStep \/ NiciraStep \/ MatchStep \/ HeaderStep

-----------------------------------------------------------------------------
(* The software switch with the learning switch: two ports, two hosts.     *)

SwPort == 1..2
Host == {h1, h2}
At == (h1 :> 1) @@ (h2 :> 2)
MaxBuffers == 1
MaxEntries == 2
MaxPackets == 2
MaxMods == 2

FlowMod(cmd, for, prio, acts, flags, out) ==
  [kind |-> "flow_mod", command |-> cmd, match |-> for, priority |-> prio,
   actions |-> acts, flags |-> flags, timed |-> FALSE, outPort |-> out, buf |-> 0]
AnyMatch == [in |-> Wild, src |-> Wild, dst |-> Wild]
Output(p) == <<"output", p>>

\* Virtual ports as in SoftwareSwitch.
FlowMods ==
  {FlowMod("add", AnyMatch, 65535,
           <<Output(65533), <<"set_dst", h2>>, Output(65531)>>, {"send_flow_rem"}, 65535),
   FlowMod("add", AnyMatch, 1, <<Output(65532)>>, {"check_overlap"}, 65535),
   FlowMod("add", AnyMatch, 1, <<>>, {"emerg"}, 65535),
   FlowMod("modify", [AnyMatch EXCEPT !.src = h1], 0, <<Output(65528)>>, {}, 65535),
   FlowMod("modify_strict", AnyMatch, 1, <<Output(2)>>, {}, 65535),
   FlowMod("delete_strict", AnyMatch, 65535, <<>>, {}, 65533),
   FlowMod("delete", [AnyMatch EXCEPT !.dst = h2], 0, <<>>, {}, 2)}
PortMods == {[kind |-> "port_mod", port |-> 1, bit |-> b, on |-> TRUE] :
               b \in {"no_fwd", "port_down", "no_flood", "no_recv", "no_packet_in"}}

Datapath == INSTANCE SoftwareSwitch

-----------------------------------------------------------------------------
(* The session between controller and switch, connected twice.             *)

Port == {1, 2}
MaxCon == 2
MaxSteps == 2

Session == INSTANCE OpenFlowConnection

-----------------------------------------------------------------------------
(* Discovery, with two switches and two wires between them.                *)

Between == {{<<1, 1>>, <<2, 1>>}, {<<1, 2>>, <<2, 2>>}}
OtherEnd == [p \in UNION Between |-> CHOOSE q \in UNION Between : q # p /\ {p, q} \in Between]
MaxInFlight == 2
MaxChanges == 3

Links == INSTANCE Discovery WITH Switch <- 1..2, Wires <- OtherEnd, connected <- found,
                                 present <- portsOf, adjacency <- links

-----------------------------------------------------------------------------
(* The spanning tree: a triangle, two wires in parallel, and with the      *)
(* options of the component.                                               *)

W(a, b, c, d) == {<<a, b>>, <<c, d>>}
Triangle == {W(1, 1, 2, 1), W(1, 2, 3, 1), W(2, 2, 3, 2)}
Parallel == {W(1, 1, 2, 1), W(1, 2, 2, 2), W(2, 3, 3, 1)}
With(net, noflood, hold) == [wires |-> net, noflood_by_default |-> noflood, hold_down |-> hold]

Tree == INSTANCE SpanningTree WITH Dpid <- 1..3, setting <- topo, connected <- linked, adjacency <- known,
          Setting <- {With(Triangle, FALSE, FALSE), With(Parallel, FALSE, FALSE), With(Triangle, TRUE, TRUE)}

-----------------------------------------------------------------------------
(* The POX application, with two replicas and a link between two switches. *)

FabricLink == (<<1, 1>> :> <<1, 1>>) @@ (<<1, 2>> :> <<2, 1>>) @@ (<<2, 1>> :> <<1, 2>>)
MaxLinkEvents == 2

App == INSTANCE PbftPoxApp WITH Replica <- 1..2, Mac <- Host, Endpoint <- DOMAIN FabricLink,
         LinkOf <- FabricLink, MaxPackets <- 1, macToPort <- macs, checked <- calculated

-----------------------------------------------------------------------------
(* One component runs.                                                     *)

switchVars == <<table, buffer, portConfig, ctlQueue, swQueue, macToPort, left,
                arrivals, mods>>
sessionVars == <<swPorts, swCon, helloSent, barriers, tcp, toCtl, toSw, con, polled,
                 nexus, ups, downs, steps>>
linkVars == <<found, portsOf, thisCycle, nextCycle, inFlight, links, fresh, changes>>
treeVars == <<topo, linked, young, known, prev, flood>>
appVars == <<macs, activeLinks, blocks, calculated, notices, replies, outs, packets,
             linkEvents>>

Formats == {"messages", "nicira", "match", "headers"}

\* What a component that does not run starts with makes no difference.
Init ==
  /\ active \in Formats \cup {"switch", "session", "discovery", "tree", "app"}
  /\ FormatsInit /\ Datapath!Init /\ Session!Init /\ Links!Init /\ Tree!Init /\ App!Init
  /\ active # "session" => barriers /\ swPorts = {}
  /\ active # "tree" => topo = With(Triangle, FALSE, FALSE)

FormatStep ==
  /\ active \in Formats /\ FormatsNext
  /\ UNCHANGED <<switchVars, sessionVars, linkVars, treeVars, appVars>>

SwitchStep ==
  /\ active = "switch" /\ Datapath!Next
  /\ UNCHANGED <<active, formatVars, sessionVars, linkVars, treeVars, appVars>>

SessionStep ==
  /\ active = "session" /\ Session!Next
  /\ UNCHANGED <<active, formatVars, switchVars, linkVars, treeVars, appVars>>

LinkStep ==
  /\ active = "discovery" /\ Links!Next
  /\ UNCHANGED <<active, formatVars, switchVars, sessionVars, treeVars, appVars>>

TreeStep ==
  /\ active = "tree" /\ Tree!Next
  /\ UNCHANGED <<active, formatVars, switchVars, sessionVars, linkVars, appVars>>

AppStep ==
  /\ active = "app" /\ App!Next
  /\ UNCHANGED <<active, formatVars, switchVars, sessionVars, linkVars, treeVars>>

Next == FormatStep \/ SwitchStep \/ SessionStep \/ LinkStep \/ TreeStep
  \/ AppStep

vars == <<active, formatVars, switchVars, sessionVars, linkVars, treeVars, appVars>>
Spec == Init /\ [][Next]_vars

\* The flow table finds the best match among entries that differ, and a packet in a
\* buffer is known to the controller (SoftwareSwitch).
SwitchSound ==
  active = "switch" => Datapath!BestMatch /\ Datapath!NoTwins /\ Datapath!BuffersAccounted

\* What a host sent goes on, unless something drops it (SoftwareSwitch).
Delivered == active = "switch" => Datapath!Delivered

\* A connection that is up knows the ports of the switch, and one that ends raises
\* ConnectionDown once (OpenFlowConnection).
SessionSound == active = "session" => Session!PortsAgree /\ Session!DownOnce

\* Links are of switches that are connected, and every port is announced once in a
\* cycle (Discovery); what is flooded does not run in a circle (SpanningTree).
TopologySound ==
  /\ active = "discovery" => Links!LinksOfConnected /\ Links!OneTurnEach
  /\ active = "tree" => Tree!NoFloodLoop

\* Replicas that handled the same blocks know the same links (PbftPoxApp).
ConsistentView == active = "app" => App!ConsistentView
=============================================================================
