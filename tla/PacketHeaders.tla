---------------------------- MODULE PacketHeaders ----------------------------
(***************************************************************************)
(* Frames through the software switch of POX (pox/datapaths/switch.py) and *)
(* the packet library (pox/lib/packet).  parse() turns a frame into a      *)
(* chain of header objects linked by `next`; the actions of a flow change  *)
(* the chain; pack() turns it into the bytes that leave the switch.        *)
(*                                                                         *)
(* The network is described by what its frames mean: a description says    *)
(* what each header has, and Wire is the frame that a correct sender       *)
(* makes of it.                                                            *)
(***************************************************************************)
EXTENDS PacketObjects

-----------------------------------------------------------------------------
(* parse()                                                                  *)

EtherType ==
  (33024 :> "vlan") @@ (2054 :> "arp") @@ (2048 :> "ipv4") @@ (34887 :> "mpls") @@
  (34525 :> "ipv6") @@ (35020 :> "lldp") @@ (34958 :> "eapol")
IpProtocol == (17 :> "udp") @@ (6 :> "tcp") @@ (1 :> "icmp") @@ (2 :> "igmp") @@ (47 :> "gre")

\* udp.parse: what the ports announce.
UdpPayload(src, dst) ==
  IF dst \in {67, 68} THEN "dhcp"
  ELSE IF {src, dst} \cap {53, 5353} # {} THEN "dns"
  ELSE IF 520 \in {src, dst} THEN "rip"
  ELSE IF 4789 \in {src, dst} THEN "vxlan"
  ELSE "bytes"

RECURSIVE ParseAs(_, _)

\* ethernet.parse_next
ParseNext(type, cells, allowLlc) ==
  IF type \in DOMAIN EtherType THEN ParseAs(EtherType[type], cells)
  ELSE IF type < 1536 /\ allowLlc THEN ParseAs("llc", cells)
  ELSE <<Plain(cells)>>

ParseLlc(cells) ==
  LET wide == ~HasBit(cells[3][3], 1)
      n == IF wide THEN 4 ELSE 3
      snap == cells[1][3] \div 2 = 85 /\ cells[2][3] \div 2 = 85
      all == n + (IF snap THEN 2 ELSE 0)
  IN IF wide /\ Len(cells) < 4 THEN <<NotParsed("llc", cells)>>
     ELSE IF snap /\ Width(From(cells, n + 1)) < 5 THEN <<NotParsed("llc", cells)>>
     \* the OUI, which is bytes, never equals the string it is compared with
     ELSE <<HeaderOf("llc", SubSeq(cells, 1, all), <<>>), Plain(From(cells, all + 1))>>

\* The bottom bit ends the stack, and so does a rest of less than a header.
ParseMpls(cells) ==
  LET h == HeaderOf("mpls", FixedPart("mpls", cells), <<>>)
      bottom == HasBit(cells[2][3], 1)
  IN IF Width(cells) >= 8 /\ ~bottom THEN <<h>> \o ParseAs("mpls", Behind("mpls", cells))
     ELSE <<h, Plain(Behind("mpls", cells))>>

ParseArp(cells) ==
  IF cells[1][3] = 1 /\ cells[2][3] = 2048 /\ cells[3][3] = 6 /\ cells[4][3] = 4
  THEN <<HeaderOf("arp", FixedPart("arp", cells), <<>>), Plain(Behind("arp", cells))>>
  ELSE <<NotParsed("arp", cells)>>

ParseIpv4(cells) ==
  LET dlen == Width(cells)
      hl == (cells[1][3] % 16) * 4
      iplen == cells[3][3]
      options == Take(Behind("ipv4", cells), hl - 20)
      length == IF iplen > dlen THEN dlen ELSE iplen
      body == Take(Skip(cells, hl), length - hl)
      protocol == cells[7][3]
      h == HeaderOf("ipv4", FixedPart("ipv4", cells), options)
      next == ParseAs(IpProtocol[protocol], body)
  IN IF cells[1][3] \div 16 # 4 \/ hl < 20 \/ iplen < 20 \/ hl > iplen \/ hl > dlen
     THEN <<NotParsed("ipv4", cells)>>
     ELSE IF cells[5][3] % 8192 # 0 THEN <<h, Plain(body)>>
     ELSE IF protocol \in DOMAIN IpProtocol
     THEN IF Fails(next) THEN <<Raise>>
          ELSE IF next[1].parsed THEN <<h>> \o next ELSE <<h, Plain(body)>>
     ELSE IF dlen < iplen THEN <<h>> ELSE <<h, Plain(body)>>

ParseUdp(cells) ==
  LET h == HeaderOf("udp", FixedPart("udp", cells), <<>>)
      len == cells[3][3]
      payload == UdpPayload(cells[1][3], cells[2][3])
      rest == Behind("udp", cells)
  IN IF len < 8 THEN <<h>>
     ELSE IF payload # "bytes" THEN <<h>> \o ParseAs(payload, rest)
     ELSE IF Width(cells) < len THEN <<h>>
     ELSE <<h, Plain(rest)>>

ParseTcp(cells) ==
  LET off == (cells[5][3] \div 16) * 4
      options == ReadOptions(Behind("tcp", cells), off - 20)
  IN IF off < 20 \/ off > Width(cells) \/ BadOption \in ToSet(options)
     THEN <<NotParsed("tcp", cells)>>
     ELSE <<HeaderOf("tcp", FixedPart("tcp", cells), options), Plain(Skip(cells, off))>>

\* unreach and time_exceeded ask the class ipv4 for an attribute ipv4: the name
\* of the module is the class's in the package.
ParseIcmpError(c, cells) ==
  IF Width(cells) >= 28 THEN <<Raise>>
  ELSE <<HeaderOf(c, FixedPart(c, cells), <<>>), Plain(Behind(c, cells))>>

ParseIcmp(cells) ==
  LET rest == Behind("icmp", cells) IN
  <<HeaderOf("icmp", FixedPart("icmp", cells), <<>>)>> \o
    (CASE cells[1][3] \in {0, 8} -> ParseAs("echo", rest)
       [] cells[1][3] = 3 -> ParseAs("unreach", rest)
       [] cells[1][3] = 11 -> ParseAs("time_exceeded", rest)
       [] OTHER -> <<Plain(rest)>>)

\* The checksum, the key and the number are there by the flags; with a routing
\* entry hdr() raises.
GreBit(h, b) == HasBit(Value(h, "flags"), b)
ParseGre(cells) ==
  LET n == Cardinality({b \in {8192, 4096} : GreBit(cells, b)})
           + (IF GreBit(cells, 32768) \/ GreBit(cells, 16384) THEN 2 ELSE 0)
      m == IF GreBit(cells, 16384) THEN n + 3 ELSE n
      h == HeaderOf("gre", SubSeq(cells, 1, 2 + m), <<>>)
      rest == From(cells, 3 + m)
  IN <<h>> \o (CASE cells[2][3] = 2048 -> ParseAs("ipv4", rest)
                 [] cells[2][3] = 25944 -> ParseAs("ethernet", rest)
                 [] OTHER -> <<Plain(rest)>>)

\* _extension_headers by their type, and Fragment, which asks for more bytes
\* than its offset behind the fixed header leaves.
Extension == {0, 43, 60}
NoNextHeader == 59

\* ipv6.parse, the loop: <<type of what follows, its cells, length>>.  The
\* length goes down by the number in the header and not by its bytes.
RECURSIVE Extensions(_, _, _)
Extensions(type, cells, length) ==
  IF type = 44 THEN <<-1, cells, length>>
  ELSE IF type \notin Extension THEN <<type, cells, length>>
  ELSE IF length < 8 \/ length < (cells[2][3] + 1) * 8 THEN <<-1, cells, length>>
  ELSE Extensions(cells[1][3], Skip(cells, (cells[2][3] + 1) * 8), length - cells[2][3])

Pseudo(ip, protocol, n) ==
  Value(ip.fields, "srcip") + Value(ip.fields, "dstip") + protocol + n

\* PacketTooBig and TimeExceeded, and the messages of neighbour discovery, whose
\* options come behind these bytes, are read and cannot be packed.
CannotPack6 == {2, 3}
BeforeNdOptions == (133 :> 4) @@ (134 :> 12) @@ (135 :> 20) @@ (136 :> 20)
\* unreach asks the class ipv6 for an attribute ipv6.
Icmpv6Body(type, rest) ==
  CASE type \in {128, 129} -> ParseAs("echo", rest)
    [] type = 1 -> IF Width(rest) >= 48 THEN <<Raise>> ELSE ParseAs("unreach6", rest)
    [] type \in CannotPack6 -> <<HeaderOf("unpackable", <<>>, <<>>)>>
    [] type \in DOMAIN BeforeNdOptions ->
         IF NdOptions(Skip(rest, BeforeNdOptions[type])) = "raises" THEN <<Raise>>
         ELSE <<HeaderOf("unpackable", <<>>, <<>>)>>
    [] OTHER -> <<Plain(rest)>>
ParseIcmpv6(ip, cells) ==
  IF Width(cells) < 4 THEN <<NotParsed("icmpv6", cells)>>
  ELSE IF ~CanSum(cells) THEN <<Raise>>
  ELSE IF Pseudo(ip, 58, Width(cells)) + SumOf(WithField(cells, "csum", 0)) # cells[3][3]
  THEN <<NotParsed("icmpv6", cells)>>
  ELSE <<HeaderOf("icmpv6", FixedPart("icmpv6", cells), <<>>)>> \o
         Icmpv6Body(cells[1][3], Behind("icmpv6", cells))

ParseIpv6(cells) ==
  LET h == HeaderOf("ipv6", FixedPart("ipv6", cells), <<>>)
      given == cells[2][3]
      length == IF given > Width(cells) THEN Width(cells) ELSE given
      inner == Extensions(cells[3][3], Behind("ipv6", cells), length)
      body == Take(inner[2], inner[3])
      next == CASE inner[1] = 58 -> ParseIcmpv6(h, body)
                [] inner[1] \in {6, 17} -> ParseAs(IpProtocol[inner[1]], body)
                [] OTHER -> <<Plain(body)>>
  IN IF cells[1][3] # 6 \/ inner[1] = -1 THEN <<NotParsed("ipv6", cells)>>
     ELSE IF inner[1] = NoNextHeader THEN <<h>>
     ELSE IF Fails(next) THEN <<Raise>>
     ELSE IF next[1].parsed THEN <<h>> \o next ELSE <<h, Plain(body)>>

\* The other types, and what is behind an EAP message, are not kept.
ParseEapol(cells) ==
  <<HeaderOf("eapol", FixedPart("eapol", cells), <<>>)>> \o
    (IF cells[2][3] = 0 THEN ParseAs("eap", Behind("eapol", cells)) ELSE <<>>)

\* The tag is kept in three fields; cfi is masked and not shifted.
ParseVlan(cells) ==
  LET tci == cells[1][3] IN
  <<HeaderOf("vlan", <<Cell("pcp", 0, tci \div 8192),
                     Cell("cfi", 0, IF HasBit(tci, 4096) THEN 4096 ELSE 0),
                     Cell("id", 0, tci % 4096), cells[2]>>, <<>>)>> \o
    ParseNext(cells[2][3], Behind("vlan", cells), TRUE)

\* An exception propagates through every parse() that is under way.
Propagate(chain) == IF Fails(chain) THEN <<Raise>> ELSE chain

ParseAs(c, cells) ==
  Propagate(
    IF c \in DOMAIN Layouts /\ Width(cells) < MinLen(c) THEN <<NotParsed(c, cells)>>
    ELSE CASE c = "ethernet" ->
                <<HeaderOf(c, FixedPart(c, cells), <<>>)>> \o
                  ParseNext(cells[3][3], Behind(c, cells), TRUE)
           [] c = "vxlan" ->
                <<HeaderOf(c, FixedPart(c, cells), <<>>)>> \o
                  ParseAs("ethernet", Behind(c, cells))
           [] c \in {"echo", "unreach6"} ->
                <<HeaderOf(c, FixedPart(c, cells), <<>>), Plain(Behind(c, cells))>>
           [] c \in {"unreach", "time_exceeded"} -> ParseIcmpError(c, cells)
           [] c = "vlan" -> ParseVlan(cells)
           [] c = "llc" -> ParseLlc(cells)
           [] c = "mpls" -> ParseMpls(cells)
           [] c = "arp" -> ParseArp(cells)
           [] c = "ipv4" -> ParseIpv4(cells)
           [] c = "ipv6" -> ParseIpv6(cells)
           [] c = "udp" -> ParseUdp(cells)
           [] c = "tcp" -> ParseTcp(cells)
           [] c = "icmp" -> ParseIcmp(cells)
           [] c = "igmp" -> ParseIgmp(cells)
           [] c = "gre" -> ParseGre(cells)
           [] c = "rip" -> ParseRip(cells)
           [] c = "dns" -> ParseDns(cells)
           [] c = "dhcp" -> ParseDhcp(cells)
           [] c = "lldp" -> ParseLldp(cells)
           [] c = "eapol" -> ParseEapol(cells)
           [] c = "eap" -> ParseEap(cells)
           [] OTHER -> <<Plain(cells)>>)

-----------------------------------------------------------------------------
(* pack(): hdr() of each object, with what is packed behind it.             *)

\* Mutant: the checksum of the network header is kept as it was read.
PackIpv4Stale(h, rest) ==
  WithField(h.fields, "iplen", (Value(h.fields, "vhl") % 16) * 4 + Width(rest)) \o h.list

PackIpv4(h, rest) ==
  LET fields == WithField(h.fields, "iplen",
                          (Value(h.fields, "vhl") % 16) * 4 + Width(rest))
  IN WithField(fields, "csum", SumOf(WithField(fields, "csum", 0) \o h.list)) \o h.list

\* udp.checksum, tcp.checksum: zero unless in an IP packet.
PackUdp(h, rest, prev) ==
  LET n == 8 + Width(rest)
      fields == WithField(h.fields, "len", n)
      sum == Pseudo(prev, Value(prev.fields, "protocol"), n) + SumOf(WithField(fields, "csum", 0) \o rest)
  IN IF prev.class \notin {"ipv4", "ipv6"} THEN WithField(fields, "csum", 0)
     ELSE IF ~CanSum(rest) THEN Unsendable
     ELSE WithField(fields, "csum", sum)

PackTcp(h, rest, prev) ==
  LET options == PackOptions(h.list)
      off == (20 + Width(options)) \div 4
      fields == WithField(h.fields, "offres", off * 16 + (Value(h.fields, "offres") % 16))
      sum == Pseudo(prev, Value(prev.fields, "protocol"), Width(fields \o options \o rest))
             + SumOf(WithField(fields, "csum", 0) \o options \o rest)
  IN IF prev.class \notin {"ipv4", "ipv6"} THEN WithField(fields, "csum", 0) \o options
     ELSE IF ~CanSum(rest) THEN Unsendable
     ELSE WithField(fields, "csum", sum) \o options

PackIcmp(h, rest, pseudo) ==
  IF ~CanSum(rest) THEN Unsendable
  ELSE WithField(h.fields, "csum", pseudo + SumOf(WithField(h.fields, "csum", 0) \o rest))

PackIgmp(h) ==
  LET fields == IF h.class = "igmp3"
                THEN WithField(WithField(h.fields, "res1", 0), "res2", 0) ELSE h.fields
  IN WithField(fields, "csum", SumOf(WithField(fields, "csum", 0) \o h.list)) \o h.list

\* A routing entry is unpacked into the wrong number of parts, the recursion is
\* shifted out, and a checksum that was read must be right.
PackGre(h, rest) ==
  LET kept(b) == IF GreBit(h.fields, b) THEN b ELSE 0
      fields == WithField(h.fields, "flags",
                          kept(32768) + kept(8192) + kept(4096) + kept(2048))
      sum == SumOf(WithField(fields, "csum", 0) \o rest)
  IN IF kept(16384) # 0 THEN Unsendable
     ELSE IF kept(32768) # 0 /\ (~CanSum(rest) \/ sum # Value(fields, "csum"))
     THEN Unsendable ELSE fields

PackVxlan(h) ==
  LET hasVni == HasBit(Value(h.fields, "flags"), 8) IN
  <<Cell("flags", 1, IF hasVni THEN 8 ELSE 0), Cell("reserved1", 3, 0),
    Cell("vni", 3, IF hasVni THEN Value(h.fields, "vni") ELSE 0), Cell("reserved2", 1, 0)>>

\* struct.pack refuses what does not fit in 16 bits.
PackVlan(h) ==
  LET tci == Value(h.fields, "pcp") * 8192 + Value(h.fields, "cfi") * 4096
             + Value(h.fields, "id")
  IN IF tci > 65535 THEN Unsendable ELSE <<Cell("tci", 2, tci), h.fields[4]>>

HeaderCells(h, rest, prev) ==
  CASE h.class = "vlan" -> PackVlan(h)
    [] h.class = "ipv4" -> PackIpv4(h, rest)
    \* the extension headers are not written
    [] h.class = "ipv6" -> WithField(h.fields, "payload_length", Width(rest))
    [] h.class = "udp" -> PackUdp(h, rest, prev)
    [] h.class = "tcp" -> PackTcp(h, rest, prev)
    [] h.class = "icmp" -> PackIcmp(h, rest, 0)
    [] h.class = "icmpv6" -> PackIcmp(h, rest, Pseudo(prev, 58, 4 + Width(rest)))
    [] h.class \in {"igmp", "igmp3"} -> PackIgmp(h)
    [] h.class = "gre" -> PackGre(h, rest)
    [] h.class = "vxlan" -> PackVxlan(h)
    [] h.class = "rip" -> WithField(h.fields, "zero", 0) \o h.list
    [] h.class = "lldp" -> h.list
    [] h.class = "unpackable" -> Unsendable
    [] OTHER -> h.fields

\* packet_base.pack
RECURSIVE PackFrom(_, _)
PackFrom(chain, i) ==
  LET h == chain[i]
      rest == IF i = Len(chain) THEN <<>> ELSE PackFrom(chain, i + 1)
      prev == IF i = 1 THEN Plain(<<>>) ELSE chain[i - 1]
  IN IF ~h.parsed /\ i = Len(chain) THEN h.raw
     ELSE IF Broken(rest) THEN Unsendable
     ELSE HeaderCells(h, rest, prev) \o rest
PackFrame(chain) == PackFrom(chain, 1)

-----------------------------------------------------------------------------
(* The actions of a flow, on the chain.                                     *)

Tagged(chain) == Len(chain) > 1 /\ chain[2].class = "vlan"
\* What nw is in _action_set_nw_src and the like.
NetworkAt(chain) == IF Tagged(chain) THEN 3 ELSE 2
SetAt(chain, i, f, v) == [chain EXCEPT ![i].fields = WithField(@, f, v)]

\* _action_set_vlan_vid, _action_set_vlan_pcp: set_payload refuses None.
SetVlan(chain, f, v) ==
  LET tag == HeaderOf("vlan", <<Cell("pcp", 0, 0), Cell("cfi", 0, 0), Cell("id", 0, 0),
                              chain[1].fields[3]>>, <<>>)
      outer == [chain[1] EXCEPT !.fields = WithField(@, "type", 33024)]
  IN IF Tagged(chain) THEN SetAt(chain, 2, f, v)
     ELSE IF Len(chain) = 1 THEN <<Raise>>
     ELSE SetAt(<<outer, tag>> \o Tail(chain), 2, f, v)

StripVlan(chain) ==
  IF ~Tagged(chain) THEN chain
  ELSE IF Len(chain) = 2 THEN <<Raise>>
  ELSE <<[chain[1] EXCEPT !.fields = WithField(@, "type", chain[2].fields[4][3])]>> \o
         From(chain, 3)

HasIpv4(chain) == Len(chain) >= NetworkAt(chain) /\ chain[NetworkAt(chain)].class = "ipv4"
SetIpv4(chain, f, v) ==
  IF HasIpv4(chain) THEN SetAt(chain, NetworkAt(chain), f, v) ELSE chain
SetTransport(chain, f, v) ==
  LET i == NetworkAt(chain) + 1 IN
  IF HasIpv4(chain) /\ Len(chain) >= i /\ chain[i].class \in {"udp", "tcp"}
  THEN SetAt(chain, i, f, v) ELSE chain

DlFields == {"src", "dst"}
VlanFields == {"id", "pcp"}
NwFields == {"srcip", "dstip", "tos"}
TpFields == {"srcport", "dstport"}
\* An action is <<field, value>>, or <<"strip", 0>>.
Apply(chain, a) ==
  CASE a[1] \in DlFields -> SetAt(chain, 1, a[1], a[2])
    [] a[1] \in VlanFields -> SetVlan(chain, a[1], a[2])
    [] a[1] = "strip" -> StripVlan(chain)
    [] a[1] \in NwFields -> SetIpv4(chain, a[1], a[2])
    [] a[1] \in TpFields -> SetTransport(chain, a[1], a[2])

-----------------------------------------------------------------------------
(* What the actions mean, on the frame itself: a field is replaced where it *)
(* is, and the checksums over it go up by the difference (RFC 1624).        *)

Where(frame, f) == {i \in DOMAIN frame : frame[i][1] = f}
Replace(frame, f, v, sums) ==
  LET at == Min(Where(frame, f)) IN
  [i \in DOMAIN frame |->
     IF i = at THEN Cell(f, frame[i][2], v)
     ELSE IF i \in sums THEN Cell("csum", 2, frame[i][3] + v - frame[at][3])
     ELSE frame[i]]

WithTag(frame) == frame[3][3] = 33024
CarriesIpv4(frame) ==
  frame[IF WithTag(frame) THEN 5 ELSE 3][3] = 2048 /\ Where(frame, "vhl") # {}
\* The ports are in the frame.
CarriesPorts(frame) ==
  CarriesIpv4(frame) /\ Value(frame, "protocol") \in {6, 17} /\ Value(frame, "frag") % 8192 = 0
IpSum(frame) == {Min(Where(frame, "csum"))}
PortSum(frame) ==
  IF CarriesPorts(frame) THEN {Min(Where(frame, "csum") \ IpSum(frame))} ELSE {}

InTag(frame, f, v) ==
  LET tci == frame[4][3] IN
  [frame EXCEPT ![4] = Cell("tci", 2, IF f = "id" THEN (tci \div 4096) * 4096 + v
                                      ELSE v * 8192 + (tci % 8192))]
Meaning(frame, a) ==
  LET f == a[1]
      v == a[2]
      tag == <<Cell("type", 2, 33024), Cell("tci", 2, 0)>>
  IN CASE f \in DlFields -> Replace(frame, f, v, {})
       [] f \in VlanFields ->
            InTag(IF WithTag(frame) THEN frame
                  ELSE SubSeq(frame, 1, 2) \o tag \o From(frame, 3), f, v)
       [] f = "strip" ->
            IF WithTag(frame) THEN SubSeq(frame, 1, 2) \o From(frame, 5) ELSE frame
       [] f = "tos" ->
            IF CarriesIpv4(frame) THEN Replace(frame, f, v, IpSum(frame)) ELSE frame
       [] f \in {"srcip", "dstip"} ->
            IF CarriesIpv4(frame)
            THEN Replace(frame, f, v, IpSum(frame) \cup PortSum(frame)) ELSE frame
       [] f \in TpFields ->
            IF CarriesPorts(frame) THEN Replace(frame, f, v, PortSum(frame)) ELSE frame

-----------------------------------------------------------------------------
(* A frame is received, changed by the actions of a flow and sent.          *)

CONSTANTS
  \* Frames that the library carries whole: sequences of cells.
  Frame,
  \* Those it carries whole as long as no action changes them.
  FrameToKeep,
  \* Those of which something is lost, or which make it raise.
  FrameLost,
  Rewrite,
  MaxRewrites

VARIABLES
  received,  \* the frame, <<>> at first
  chain,     \* the objects
  meant,     \* what the frame is after the actions so far
  rewrites,
  sent

headerVars == <<received, chain, meant, rewrites, sent>>

HeadersInit ==
  /\ received = <<>> /\ chain = <<>> /\ meant = <<>>
  /\ rewrites = 0
  /\ sent = <<>>

\* rx_packet is given the object that ethernet(raw=...) made.
Parse ==
  /\ received = <<>>
  /\ \E frame \in Frame \cup FrameToKeep \cup FrameLost :
       /\ received' = frame
       /\ chain' = ParseAs("ethernet", frame)
       /\ meant' = frame
  /\ UNCHANGED <<rewrites, sent>>

Running == received # <<>> /\ sent = <<>> /\ ~Fails(chain)

\* _process_actions_for_packet
ApplyAction ==
  /\ Running /\ rewrites < MaxRewrites
  /\ \E a \in Rewrite :
       /\ chain' = Apply(chain, a)
       /\ meant' = IF received \in Frame THEN Meaning(meant, a) ELSE meant
  /\ rewrites' = rewrites + 1
  /\ UNCHANGED <<received, sent>>

\* A switch port has the frame sent as packet.pack().
SendFrame ==
  /\ Running
  /\ sent' = PackFrame(chain)
  /\ UNCHANGED <<received, chain, meant, rewrites>>

HeadersNext == Parse \/ ApplyAction \/ SendFrame

\* A frame leaves as it came but for what the actions of its flow say: no
\* header loses a field, a length or what is behind it, and every checksum is
\* right.  hdr() computes lengths, offsets and checksums anew from objects in
\* which parse() kept only some of the frame; FrameToKeep and FrameLost name
\* the frames for which that does not hold.
ForwardedWhole ==
  received \in Frame \/ (received \in FrameToKeep /\ rewrites = 0)
    => ~Fails(chain) /\ sent \in {<<>>, meant}
=============================================================================
