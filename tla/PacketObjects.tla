---------------------------- MODULE PacketObjects ----------------------------
(***************************************************************************)
(* The objects of the packet library of POX (pox/lib/packet), and those of *)
(* its headers that hold no other packet: DNS, DHCP, RIP, IGMP, LLDP, EAP  *)
(* and the options of TCP and of neighbour discovery.                      *)
(*                                                                         *)
(* A frame is a sequence of cells as in WireLayout.  A header object has   *)
(* the cells it was read from as its fields, and in `list` the options,    *)
(* records or entries that it keeps apart.  The Internet checksum is the   *)
(* sum of the values it covers: it tells apart what the real one does but  *)
(* for collisions.  An exception of the code is the object Raise.          *)
(***************************************************************************)
EXTENDS WireLayout, FiniteSets

Cell(f, n, v) == <<f, n, v>>

HeaderOf(c, fields, list) ==
  [class |-> c, parsed |-> TRUE, fields |-> fields, list |-> list, raw |-> <<>>]
\* An object that parse() gave up: `next` is None and `raw` the bytes.
NotParsed(c, cells) ==
  [class |-> c, parsed |-> FALSE, fields |-> <<>>, list |-> <<>>, raw |-> cells]
\* `next` may be bytes instead of an object.
Plain(cells) == NotParsed("bytes", cells)
Raise == NotParsed("raised", <<>>)
Fails(chain) == \E i \in DOMAIN chain : chain[i].class = "raised"

\* The fixed part of each header.
Layouts ==
  [ethernet |-> <<Eth("dst"), Eth("src"), U16("type")>>,
   vlan |-> <<U16("tci"), U16("type")>>,
   llc |-> <<U8("dsap"), U8("ssap"), U8("control")>>,
   mpls |-> <<U16("label"), U8("label_tc_s"), U8("ttl")>>,
   arp |-> <<U16("hwtype"), U16("prototype"), U8("hwlen"), U8("protolen"), U16("opcode"),
             Eth("hwsrc"), U32("protosrc"), Eth("hwdst"), U32("protodst")>>,
   ipv4 |-> <<U8("vhl"), U8("tos"), U16("iplen"), U16("id"), U16("frag"), U8("ttl"),
              U8("protocol"), U16("csum"), U32("srcip"), U32("dstip")>>,
   udp |-> <<U16("srcport"), U16("dstport"), U16("len"), U16("csum")>>,
   tcp |-> <<U16("srcport"), U16("dstport"), U32("seq"), U32("ack"), U8("offres"),
             U8("flags"), U16("win"), U16("csum"), U16("urg")>>,
   icmp |-> <<U8("type"), U8("code"), U16("csum")>>,
   echo |-> <<U16("id"), U16("seq")>>,
   unreach |-> <<U16("unused"), U16("next_mtu")>>,
   time_exceeded |-> <<U32("unused")>>,
   igmp |-> <<U8("ver_and_type"), U8("max_response_time"), U16("csum"), U32("address")>>,
   igmp3 |-> <<U8("ver_and_type"), U8("res1"), U16("csum"), U16("res2"), U16("num")>>,
   gre |-> <<U16("flags"), U16("type")>>,
   vxlan |-> <<U8("flags"), Bytes("reserved1", 3), Bytes("vni", 3), U8("reserved2")>>,
   ipv6 |-> <<U32("vtcfl"), U16("payload_length"), U8("protocol"), U8("hop_limit"),
              Bytes("srcip", 16), Bytes("dstip", 16)>>,
   icmpv6 |-> <<U8("type"), U8("code"), U16("csum")>>,
   unreach6 |-> <<U32("unused")>>,
   rip |-> <<U8("command"), U8("version"), U16("zero")>>,
   dns |-> <<U16("id"), U8("bits0"), U8("bits1"), U16("questions"), U16("answers"),
             U16("authorities"), U16("additional")>>,
   dhcp |-> <<Bytes("bootp", 108), Bytes("file", 128), Bytes("magic", 4)>>,
   lldp |-> <<>>,
   eapol |-> <<U8("version"), U8("type"), U16("bodylen")>>,
   eap |-> <<U8("code"), U8("id"), U16("length")>>]

\* MIN_LEN, where it is not the length of the fixed part.
MinLen(c) ==
  CASE c = "rip" -> 24 [] c = "lldp" -> 14 [] OTHER -> Width(Layouts[c])

FixedPart(c, cells) == SubSeq(cells, 1, Len(Layouts[c]))
Behind(c, cells) == From(cells, Len(Layouts[c]) + 1)
\* A slice of n bytes and what follows it; a cell may be cut.
RECURSIVE Take(_, _), Skip(_, _)
Take(cells, n) ==
  IF n <= 0 \/ cells = <<>> THEN <<>>
  ELSE IF cells[1][2] <= n THEN <<cells[1]>> \o Take(Tail(cells), n - cells[1][2])
  ELSE <<Cell(cells[1][1], n, cells[1][3])>>
Skip(cells, n) ==
  IF n <= 0 \/ cells = <<>> THEN cells
  ELSE IF cells[1][2] <= n THEN Skip(Tail(cells), n - cells[1][2])
  ELSE <<Cell(cells[1][1], cells[1][2] - n, cells[1][3])>> \o Tail(cells)

WithField(fields, f, v) ==
  [i \in DOMAIN fields |-> IF fields[i][1] = f THEN Cell(f, fields[i][2], v) ELSE fields[i]]

RECURSIVE SumOf(_)
SumOf(cells) == IF cells = <<>> THEN 0 ELSE cells[1][3] + SumOf(Tail(cells))

\* packet_utils.checksum: data[-1] + '\0' raises for an odd number of bytes.
CanSum(cells) == Width(cells) % 2 = 0
Unsendable == <<Cell("raised", 0, 0)>>
Broken(cells) == \E i \in DOMAIN cells : cells[i][1] = "raised"

-----------------------------------------------------------------------------
(* Options of TCP: cells kind, olen and the value; NOP and EOL have a kind  *)
(* alone.                                                                   *)

Option(kind, fields) == [kind |-> kind, fields |-> fields]
BadOption == Option(-1, <<>>)

\* mp_dss_opt: which parts the flags announce.
HasBit(v, b) == (v \div b) % 2 = 1
AckLength(flags) == IF ~HasBit(flags, 1) THEN 0 ELSE IF HasBit(flags, 2) THEN 8 ELSE 4
DsnLength(flags) == IF ~HasBit(flags, 4) THEN 0 ELSE IF HasBit(flags, 8) THEN 8 ELSE 4
DssLength(flags) ==
  4 + AckLength(flags) + DsnLength(flags) + (IF HasBit(flags, 4) THEN 8 ELSE 0)

\* mptcp_opt.unpack_new: the option, and the bytes it is taken to have.
MpTcp(cells, length) ==
  LET subtype == cells[3][3] \div 16
      opt == Option(30, Take(From(cells, 3), length - 2))
  IN CASE subtype = 0 -> IF length \in {12, 20} THEN <<opt, length>> ELSE <<BadOption, 0>>
       [] subtype = 1 -> IF length \in {12, 16, 24} THEN <<opt, length>> ELSE <<BadOption, 0>>
       [] subtype = 2 ->
            LET flags == Value(cells, "dss") IN
            IF length # DssLength(flags) THEN <<BadOption, 0>>
            \* the second `off += o.ack_length` is where dsn_length should be
            ELSE <<opt, length - DsnLength(flags)
                        + (IF HasBit(flags, 4) THEN AckLength(flags) ELSE 0)>>
       \* mp_unknown: the slice is taken as if length did not count the head
       [] OTHER -> <<Option(30, Take(From(cells, 3), length)), length>>

\* tcp_opt.unpack_new
ReadOption(cells) ==
  LET kind == cells[1][3]
      length == cells[2][3]
      value == From(cells, 3)
      fixed == (2 :> 4) @@ (3 :> 3) @@ (4 :> 2) @@ (8 :> 10)
  IN CASE kind \in DOMAIN fixed ->
            IF length = fixed[kind] THEN <<Option(kind, Take(value, length - 2)), length>>
            ELSE <<BadOption, 0>>
       [] kind = 5 ->
            \* struct.unpack of all that follows
            IF length >= 2 /\ (length - 2) % 8 = 0 /\ Width(value) = length - 2
            THEN <<Option(5, value), length>> ELSE <<BadOption, 0>>
       [] kind = 30 -> MpTcp(cells, length)
       \* the value is taken as if length did not count the head
       [] OTHER -> <<Option(kind, Take(value, length)), length>>

\* tcp.parse_options: cells are what follows the fixed part, n the bytes of
\* options that are left.
RECURSIVE ReadOptions(_, _)
ReadOptions(cells, n) ==
  IF n <= 0 THEN <<>>
  ELSE IF cells = <<>> THEN <<BadOption>>
  ELSE IF cells[1][3] = 0 /\ cells[1][1] = "kind" THEN <<>>
  ELSE IF cells[1][3] = 1 /\ cells[1][1] = "kind"
  THEN <<Option(1, <<>>)>> \o ReadOptions(Tail(cells), n - 1)
  ELSE IF Len(cells) < 2 \/ cells[2][1] # "olen" THEN <<BadOption>>
  ELSE IF cells[2][3] > Width(cells) \/ cells[2][3] < 2 THEN <<BadOption>>
  ELSE LET read == ReadOption(cells) IN
       IF read[1] = BadOption THEN <<BadOption>>
       ELSE <<read[1]>> \o ReadOptions(Skip(cells, read[2]), n - read[2])

\* tcp_opt.pack, mptcp_opt.pack
PackOption(o) ==
  LET head(n) == <<Cell("kind", 1, o.kind), Cell("olen", 1, n)>> IN
  CASE o.kind = 1 -> <<Cell("kind", 1, 1)>>
    [] o.kind = 5 -> o.fields
    \* struct.unpack_from in place of struct.pack raises
    [] o.kind = 30 /\ Value(o.fields, "dss") >= 0
         /\ HasBit(Value(o.fields, "dss"), 4) -> Unsendable
    [] OTHER -> head(2 + Width(o.fields)) \o o.fields

\* tcp.hdr: the options, padded.
PackOptions(list) ==
  LET cells == FlattenSeq([i \in DOMAIN list |-> PackOption(list[i])])
      over == Width(cells) % 4
  IN cells \o (IF over = 0 THEN <<>> ELSE [i \in 1..4 - over |-> Cell("kind", 1, 0)])

-----------------------------------------------------------------------------
(* Routing, names and configuration.                                        *)

\* rip.parse: whole entries of 20 bytes, of six fields.
ParseRip(cells) ==
  LET rest == Behind("rip", cells) IN
  IF cells[3][3] # 0 THEN <<NotParsed("rip", cells)>>
  ELSE <<HeaderOf("rip", FixedPart("rip", cells),
                SubSeq(rest, 1, (Width(rest) \div 20) * 6))>>

\* igmp.GroupRecord.unpack_new: the number of sources is read in the order of
\* the host.  With one source or more it is 256 times as large, and the read
\* runs into the end: IPAddr(b"") raises.
GroupRecord == <<U8("gtype"), U8("auxlen"), U16("nsources"), U32("group")>>
SourcesLost(cells, num) ==
  \E i \in 1..num : cells[(i - 1) * Len(GroupRecord) + 3][3] # 0

\* igmp.parse: what follows is kept in `extra`, and there is no `next`.
ParseIgmp(cells) ==
  LET version3 == cells[1][3] = 34
      c == IF version3 THEN "igmp3" ELSE "igmp"
      rest == From(cells, 5 + (IF version3 THEN 1 ELSE 0))
  IN IF cells[1][3] \notin {17, 18, 22, 23, 34} THEN <<NotParsed("igmp", cells)>>
     ELSE IF (version3 /\ SourcesLost(rest, cells[5][3])) \/ ~CanSum(cells) THEN <<Raise>>
     ELSE IF SumOf(WithField(cells, "csum", 0)) # Value(cells, "csum")
     THEN <<NotParsed("igmp", cells)>>
     ELSE <<HeaderOf(c, SubSeq(cells, 1, Len(cells) - Len(rest)), rest)>>

\* dns.parse: reading the name of any question or record raises, which is caught.
RecordsRead(cells) == \A i \in 4..7 : cells[i][3] = 0
ParseDns(cells) ==
  IF RecordsRead(cells) THEN <<HeaderOf("dns", FixedPart("dns", cells), <<>>)>>
  ELSE <<NotParsed("dns", cells)>>

\* dhcp.parse: reading the first option raises, and nothing catches that.  The
\* file is read six bytes before its place.
ParseDhcp(cells) ==
  IF Behind("dhcp", cells) # <<>> THEN <<Raise>>
  ELSE <<HeaderOf("dhcp", [FixedPart("dhcp", cells) EXCEPT ![2] = Bytes("shifted file", 128)],
                <<>>)>>

\* eap.parse: the type is read, and not written again.
ParseEap(cells) ==
  IF cells[1][3] \in {1, 2} /\ Behind("eap", cells) = <<>> THEN <<Raise>>
  ELSE <<HeaderOf("eap", FixedPart("eap", cells), <<>>)>>

\* lldp.next_tlv and the parse() of its class: <<>> if there is no TLV.  The
\* length is compared with all the rest, its own two bytes included.
MinData ==
  (1 :> 2) @@ (2 :> 2) @@ (127 :> 4)
ExactData == (3 :> 2) @@ (0 :> 0) @@ (7 :> 4)
NextTlv(cells) ==
  LET type == cells[1][3] \div 512
      length == cells[1][3] % 512
      data == Take(Tail(cells), length)
  IN IF Width(cells) < 2 \/ Width(cells) < length THEN <<>>
     ELSE IF \/ Width(data) < length
             \/ type \in DOMAIN MinData /\ length < MinData[type]
             \/ type \in DOMAIN ExactData /\ length # ExactData[type]
             \* management_address takes ord() of a number
             \/ type = 8
     THEN Unsendable
     ELSE <<cells[1]>> \o data

\* lldp.parse: chassis, port and time to live, then others up to the end.
RECURSIVE Tlvs(_, _)
Tlvs(cells, n) ==
  LET tlv == NextTlv(cells)
      type == tlv[1][3] \div 512
      rest == Skip(cells, Width(tlv))
  IN IF tlv = <<>> THEN <<"gives up", <<>>>>
     ELSE IF Broken(tlv) THEN <<"raises", <<>>>>
     ELSE IF n <= 3 /\ type # n THEN <<"gives up", <<>>>>
     ELSE IF n > 3 /\ type = 0 THEN <<"parsed", tlv>>
     ELSE IF n > 3 /\ rest = <<>> THEN <<"gives up", <<>>>>
     ELSE LET others == Tlvs(rest, n + 1) IN <<others[1], tlv \o others[2]>>
ParseLldp(cells) ==
  LET read == Tlvs(cells, 1) IN
  CASE read[1] = "parsed" -> <<HeaderOf("lldp", <<>>, read[2])>>
    [] read[1] = "gives up" -> <<NotParsed("lldp", cells)>>
    [] OTHER -> <<Raise>>

\* icmpv6._parse_ndp_options: "good", "truncated" (which is caught) or "raises".
\* Lengths count units of 8 bytes, as many as an option of its type has.
NdUnits == (1 :> 1) @@ (2 :> 1) @@ (3 :> 4) @@ (5 :> 1)
RECURSIVE NdOptions(_)
NdOptions(cells) ==
  IF Width(cells) <= 2 THEN "good"
  ELSE IF Width(cells) % 8 # 0 \/ cells[2][3] = 0 THEN "raises"
  ELSE IF Width(cells) < cells[2][3] * 8 THEN "truncated"
  ELSE IF cells[1][3] \in DOMAIN NdUnits /\ cells[2][3] # NdUnits[cells[1][3]] THEN "raises"
  ELSE NdOptions(Skip(cells, cells[2][3] * 8))
=============================================================================
