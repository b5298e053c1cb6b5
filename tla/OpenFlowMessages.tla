-------------------------- MODULE OpenFlowMessages --------------------------
(***************************************************************************)
(* The messages of pox/openflow/libopenflow_01.py on the wire, and a       *)
(* connection that reads them (Connection.read of pox/openflow/of_01.py,   *)
(* OFConnection.read of pox/datapaths/switch.py).                          *)
(*                                                                         *)
(* A message is [class, parts]: its parts are the actions, ports, queues,  *)
(* stats or bytes behind its fixed fields, in their order.  Bytes are a    *)
(* part of class "bytes" with their number.  Classes that cannot be packed *)
(* at all (ofp_queue_prop_generic, ofp_vendor_stats_generic and            *)
(* ofp_generic_stats_body, whose __len__ uses a name it does not have) are *)
(* left out.                                                               *)
(***************************************************************************)
EXTENDS WireLayout

CONSTANTS
  Message,     \* the messages that a stream may start with
  Follower     \* bound: those that may follow

VARIABLES
  sentMsgs,    \* what was given to send()
  stream,      \* cells on the wire and in the receive buffer
  available,   \* how many of them have arrived
  receivedMsgs \* what the message handler got

streamVars == <<sentMsgs, stream, available, receivedMsgs>>

-----------------------------------------------------------------------------
(* Structures. *)

ofp_header(t) == <<U8("version"), Type8(t), Length16, U32("xid")>>
Read_header == <<U8("version"), <<"type", 1>>, <<"length", 2>>, U32("xid")>>

ofp_phy_port ==
  Fixed(<<U16("port_no"), Eth("hw_addr"), Bytes("name", 16), U32("config"),
          U32("state"), U32("curr"), U32("advertised"), U32("supported"), U32("peer")>>,
        <<U16("port_no"), Eth("hw_addr"), Bytes("name", 16), U32("config"),
          U32("state"), U32("curr"), U32("advertised"), U32("supported"), U32("peer")>>,
        48)

ofp_packet_queue ==
  Class(<<U32("queue_id"), Length16, Pad(2)>>, <<U32("queue_id"), Length16, Pad(2)>>,
        8, 8, "properties")

ofp_queue_prop_min_rate ==
  Fixed(<<Type16(1), Length16, Pad(4), U16("rate"), Pad(6)>>,
        <<Type16(1), Length16, Pad(4), U16("rate"), Pad(6)>>, 16)

\* ofp_match.pack and unpack; OpenFlowMatch has what the wildcards do.
ofp_match_pack ==
  <<U32("wildcards"), U16("in_port"), Eth("dl_src"), Eth("dl_dst"), U16("dl_vlan"),
    U8("dl_vlan_pcp"), Pad(1), U16("dl_type"), U8("nw_tos"), U8("nw_proto"), Pad(2),
    U32("nw_src"), U32("nw_dst"), U16("tp_src"), U16("tp_dst")>>
ofp_match_unpack ==
  <<U32("wildcards"), U16("in_port"), Eth("dl_src"), Eth("dl_dst"), U16("dl_vlan"),
    U8("dl_vlan_pcp"), Pad(1), U16("dl_type"), U8("nw_tos"), U8("nw_proto"), Pad(2),
    U32("nw_src"), U32("nw_dst"), U16("tp_src"), U16("tp_dst")>>
MatchLen == 40

-----------------------------------------------------------------------------
(* Actions. *)

Action(t, pack, unpack, len) ==
  Fixed(<<Type16(t), Length16>> \o pack, <<Type16(t), Length16>> \o unpack, len)

ofp_action_output ==
  Action(0, <<U16("port"), U16("max_len")>>, <<U16("port"), U16("max_len")>>, 8)
ofp_action_vlan_vid ==
  Action(1, <<U16("vlan_vid"), Pad(2)>>, <<U16("vlan_vid"), Pad(2)>>, 8)
ofp_action_vlan_pcp ==
  Action(2, <<U8("vlan_pcp"), Pad(3)>>, <<U8("vlan_pcp"), Pad(3)>>, 8)
ofp_action_strip_vlan == Action(3, <<Pad(4)>>, <<Pad(4)>>, 8)
ofp_action_dl_addr(t) ==
  Action(t, <<Eth("dl_addr"), Pad(6)>>, <<Eth("dl_addr"), Pad(6)>>, 16)
ofp_action_nw_addr(t) == Action(t, <<U32("nw_addr")>>, <<U32("nw_addr")>>, 8)
ofp_action_nw_tos == Action(8, <<U8("nw_tos"), Pad(3)>>, <<U8("nw_tos"), Pad(3)>>, 8)
ofp_action_tp_port(t) ==
  Action(t, <<U16("tp_port"), Pad(2)>>, <<U16("tp_port"), Pad(2)>>, 8)
ofp_action_enqueue ==
  Action(11, <<U16("port"), Pad(6), U32("queue_id")>>,
             <<U16("port"), Pad(6), U32("queue_id")>>, 16)
ofp_action_vendor_generic ==
  Class(<<Type16(65535), Length16, U32("vendor")>>,
        <<Type16(65535), Length16, U32("vendor")>>, 8, 8, "bytes")
\* An action of a type that is not known.
ofp_action_generic ==
  Class(<<Type16(99), Length16>>, <<Type16(99), Length16>>, 4, 4, "bytes")

-----------------------------------------------------------------------------
(* Messages. *)

Msg(t, pack, unpack, len, before, rest) ==
  Class(ofp_header(t) \o pack, Read_header \o unpack, len, before, rest)
Empty(t) == Msg(t, <<>>, <<>>, 8, 8, "none")

ofp_hello == Empty(0)
ofp_error ==
  Msg(1, <<U16("err"), U16("code")>>, <<U16("err"), U16("code")>>, 12, 12, "bytes")
ofp_echo_request == Msg(2, <<>>, <<>>, 8, 8, "bytes")
ofp_echo_reply == Msg(3, <<>>, <<>>, 8, 8, "bytes")
ofp_vendor_generic == Msg(4, <<U32("vendor")>>, <<U32("vendor")>>, 12, 12, "bytes")
ofp_features_request == Empty(5)
ofp_features_reply ==
  Msg(6, <<U64("datapath_id"), U32("n_buffers"), U8("n_tables"), Pad(3),
           U32("capabilities"), U32("actions")>>,
         <<U64("datapath_id"), U32("n_buffers"), U8("n_tables"), Pad(3),
           U32("capabilities"), U32("actions")>>, 32, 32, "ports")
ofp_get_config_request == Empty(7)
ofp_get_config_reply ==
  Msg(8, <<U16("flags"), U16("miss_send_len")>>,
         <<U16("flags"), U16("miss_send_len")>>, 12, 12, "none")
ofp_set_config ==
  Msg(9, <<U16("flags"), U16("miss_send_len")>>,
         <<U16("flags"), U16("miss_send_len")>>, 12, 12, "none")
ofp_packet_in ==
  Msg(10, <<U32("buffer_id"), U16("total_len"), U16("in_port"), U8("reason"), Pad(1)>>,
          <<U32("buffer_id"), U16("total_len"), U16("in_port"), U8("reason"), Pad(1)>>,
      18, 18, "bytes")

\* Mutant: the byte behind the reason is not packed.
ofp_flow_removed_unpadded ==
  Msg(11, ofp_match_pack \o <<U64("cookie"), U16("priority"), U8("reason"),
            U32("duration_sec"), U32("duration_nsec"), U16("idle_timeout"), Pad(2),
            U64("packet_count"), U64("byte_count")>>,
          ofp_match_unpack \o <<U64("cookie"), U16("priority"), U8("reason"), Pad(1),
            U32("duration_sec"), U32("duration_nsec"), U16("idle_timeout"), Pad(2),
            U64("packet_count"), U64("byte_count")>>,
      48 + MatchLen, 48 + MatchLen, "none")

ofp_flow_removed ==
  Msg(11, ofp_match_pack \o <<U64("cookie"), U16("priority"), U8("reason"), Pad(1),
            U32("duration_sec"), U32("duration_nsec"), U16("idle_timeout"), Pad(2),
            U64("packet_count"), U64("byte_count")>>,
          ofp_match_unpack \o <<U64("cookie"), U16("priority"), U8("reason"), Pad(1),
            U32("duration_sec"), U32("duration_nsec"), U16("idle_timeout"), Pad(2),
            U64("packet_count"), U64("byte_count")>>,
      48 + MatchLen, 48 + MatchLen, "none")
ofp_port_status ==
  Msg(12, <<U8("reason"), Pad(7)>> \o ofp_phy_port.pack,
          <<U8("reason"), Pad(7)>> \o ofp_phy_port.unpack, 64, 64, "none")
\* The length of the actions goes before them; the rest of the message is data.
ofp_packet_out ==
  Msg(13, <<U32("buffer_id"), U16("in_port"), <<"actions_len", 2, 0>>>>,
          <<U32("buffer_id"), U16("in_port"), <<"actions_len", 2>>>>,
      16, 16, "actions and bytes")
ofp_flow_mod ==
  Msg(14, ofp_match_pack \o <<U64("cookie"), U16("command"), U16("idle_timeout"),
            U16("hard_timeout"), U16("priority"), U32("buffer_id"), U16("out_port"),
            U16("flags")>>,
          ofp_match_unpack \o <<U64("cookie"), U16("command"), U16("idle_timeout"),
            U16("hard_timeout"), U16("priority"), U32("buffer_id"), U16("out_port"),
            U16("flags")>>,
      32 + MatchLen, 32 + MatchLen, "actions")
ofp_port_mod ==
  Msg(15, <<U16("port_no"), Eth("hw_addr"), U32("config"), U32("mask"),
            U32("advertise"), Pad(4)>>,
          <<U16("port_no"), Eth("hw_addr"), U32("config"), U32("mask"),
            U32("advertise"), Pad(4)>>, 32, 32, "none")
ofp_stats_request ==
  Msg(16, <<<<"stats type", 2, 0>>, U16("flags")>>,
          <<<<"stats type", 2>>, U16("flags")>>, 12, 12, "request")
ofp_stats_reply ==
  Msg(17, <<<<"stats type", 2, 0>>, U16("flags")>>,
          <<<<"stats type", 2>>, U16("flags")>>, 12, 12, "reply")
ofp_barrier_request == Empty(18)
ofp_barrier_reply == Empty(19)
ofp_queue_get_config_request ==
  Msg(20, <<U16("port"), Pad(2)>>, <<U16("port"), Pad(2)>>, 12, 12, "none")
ofp_queue_get_config_reply ==
  Msg(21, <<U16("port"), Pad(6)>>, <<U16("port"), Pad(6)>>, 16, 16, "queues")

-----------------------------------------------------------------------------
(* Bodies of statistics. *)

ofp_desc_stats ==
  Fixed(<<Bytes("mfr_desc", 256), Bytes("hw_desc", 256), Bytes("sw_desc", 256),
          Bytes("serial_num", 32), Bytes("dp_desc", 256)>>,
        <<Bytes("mfr_desc", 256), Bytes("hw_desc", 256), Bytes("sw_desc", 256),
          Bytes("serial_num", 32), Bytes("dp_desc", 256)>>, 1056)
empty_stats_request_body == Fixed(<<>>, <<>>, 0)
ofp_flow_stats_request ==
  Fixed(ofp_match_pack \o <<U8("table_id"), Pad(1), U16("out_port")>>,
        ofp_match_unpack \o <<U8("table_id"), Pad(1), U16("out_port")>>, 4 + MatchLen)
ofp_flow_stats ==
  Class(<<Length16, U8("table_id"), Pad(1)>> \o ofp_match_pack \o
        <<U32("duration_sec"), U32("duration_nsec"), U16("priority"),
          U16("idle_timeout"), U16("hard_timeout"), Pad(6), U64("cookie"),
          U64("packet_count"), U64("byte_count")>>,
        <<Length16, U8("table_id"), Pad(1)>> \o ofp_match_unpack \o
        <<U32("duration_sec"), U32("duration_nsec"), U16("priority"),
          U16("idle_timeout"), U16("hard_timeout"), Pad(6), U64("cookie"),
          U64("packet_count"), U64("byte_count")>>,
        48 + MatchLen, 48 + MatchLen, "actions")
ofp_aggregate_stats_request ==
  Fixed(ofp_match_pack \o <<U8("table_id"), Pad(1), U16("out_port")>>,
        ofp_match_unpack \o <<U8("table_id"), Pad(1), U16("out_port")>>, 44)
ofp_aggregate_stats ==
  Fixed(<<U64("packet_count"), U64("byte_count"), U32("flow_count"), Pad(4)>>,
        <<U64("packet_count"), U64("byte_count"), U32("flow_count"), Pad(4)>>, 24)
\* With a name of bytes; a str cannot be packed.
ofp_table_stats ==
  Fixed(<<U8("table_id"), Pad(3), Bytes("name", 32), U32("wildcards"),
          U32("max_entries"), U32("active_count"), U64("lookup_count"),
          U64("matched_count")>>,
        <<U8("table_id"), Pad(3), Bytes("name", 32), U32("wildcards"),
          U32("max_entries"), U32("active_count"), U64("lookup_count"),
          U64("matched_count")>>, 64)
ofp_port_stats_request ==
  Fixed(<<U16("port_no"), Pad(6)>>, <<U16("port_no"), Pad(6)>>, 8)
ofp_port_stats ==
  Fixed(<<U16("port_no"), Pad(6), U64("rx_packets"), U64("tx_packets"),
          U64("rx_bytes"), U64("tx_bytes"), U64("rx_dropped"), U64("tx_dropped"),
          U64("rx_errors"), U64("tx_errors"), U64("rx_frame_err"),
          U64("rx_over_err"), U64("rx_crc_err"), U64("collisions")>>,
        <<U16("port_no"), Pad(6), U64("rx_packets"), U64("tx_packets"),
          U64("rx_bytes"), U64("tx_bytes"), U64("rx_dropped"), U64("tx_dropped"),
          U64("rx_errors"), U64("tx_errors"), U64("rx_frame_err"),
          U64("rx_over_err"), U64("rx_crc_err"), U64("collisions")>>, 104)
ofp_queue_stats_request ==
  Fixed(<<U16("port_no"), Pad(2), U32("queue_id")>>,
        <<U16("port_no"), Pad(2), U32("queue_id")>>, 8)
ofp_queue_stats ==
  Fixed(<<U16("port_no"), Pad(2), U32("queue_id"), U64("tx_bytes"),
          U64("tx_packets"), U64("tx_errors")>>,
        <<U16("port_no"), Pad(2), U32("queue_id"), U64("tx_bytes"),
          U64("tx_packets"), U64("tx_errors")>>, 32)

\* _stats_type_to_class_info: request, reply, whether the reply is a list.
StatsInfo(t) ==
  CASE t = 0 -> <<"desc_stats_request", "desc_stats", FALSE>>
    [] t = 1 -> <<"flow_stats_request", "flow_stats", TRUE>>
    [] t = 2 -> <<"aggregate_stats_request", "aggregate_stats", FALSE>>
    [] t = 3 -> <<"table_stats_request", "table_stats", TRUE>>
    [] t = 4 -> <<"port_stats_request", "port_stats", TRUE>>
    [] t = 5 -> <<"queue_stats_request", "queue_stats", TRUE>>

-----------------------------------------------------------------------------
(* The classes by name, and by the type on the wire. *)

Actions ==
  [output |-> ofp_action_output, set_vlan_vid |-> ofp_action_vlan_vid,
   set_vlan_pcp |-> ofp_action_vlan_pcp, strip_vlan |-> ofp_action_strip_vlan,
   set_dl_src |-> ofp_action_dl_addr(4), set_dl_dst |-> ofp_action_dl_addr(5),
   set_nw_src |-> ofp_action_nw_addr(6), set_nw_dst |-> ofp_action_nw_addr(7),
   set_nw_tos |-> ofp_action_nw_tos, set_tp_src |-> ofp_action_tp_port(9),
   set_tp_dst |-> ofp_action_tp_port(10), enqueue |-> ofp_action_enqueue,
   vendor_action |-> ofp_action_vendor_generic, unknown_action |-> ofp_action_generic]

Messages ==
  [hello |-> ofp_hello, error |-> ofp_error, echo_request |-> ofp_echo_request,
   echo_reply |-> ofp_echo_reply, vendor |-> ofp_vendor_generic,
   features_request |-> ofp_features_request, features_reply |-> ofp_features_reply,
   get_config_request |-> ofp_get_config_request,
   get_config_reply |-> ofp_get_config_reply, set_config |-> ofp_set_config,
   packet_in |-> ofp_packet_in, flow_removed |-> ofp_flow_removed,
   port_status |-> ofp_port_status, packet_out |-> ofp_packet_out,
   flow_mod |-> ofp_flow_mod, port_mod |-> ofp_port_mod,
   stats_request |-> ofp_stats_request, stats_reply |-> ofp_stats_reply,
   barrier_request |-> ofp_barrier_request, barrier_reply |-> ofp_barrier_reply,
   queue_get_config_request |-> ofp_queue_get_config_request,
   queue_get_config_reply |-> ofp_queue_get_config_reply]

Structures ==
  [phy_port |-> ofp_phy_port, packet_queue |-> ofp_packet_queue,
   min_rate |-> ofp_queue_prop_min_rate, desc_stats |-> ofp_desc_stats,
   desc_stats_request |-> empty_stats_request_body,
   table_stats_request |-> empty_stats_request_body,
   flow_stats_request |-> ofp_flow_stats_request, flow_stats |-> ofp_flow_stats,
   aggregate_stats_request |-> ofp_aggregate_stats_request,
   aggregate_stats |-> ofp_aggregate_stats, table_stats |-> ofp_table_stats,
   port_stats_request |-> ofp_port_stats_request, port_stats |-> ofp_port_stats,
   queue_stats_request |-> ofp_queue_stats_request, queue_stats |-> ofp_queue_stats]

Classes == Actions @@ Messages @@ Structures

TypeOf(c) == Value(Classes[c].pack, "type")
ByType(table, t) ==
  LET of == {c \in DOMAIN table : TypeOf(c) = t} IN
  IF of = {} THEN "unknown_action" ELSE CHOOSE c \in of : TRUE

-----------------------------------------------------------------------------
(* pack and __len__. *)

RECURSIVE PackedLen(_)
PackedLen(x) ==
  IF x.class = "bytes" THEN x.parts
  ELSE Classes[x.class].len +
       FoldLeft(LAMBDA n, p : n + PackedLen(p), 0, x.parts)

ActionsLen(parts) ==
  FoldLeft(LAMBDA n, p : n + (IF p.class = "bytes" THEN 0 ELSE PackedLen(p)), 0, parts)

StatsType(parts) ==
  CHOOSE t \in 0..5 : parts[1].class \in {StatsInfo(t)[1], StatsInfo(t)[2]}

\* The cells of the fixed part with their values.
Filled(x, cells) ==
  [i \in DOMAIN cells |->
     CASE cells[i][1] = "length" -> <<"length", cells[i][2], PackedLen(x)>>
       [] cells[i][1] = "actions_len" -> <<"actions_len", 2, ActionsLen(x.parts)>>
       [] cells[i][1] = "stats type" -> <<"stats type", 2, StatsType(x.parts)>>
       [] OTHER -> cells[i]]

RECURSIVE Pack(_)
Pack(x) ==
  IF x.class = "bytes" THEN [i \in 1..x.parts |-> U8("byte")]
  ELSE Filled(x, Classes[x.class].pack) \o
       FlattenSeq([i \in DOMAIN x.parts |-> Pack(x.parts[i])])

-----------------------------------------------------------------------------
(* unpack. *)

BytesPart(n) == IF n = 0 THEN <<>> ELSE <<[class |-> "bytes", parts |-> n]>>

RECURSIVE Unpack(_, _)
RECURSIVE UnpackList(_, _)

\* _unpack_actions and _unpack_queue_props: the length of each tells where the
\* next one starts.
UnpackTyped(table, cells) ==
  LET l == Value(cells, "length")
      n == CellsIn(cells, l)
  IN IF n < 1 \/ cells[2][1] # "length" THEN <<Garbled>>
     ELSE <<Unpack(ByType(table, cells[1][3]), SubSeq(cells, 1, n))>> \o
          UnpackList(table, From(cells, n + 1))

\* A list of parts of one class: each takes what its class says.
UnpackSame(class, cells) ==
  LET l == IF Classes[class].rest = "none" THEN Classes[class].len
           ELSE Value(cells, "length")
      n == CellsIn(cells, l)
  IN IF n < 1 THEN <<Garbled>>
     ELSE <<Unpack(class, SubSeq(cells, 1, n))>> \o
          UnpackList(<<class>>, From(cells, n + 1))

UnpackList(kind, cells) ==
  IF cells = <<>> THEN <<>>
  ELSE IF DOMAIN kind = {1} THEN UnpackSame(kind[1], cells)
  ELSE UnpackTyped(kind, cells)

\* The body of ofp_stats_request and ofp_stats_reply, by the type.
UnpackStats(t, cells, reply) ==
  LET si == StatsInfo(t) IN
  IF ~reply THEN <<Unpack(si[1], cells)>>
  ELSE IF si[3] THEN UnpackList(<<si[2]>>, cells)
  ELSE <<Unpack(si[2], cells)>>

\* What follows the fixed part, of which `avail` bytes are left.
UnpackRest(how, cells, avail, fixed) ==
  LET n == CellsIn(cells, avail) IN
  IF n < 0 THEN <<Garbled>>
  ELSE LET rest == SubSeq(cells, 1, n) IN
       CASE how = "none" -> IF avail = 0 THEN <<>> ELSE <<Garbled>>
         [] how = "bytes" -> BytesPart(avail)
         [] how = "actions" -> UnpackList(Actions, rest)
         [] how = "properties" -> UnpackList(<<"min_rate">>, rest)
         [] how = "ports" -> UnpackList(<<"phy_port">>, rest)
         [] how = "queues" -> UnpackList(<<"packet_queue">>, rest)
         [] how = "request" -> UnpackStats(Value(fixed, "stats type"), rest, FALSE)
         [] how = "reply" -> UnpackStats(Value(fixed, "stats type"), rest, TRUE)
         [] how = "actions and bytes" ->
              LET l == Value(fixed, "actions_len")
                  k == CellsIn(rest, l)
              IN IF k < 0 THEN <<Garbled>>
                 ELSE UnpackList(Actions, SubSeq(rest, 1, k)) \o BytesPart(avail - l)

\* The length that unpack() works with: a class without a length field takes the
\* whole of what it is given.
Unpack(class, cells) ==
  LET c == Classes[class]
      l == IF \E i \in DOMAIN c.unpack : c.unpack[i][1] = "length"
           THEN Value(cells, "length") ELSE Width(cells)
  IN IF ~Fits(c.unpack, cells) THEN Garbled
     ELSE LET x == [class |-> class,
                    parts |-> UnpackRest(c.rest, From(cells, Len(c.unpack) + 1),
                                         l - c.before, cells)]
          IN IF PackedLen(x) # l THEN Garbled ELSE x      \* assert length == len(self)

-----------------------------------------------------------------------------
(* A connection. *)

StreamInit == sentMsgs = <<>> /\ stream = <<>> /\ available = 0 /\ receivedMsgs = <<>>

Send(x) ==
  /\ Len(sentMsgs) < 2 /\ (sentMsgs # <<>> => x \in Follower)
  /\ sentMsgs' = Append(sentMsgs, x)
  /\ stream' = stream \o Pack(x)
  /\ UNCHANGED <<available, receivedMsgs>>

\* Some of it arrives: the stream is cut anywhere.
Arrive(n) ==
  /\ available < n /\ n <= Len(stream)
  /\ available' = n
  /\ UNCHANGED <<sentMsgs, stream, receivedMsgs>>

\* One round of the loop of read(): with the header's length there, the message
\* is unpacked and that many bytes are consumed.
Read ==
  LET here == SubSeq(stream, 1, available)
      l == Value(here, "length")
      n == CellsIn(here, l)
  IN /\ available >= 3 /\ n > 0
     /\ receivedMsgs' = Append(receivedMsgs,
                               Unpack(ByType(Messages, here[2][3]), SubSeq(here, 1, n)))
     /\ stream' = From(stream, n + 1)
     /\ available' = available - n
     /\ UNCHANGED sentMsgs

StreamNext ==
  \/ \E x \in Message \cup Follower : Send(x)
  \/ \E n \in 1..Len(stream) : Arrive(n)
  \/ Read

StreamSpec == StreamInit /\ [][StreamNext]_streamVars

-----------------------------------------------------------------------------
\* Every message comes out of the connection as it went in, parts and their order
\* included, and so does the next one, however the stream was cut: a byte that
\* pack(), unpack() and __len__() of any class do not agree on would garble that
\* message, or shift all that follow.
StreamUnderstood ==
  /\ Len(receivedMsgs) <= Len(sentMsgs)
  /\ receivedMsgs = SubSeq(sentMsgs, 1, Len(receivedMsgs))
  /\ stream = FlattenSeq([i \in 1..Len(sentMsgs) - Len(receivedMsgs) |->
                            Pack(sentMsgs[Len(receivedMsgs) + i])])
=============================================================================
