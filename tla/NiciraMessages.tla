--------------------------- MODULE NiciraMessages ---------------------------
(***************************************************************************)
(* The Nicira extensions of pox/openflow/nicira.py: vendor messages,       *)
(* vendor actions, the entries of an extended match and the registry of    *)
(* their classes.                                                          *)
(*                                                                         *)
(* An object is a record with its class and what its layout depends on;    *)
(* the other fields are names, as in WireLayout.  Objects are packed and   *)
(* read again one after the other, and what one reading leaves in the      *)
(* registry is there for the next.                                         *)
(***************************************************************************)
EXTENDS WireLayout, TLC

CONSTANTS
  Object,      \* the objects that are packed
  MaxObjects   \* bound: how many

VARIABLES
  object,      \* the last object that was packed
  wire,        \* its cells, until they are read
  result,      \* what was read
  registry,    \* _nxm_type_to_class: the length of each entry type
  written      \* how many objects were packed

nxVars == <<object, wire, result, registry, written>>

Nothing == [class |-> "nothing"]

-----------------------------------------------------------------------------
(* Entries of a match.  One of each width and kind; "weird" is a type that *)
(* the library has no class for.                                           *)

Known ==
  [in_port |-> 2, eth_src |-> 6, vlan_tci |-> 2, ip_tos |-> 1, ip_src |-> 4,
   icmp_type |-> 1, reg1 |-> 4, tun_id |-> 8, ipv6_src |-> 16, mpls_label |-> 4,
   mpls_tc |-> 1, tcp_flags |-> 2]
Maskable == {"eth_src", "vlan_tci", "ip_tos", "ip_src", "reg1", "tun_id", "ipv6_src",
             "tcp_flags"}
WeirdLength == 4
LengthOf(t) == IF t \in DOMAIN registry THEN registry[t]
               ELSE IF t = "weird" THEN WeirdLength ELSE 0

SizeHint(t) == CASE t = "mpls_label" -> 20 [] t = "mpls_tc" -> 3
                 [] OTHER -> 8 * LengthOf(t)

Header(t, masked, len) == <<"nxm", 4, [type |-> t, masked |-> masked, length |-> len]>>
\* header_only, without a mask.
PlainHeader(t) == Header(t, FALSE, LengthOf(t))

\* nxm_entry.pack: a mask of ones is left out unless the entry came with it.
Entry(t, mask) == [class |-> "entry", type |-> t, mask |-> mask]
PackEntry(e) ==
  IF e.mask = "none" THEN <<PlainHeader(e.type), Bytes("value", LengthOf(e.type))>>
  ELSE <<Header(e.type, TRUE, 2 * LengthOf(e.type)),
         Bytes("value", LengthOf(e.type)), Bytes("mask", LengthOf(e.type))>>

\* nxm_entry.unpack_body: half of a masked entry is its value, and the class must
\* agree with that.
EntryAgrees(h) ==
  LET value == IF h.masked THEN h.length \div 2 ELSE h.length IN
  h.type \in DOMAIN registry => registry[h.type] = value
UnpackEntry(cells) ==
  IF cells = <<>> \/ cells[1][1] # "nxm" THEN Garbled
  ELSE LET h == cells[1][3] IN
       IF ~EntryAgrees(h) THEN Garbled
       ELSE Entry(h.type, IF h.masked THEN "some" ELSE "none")
CellsOfEntry(cells) == IF cells[1][3].masked THEN 3 ELSE 2

\* nx_match.unpack: entries until the length of the match is used up.
RECURSIVE UnpackMatch(_, _)
UnpackMatch(cells, avail) ==
  IF avail = 0 THEN <<>>
  ELSE IF avail < 0 \/ UnpackEntry(cells) = Garbled THEN <<Garbled>>
  ELSE <<UnpackEntry(cells)>> \o
       UnpackMatch(From(cells, CellsOfEntry(cells) + 1), avail - 4 - cells[1][3].length)

\* _class_for_nxm_header makes a class for a type it does not know.
Register(h) == IF h.type \in DOMAIN registry THEN registry
               ELSE registry @@ (h.type :> h.length)

Padding(n) == IF n % 8 = 0 THEN <<>> ELSE <<Pad(8 - (n % 8))>>

-----------------------------------------------------------------------------
(* Vendor actions with a fixed layout: what follows type, length, vendor.  *)

Sub(n) == <<"subtype", 2, n>>
nx_action_controller == <<U16("max_len"), U16("controller_id"), U8("reason"), Pad(1)>>
nx_action_push_mpls == <<U16("ethertype"), Pad(4)>>
nx_action_pop_mpls == <<U16("ethertype"), Pad(4)>>
nx_action_mpls_label == <<Pad(2), U32("label")>>
nx_action_mpls_tc == <<U8("tc"), Pad(5)>>
nx_action_resubmit == <<U16("in_port"), U8("table"), Pad(3)>>
nx_action_set_tunnel == <<Pad(2), U32("tun_id")>>
nx_action_set_tunnel64 == <<Pad(6), U64("tun_id")>>
nx_action_fin_timeout == <<U16("fin_idle_timeout"), U16("fin_hard_timeout"), Pad(2)>>
nx_action_exit == <<Pad(6)>>
nx_action_dec_ttl == <<Pad(6)>>

FixedActions ==
  [controller |-> nx_action_controller, push_mpls |-> nx_action_push_mpls,
   pop_mpls |-> nx_action_pop_mpls, mpls_label |-> nx_action_mpls_label,
   mpls_tc |-> nx_action_mpls_tc, resubmit |-> nx_action_resubmit,
   set_tunnel |-> nx_action_set_tunnel, set_tunnel64 |-> nx_action_set_tunnel64,
   fin_timeout |-> nx_action_fin_timeout, exit |-> nx_action_exit,
   dec_ttl |-> nx_action_dec_ttl]

\* Vendor messages with a fixed body, behind vendor and subtype.
nx_flow_mod_table_id == <<U8("enable"), Pad(7)>>
nx_packet_in_format == <<U32("format")>>
nx_role_request == <<U32("role")>>
nx_role_reply == <<U32("role")>>
nx_async_config ==
  <<U32("packet_in_mask"), U32("packet_in_mask_slave"), U32("port_status_mask"),
    U32("port_status_mask_slave"), U32("flow_removed_mask"),
    U32("flow_removed_mask_slave")>>

FixedMessages ==
  [flow_mod_table_id |-> nx_flow_mod_table_id, packet_in_format |-> nx_packet_in_format,
   role_request |-> nx_role_request, role_reply |-> nx_role_reply,
   async_config |-> nx_async_config]

VendorHeader(len) == <<Type8(4), <<"length", 2, len>>, U32("vendor"), U32("nx")>>
VendorMsgLen == 16

-----------------------------------------------------------------------------
(* Actions that name entries: a bit range is offset and number of bits in  *)
(* one field of 16 bits.                                                   *)

OfsNbits(x) == <<"ofs_nbits", 2, x.offset * 64 + (x.nbits - 1)>>
\* Mutant: the number of bits goes on the wire as it is.
OfsNbitsAsIs(x) == <<"ofs_nbits", 2, x.offset * 64 + x.nbits>>

RangePacked(x) == OfsNbits(x)
RangeRead(cells) ==
  LET v == Value(cells, "ofs_nbits") IN
  [offset |-> (v \div 64) % 1024, nbits |-> (v % 64) + 1]

\* pack() asserts that the range can be written; nbits = 0 stands for None, and is
\* taken from the size of the entry.
Inferred(x, t) == IF x.nbits = 0 THEN SizeHint(t) - x.offset ELSE x.nbits
Writable(x, t) == Inferred(x, t) \in 1..64 /\ x.offset \in 0..1023

nx_output_reg(x) ==
  <<Sub(15), RangePacked(x), PlainHeader(x.reg), U16("max_len"), Pad(6)>>
nx_reg_move(x) ==
  <<Sub(6), <<"nbits", 2, x.nbits>>, U16("src_ofs"), U16("dst_ofs"),
    PlainHeader(x.src), PlainHeader(x.reg)>>
nx_reg_load(x) == <<Sub(7), RangePacked(x), PlainHeader(x.reg), U64("value")>>

\* The slaves have no headers of their own: the action's slave_type stands for all.
nx_action_bundle(x) ==
  <<Sub(12), U16("algorithm"), U16("fields"), U16("basis"), PlainHeader("in_port"),
    <<"n_slaves", 2, x.slaves>>, RangePacked(x), PlainHeader(x.reg), Pad(4)>> \o
  [i \in 1..x.slaves |-> Bytes("value", LengthOf("in_port"))]

\* The padding of a bundle is text, which cannot be joined to bytes: the slaves
\* must fill the last eight bytes.
BundleWritable(x) == Width(nx_action_bundle(x)) % 8 = 0

-----------------------------------------------------------------------------
(* nx_action_learn: specs, each with the number of bits, a source and a    *)
(* destination.                                                            *)

Spec2(src, dst, nbits) == [src |-> src, dst |-> dst, nbits |-> nbits]
SrcValue == [field |-> 0, immediate |-> 1]
DstValue == [match |-> 0, load |-> 1, output |-> 2]

\* What the object has, and what a reader expects (the two __len__).
Words(n) == ((n + 15) \div 16) * 2
SrcData(s) == IF s.src = "field" THEN 6 ELSE Words(s.nbits)
DstData(s) == IF s.dst = "output" THEN 0 ELSE 6
SrcRead(s) == SrcData(s)
DstRead(s) == CASE s.dst = "match" -> 6 [] s.dst = "load" -> Words(s.nbits)
                [] s.dst = "output" -> 0

SomeBytes(f, n) == IF n = 0 THEN <<>> ELSE <<Bytes(f, n)>>
PackSpec(s) ==
  <<<<"spec", 2, SrcValue[s.src] * 8192 + DstValue[s.dst] * 2048 + s.nbits>>>> \o
  SomeBytes("src", SrcData(s)) \o SomeBytes("dst", DstData(s))

nx_action_learn(x) ==
  LET body == <<Sub(16), U16("idle_timeout"), U16("hard_timeout"), U16("priority"),
                U64("cookie"), U16("flags"), U8("table_id"), Pad(1),
                U16("fin_idle_timeout"), U16("fin_hard_timeout")>> \o
              FlattenSeq([i \in DOMAIN x.spec |-> PackSpec(x.spec[i])])
  IN body \o Padding(Width(body))

\* flow_mod_spec.unpack_new until the padding (a spec of zero) or the end.
RECURSIVE UnpackSpecs(_)
UnpackSpecs(cells) ==
  IF cells = <<>> \/ cells[1][1] = "pad" THEN <<>>
  ELSE IF cells[1][1] # "spec" THEN <<Garbled>>
  ELSE LET v == cells[1][3]
           s == Spec2(CHOOSE f \in DOMAIN SrcValue : SrcValue[f] = (v \div 8192) % 2,
                      CHOOSE f \in DOMAIN DstValue : DstValue[f] = (v \div 2048) % 4,
                      v % 1024)
           n == CellsIn(Tail(cells), SrcRead(s) + DstRead(s))
       IN IF n < 0 THEN <<Garbled>> ELSE <<s>> \o UnpackSpecs(From(cells, n + 2))

-----------------------------------------------------------------------------
(* ofp_action_vendor_base, nicira_base, nx_flow_mod and nxt_packet_in.     *)

ActionBody(x) ==
  CASE x.class \in DOMAIN FixedActions -> <<Sub(1)>> \o FixedActions[x.class]
    [] x.class = "output_reg" -> nx_output_reg(x)
    [] x.class = "reg_move" -> nx_reg_move(x)
    [] x.class = "reg_load" -> nx_reg_load(x)
    [] x.class = "bundle" -> nx_action_bundle(x)
    [] x.class = "learn" -> nx_action_learn(x)

IsAction(x) == x.class \in DOMAIN FixedActions \cup
                           {"output_reg", "reg_move", "reg_load", "bundle", "learn"}

PackAction(x) ==
  LET body == ActionBody(x) IN
  <<Type16(65535), <<"length", 2, 8 + Width(body)>>, U32("vendor")>> \o body

PackMatch(m) == FlattenSeq([i \in DOMAIN m |-> PackEntry(m[i])])

\* The match is padded to eight bytes, which unpack() does not skip.
nx_flow_mod(x) ==
  LET match == PackMatch(x.match)
      actions == FlattenSeq([i \in DOMAIN x.actions |-> PackAction(x.actions[i])])
  IN <<U64("cookie"), U16("command"), U16("idle_timeout"), U16("hard_timeout"),
       U16("priority"), U32("buffer_id"), U16("out_port"), U16("flags"),
       <<"match_len", 2, Width(match)>>, Pad(6)>> \o match \o Padding(Width(match)) \o
     actions

\* As a switch packs it.
nxt_packet_in(x) ==
  LET match == PackMatch(x.match) IN
  <<U32("buffer_id"), U16("total_len"), U8("reason"), U8("table_id"), U64("cookie"),
    <<"match_len", 2, Width(match)>>, Pad(6)>> \o match \o Padding(Width(match)) \o
  <<Pad(2)>> \o SomeBytes("data", x.data)

MessageBody(x) ==
  CASE x.class \in DOMAIN FixedMessages -> FixedMessages[x.class]
    [] x.class = "flow_mod" -> nx_flow_mod(x)
    [] x.class = "packet_in" -> nxt_packet_in(x)

Packed(x) ==
  IF x.class = "entry" THEN PackEntry(x)
  ELSE IF IsAction(x) THEN PackAction(x)
  ELSE LET body == MessageBody(x) IN VendorHeader(VendorMsgLen + Width(body)) \o body

\* What pack() leaves in the object.
Normalized(x) ==
  IF x.class \in {"output_reg", "reg_load", "bundle"}
  THEN [x EXCEPT !.nbits = Inferred(x, x.reg)]
  ELSE IF x.class = "reg_move" /\ x.nbits = 0
  THEN [x EXCEPT !.nbits = LET a == SizeHint(x.reg) b == SizeHint(x.src)
                           IN IF a < b THEN a ELSE b]
  ELSE IF x.class = "entry" /\ x.mask = "ones" THEN [x EXCEPT !.mask = "none"]
  ELSE x

CanPack(x) ==
  /\ x.class \in {"output_reg", "reg_load", "bundle"} => Writable(x, x.reg)
  /\ x.class = "bundle" => BundleWritable(Normalized(x))

-----------------------------------------------------------------------------
(* Reading.                                                                *)

UnpackAction(class, cells) ==
  LET body == From(cells, 4)
      reg(i) == body[i][3].type
  IN CASE class \in DOMAIN FixedActions ->
            IF Fits(<<Sub(1)>> \o FixedActions[class], body) THEN [class |-> class]
            ELSE Garbled
       [] class \in {"output_reg", "reg_load"} ->
            [class |-> class, reg |-> reg(3)] @@ RangeRead(body)
       [] class = "reg_move" ->
            [class |-> class, src |-> reg(5), reg |-> reg(6), nbits |-> Value(body, "nbits")]
       [] class = "bundle" ->
            [class |-> class, reg |-> reg(8), slaves |-> Value(body, "n_slaves")]
              @@ RangeRead(body)
       [] class = "learn" -> [class |-> class, spec |-> UnpackSpecs(From(body, 11))]

\* Actions of a flow_mod come out as generic vendor actions with their length.
RECURSIVE ActionLengths(_)
ActionLengths(cells) ==
  IF cells = <<>> THEN <<>>
  ELSE IF cells[1][1] # "type" THEN <<-1>>
  ELSE LET n == CellsIn(cells, Value(cells, "length")) IN
       IF n < 1 THEN <<-1>>
       ELSE <<Value(cells, "length")>> \o ActionLengths(From(cells, n + 1))

\* Where what follows the match starts: behind the padding if the reader skips it.
BehindMatch(cells, from, skips) ==
  LET len == Value(cells, "match_len")
      n == CellsIn(From(cells, from), len)
  IN from + n + (IF skips /\ len % 8 # 0 THEN 1 ELSE 0)

UnpackMessage(class, cells) ==
  LET body == From(cells, 5) IN
  CASE class \in DOMAIN FixedMessages ->
         IF Fits(FixedMessages[class], body) THEN [class |-> class] ELSE Garbled
    [] class = "flow_mod" ->
         [class |-> class, match |-> UnpackMatch(From(body, 11), Value(body, "match_len")),
          lengths |-> ActionLengths(From(body, BehindMatch(body, 11, FALSE)))]
    [] class = "packet_in" ->
         LET rest == From(body, BehindMatch(body, 8, TRUE) + 1) IN
         [class |-> class, match |-> UnpackMatch(From(body, 8), Value(body, "match_len")),
          data |-> Width(rest)]

Unpacked(class, cells) ==
  IF class = "entry" THEN UnpackEntry(cells)
  ELSE IF IsAction([class |-> class]) THEN UnpackAction(class, cells)
  ELSE UnpackMessage(class, cells)

\* The headers that are resolved to a class while an object is read.
Resolved(class, cells) ==
  IF class \in {"output_reg", "reg_load", "reg_move", "bundle"}
  THEN {cells[i][3] : i \in {j \in DOMAIN cells : cells[j][1] = "nxm"}} ELSE {}

-----------------------------------------------------------------------------
NxInit ==
  /\ object = Nothing /\ wire = <<>> /\ result = Nothing
  /\ registry = Known /\ written = 0

Write(x) ==
  /\ wire = <<>> /\ written < MaxObjects /\ CanPack(x)
  /\ object' = Normalized(x) /\ wire' = Packed(Normalized(x)) /\ result' = Nothing
  /\ written' = written + 1
  /\ UNCHANGED registry

ReadBack ==
  /\ wire # <<>>
  /\ result' = Unpacked(object.class, wire)
  /\ registry' = LET new == {h \in Resolved(object.class, wire) :
                               h.type \notin DOMAIN registry}
                 IN IF new = {} THEN registry ELSE Register(CHOOSE h \in new : TRUE)
  /\ wire' = <<>>
  /\ UNCHANGED <<object, written>>

NxNext == (\E x \in Object : Write(x)) \/ ReadBack

NxSpec == NxInit /\ [][NxNext]_nxVars

-----------------------------------------------------------------------------
\* The contract of pack and unpack (test_action_pack_unpack, test_match_pack_unpack):
\* an object is read as it was written, its bit ranges, specs, slaves, masks and
\* match entries included, whatever was read before it and left in the registry.
\* Actions inside a flow_mod keep their lengths.
ReadAsWritten ==
  result # Nothing =>
    result = IF object.class = "flow_mod"
             THEN [class |-> "flow_mod", match |-> object.match,
                   lengths |-> [i \in DOMAIN object.actions |->
                                  8 + Width(ActionBody(object.actions[i]))]]
             ELSE object
=============================================================================
