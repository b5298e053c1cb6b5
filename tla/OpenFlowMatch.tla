---------------------------- MODULE OpenFlowMatch ----------------------------
(***************************************************************************)
(* ofp_match of pox/openflow/libopenflow_01.py: an application makes a     *)
(* match from a packet, changes it and installs a flow with it; the        *)
(* software switch (flow_table.py) reads it from the flow_mod, looks       *)
(* packets up with it and sends it back when the flow is removed.          *)
(*                                                                         *)
(* A match is its wildcard bits and its values apart from them, as in the  *)
(* code and on the wire.  IP addresses have AddrBits bits in place of 32.  *)
(* Ethernet types, protocols and the addresses of layer 2 are names;       *)
(* "zero" is a field that has the value 0.                                 *)
(***************************************************************************)
EXTENDS Integers, FiniteSets

CONSTANTS
  Packet,     \* the packets of the network
  MaxEdits    \* bound: changes of one match

VARIABLES
  match,      \* the match that the application works on, or None
  origin,     \* the packet it was made for, while it is still for that packet
  flow,       \* the match of the entry in the switch, or None
  removed,    \* the match of the flow_removed, or None
  edits

matchVars == <<match, origin, flow, removed, edits>>

None == [none |-> TRUE]

PlainField == {"in_port", "dl_src", "dl_dst", "dl_vlan", "dl_type", "nw_tos", "nw_proto",
               "tp_src", "tp_dst"}
NwField == {"nw_src", "nw_dst"}
TpField == {"tp_src", "tp_dst"}
Field == PlainField \cup NwField

AddrBits == 2
Addr == 0..3
\* The field of a wildcard that counts bits has more values than AddrBits.
NwMask == 3

-----------------------------------------------------------------------------
(* The object. *)

Default(f) == IF f \in NwField THEN 0 ELSE "zero"

\* __init__: everything is wildcarded.
NewMatch == [wild |-> PlainField, ignored |-> [f \in NwField |-> AddrBits],
             value |-> [f \in Field |-> Default(f)]]

IsWild(m, f) == IF f \in NwField THEN m.ignored[f] >= AddrBits ELSE f \in m.wild

\* __getattr__
Get(m, f) == IF IsWild(m, f) THEN "None" ELSE m.value[f]

\* __setattr__, set_nw_src, set_nw_dst: `bits` are those that count.
Set(m, f, v) == [m EXCEPT !.wild = @ \ {f}, !.value[f] = v]
SetNw(m, f, v, bits) == [m EXCEPT !.ignored[f] = AddrBits - bits, !.value[f] = v]
Clear(m, f) == IF f \in NwField THEN SetNw(m, f, Default(f), 0)
               ELSE [m EXCEPT !.wild = @ \cup {f}, !.value[f] = Default(f)]
ClearAll(m, fields) ==
  [wild |-> m.wild \cup (fields \cap PlainField),
   ignored |-> [f \in NwField |-> IF f \in fields THEN AddrBits ELSE m.ignored[f]],
   value |-> [f \in Field |-> IF f \in fields THEN Default(f) ELSE m.value[f]]]

WithPorts(m, src, dst) == Set(Set(m, "tp_src", src), "tp_dst", dst)
WithNw(m, pkt) ==
  SetNw(SetNw(Set(m, "nw_proto", pkt.proto), "nw_src", pkt.src, AddrBits),
        "nw_dst", pkt.dst, AddrBits)

\* from_packet.  A later fragment is not parsed beyond its IP header; the first
\* one is.
FromPacket(pkt, specFrags) ==
  LET ether == [f \in {"in_port", "dl_src", "dl_dst", "dl_vlan", "dl_type"} |->
                  CASE f = "in_port" -> pkt.port [] f = "dl_src" -> pkt.from
                    [] f = "dl_dst" -> pkt.to [] f = "dl_vlan" -> pkt.vlan
                    [] f = "dl_type" -> pkt.type]
      l2 == [NewMatch EXCEPT !.wild = @ \ DOMAIN ether,
               !.value = [f \in Field |-> IF f \in DOMAIN ether THEN ether[f] ELSE @[f]]]
      l3 == Set(WithNw(l2, pkt), "nw_tos", pkt.tos)
  IN CASE pkt.type = "ip" ->
            IF specFrags /\ pkt.frag # "whole" THEN WithPorts(l3, "zero", "zero")
            ELSE IF pkt.proto \in {"tcp", "icmp"} /\ pkt.frag # "later"
            THEN WithPorts(l3, pkt.sport, pkt.dport)
            ELSE l3
       [] pkt.type = "arp" /\ pkt.proto # "opcode over 255" -> WithNw(l2, pkt)
       [] OTHER -> l2

\* flip, with another in_port.
Flip(m, port) ==
  LET swap == [f \in Field |->
                 CASE f = "dl_src" -> "dl_dst" [] f = "dl_dst" -> "dl_src"
                   [] f = "nw_src" -> "nw_dst" [] f = "nw_dst" -> "nw_src"
                   [] f = "tp_src" -> "tp_dst" [] f = "tp_dst" -> "tp_src" [] OTHER -> f]
  IN Set([wild |-> {swap[f] : f \in m.wild},
          \* what was set is set to an address, without its prefix
          ignored |-> [f \in NwField |-> IF IsWild(m, swap[f]) THEN AddrBits ELSE 0],
          value |-> [f \in Field |-> m.value[swap[f]]]],
         "in_port", port)

-----------------------------------------------------------------------------
(* What cannot be matched without the type and the protocol. *)

HasTp(type, proto) == type = "ip" /\ proto \in {"tcp", "icmp"}

\* _wire_wildcards: the wildcards that are cleared for the wire.
WireCleared(m) ==
  CASE Get(m, "dl_type") = "ip" ->
         IF HasTp("ip", Get(m, "nw_proto")) THEN {} ELSE TpField
    [] Get(m, "dl_type") = "arp" -> {"nw_tos"} \cup TpField
    [] Get(m, "dl_type") = "ipv6" -> NwField \cup TpField
    [] OTHER -> {"nw_tos", "nw_proto"} \cup NwField \cup TpField

\* fix, and with the raw values _unwire_wildcards: the fields that are removed,
\* "exactly" as in _wire_wildcards but for IPv6.
Unmatchable(type, proto) ==
  CASE type = "ip" -> IF HasTp(type, proto) THEN {} ELSE TpField
    [] type = "arp" -> {"nw_tos"} \cup TpField
    [] OTHER -> {"nw_tos", "nw_proto"} \cup NwField \cup TpField
Fix(m) == ClearAll(m, Unmatchable(Get(m, "dl_type"), Get(m, "nw_proto")))

\* pack: fields without their prerequisites are written as 0.
Packable(m, f) ==
  LET type == Get(m, "dl_type") IN
  CASE f = "nw_tos" -> type = "ip"
    [] f \in {"nw_proto"} \cup NwField -> type \in {"ip", "arp"}
    [] f \in TpField -> HasTp(type, Get(m, "nw_proto"))
    [] OTHER -> TRUE

ToWire(m, flowMod) ==
  LET cleared == IF flowMod THEN WireCleared(m) ELSE {} IN
  [wild |-> m.wild \ cleared,
   ignored |-> [f \in NwField |-> IF f \in cleared THEN 0 ELSE m.ignored[f]],
   value |-> [f \in Field |-> IF Packable(m, f) /\ ~IsWild(m, f) THEN m.value[f]
                              ELSE Default(f)]]

\* Mutant: the bits are taken as they come.
AsTheyCome(bits) == bits

\* _normalize_wildcards
NormalizedBits(bits) == IF bits > AddrBits THEN AddrBits ELSE bits

\* unpack, _unwire_wildcards
FromWire(w, flowMod) ==
  LET set == IF flowMod THEN Unmatchable(w.value.dl_type, w.value.nw_proto) ELSE {} IN
  [wild |-> w.wild \cup (set \cap PlainField),
   ignored |-> [f \in NwField |-> NormalizedBits(IF f \in set THEN NwMask ELSE w.ignored[f])],
   value |-> w.value]

\* IPAddr.inNetwork: the network is taken as it is, the address is masked.
InNetwork(a, net, ign) == (a \div 2^ign) * 2^ign = net

\* matches_with_wildcards, without the comparison of the wildcard bits, as
\* entry_for_packet calls it.
Covers(m, other) ==
  /\ \A f \in PlainField : IsWild(m, f) \/ m.value[f] = Get(other, f)
  /\ \A f \in NwField :
       IsWild(m, f) \/ /\ m.ignored[f] >= other.ignored[f]
                       /\ InNetwork(other.value[f], m.value[f], m.ignored[f])

-----------------------------------------------------------------------------
MatchInit == match = None /\ origin = None /\ flow = None /\ removed = None /\ edits = 0

\* The application makes a match from a packet_in.
Make(pkt) ==
  /\ match = None
  /\ match' = FromPacket(pkt, FALSE) /\ origin' = pkt
  /\ UNCHANGED <<flow, removed, edits>>

Edited == match # None /\ flow = None /\ edits < MaxEdits /\ edits' = edits + 1

\* match.f = None
Generalize(f) ==
  /\ Edited
  /\ match' = Clear(match, f)
  /\ UNCHANGED <<origin, flow, removed>>

\* match.nw_src = (network, bits), for a network that the address is in.
SetNetwork(f, bits) ==
  /\ Edited /\ ~IsWild(match, f) /\ AddrBits - bits > match.ignored[f]
  /\ LET ign == AddrBits - bits IN
     match' = SetNw(match, f, (match.value[f] \div 2^ign) * 2^ign, bits)
  /\ UNCHANGED <<origin, flow, removed>>

\* match.f = v, for another packet than the one it was made for.
Assign(f, v) ==
  /\ Edited /\ Get(match, f) # v
  /\ match' = Set(match, f, v) /\ origin' = None
  /\ UNCHANGED <<flow, removed>>

\* The answer of a host to a packet, which comes in by another port.
Reply(pkt) ==
  [pkt EXCEPT !.from = pkt.to, !.to = pkt.from, !.src = pkt.dst, !.dst = pkt.src,
              !.sport = pkt.dport, !.dport = pkt.sport, !.port = "port 2"]

\* The application turns the match of a TCP packet round for the answers.
TurnRound ==
  /\ Edited /\ origin # None /\ origin.proto = "tcp"
  /\ \A f \in NwField : match.ignored[f] \in {0, AddrBits}
  /\ match' = Flip(match, "port 2") /\ origin' = Reply(origin)
  /\ UNCHANGED <<flow, removed>>

\* A flow_mod arrives in the switch.
Install ==
  /\ match # None /\ flow = None
  /\ flow' = FromWire(ToWire(match, TRUE), TRUE)
  /\ UNCHANGED <<match, origin, removed, edits>>

\* The entry is removed: flow_removed is read by the controller.
Expire ==
  /\ flow # None /\ removed = None
  /\ removed' = FromWire(ToWire(flow, FALSE), FALSE)
  /\ UNCHANGED <<match, origin, flow, edits>>

MatchNext ==
  \/ \E pkt \in Packet : Make(pkt)
  \/ \E f \in Field : Generalize(f)
  \/ \E f \in NwField, bits \in 1..AddrBits - 1 : SetNetwork(f, bits)
  \/ \E type \in {"ip", "arp", "ipv6", "other"} : Assign("dl_type", type)
  \/ \E proto \in {"tcp", "ospf"} : Assign("nw_proto", proto)
  \/ \E f \in {"nw_tos"} \cup TpField : Assign(f, "zero")
  \/ TurnRound \/ Install \/ Expire

MatchSpec == MatchInit /\ [][MatchNext]_matchVars

-----------------------------------------------------------------------------
\* "Removes unmatchable fields.  The logic in this should exactly match that in
\* _wire_wildcards()" (fix): the switch, and after it the application that gets
\* the flow_removed, have the match that the application gave, as fix() leaves
\* it, in its values and its wildcards, whatever was left unspecified.
MatchSurvives ==
  /\ flow # None => flow = Fix(match)
  /\ removed # None => removed = Fix(match)

\* A flow for a packet covers that packet in the switch, which reads the packet
\* for itself, after any generalization and turned round for the answers.
CoversItsPacket ==
  flow # None /\ origin # None => Covers(flow, FromPacket(origin, TRUE))

\* Both, of what was packed.
MatchSound == MatchSurvives /\ CoversItsPacket
=============================================================================
