----------------------------- MODULE L3Learning -----------------------------
(***************************************************************************)
(* POX's layer 3 learning switch (pox/forwarding/l3_learning.py) with one  *)
(* switch: it learns behind which port an IP address is, installs flows,   *)
(* and keeps packets to an address that it does not know until that was    *)
(* asked for with ARP, or for five seconds (arp_for_unknowns is set).       *)
(*                                                                         *)
(* The connection to the switch keeps the order.  Flows do not time out.   *)
(***************************************************************************)
EXTENDS Integers, Sequences, SequencesExt

CONSTANTS
  Addr, Port,
  Fakeway,               \* fakeways: addresses that the controller answers for
  MAX_BUFFERED_PER_IP,
  MaxPackets             \* bound

VARIABLES
  wide,                  \* the option: a flow is for all packets to an address
  arpTable, lost_buffers, outstanding_arps,
  where,                 \* the port where the host with an address really is
  toCtl, toSw, table,
  held, used,            \* the switch's buffers: with a packet, and each release of one
  packets

learningVars ==
  <<wide, arpTable, lost_buffers, outstanding_arps, where, toCtl, toSw, table, held, used, packets>>

Unknown == 0
OFPP_NONE == 99
NoBuffer == 0

LearningInit ==
  /\ wide \in BOOLEAN
  /\ arpTable = [i \in Addr |-> IF i \in Fakeway THEN OFPP_NONE ELSE Unknown]
  /\ lost_buffers = [i \in Addr |-> <<>>] /\ outstanding_arps = {}
  /\ where \in [Addr \ Fakeway -> Port]
  /\ toCtl = <<>> /\ toSw = <<>> /\ table = {} /\ held = {} /\ used = <<>> /\ packets = 0

-----------------------------------------------------------------------------
(* Packets, and the switch                                                 *)

Match(in, src, dst) == IF wide THEN [dst |-> dst] ELSE [in |-> in, src |-> src, dst |-> dst]

\* An IP packet that no flow matches is put into a buffer; ARP comes as a whole.
Arrives ==
  /\ packets < MaxPackets /\ packets' = packets + 1
  /\ \E src \in Addr \ Fakeway, dst \in Addr, kind \in {"ip", "arp"} :
       /\ src # dst
       /\ kind = "ip" => \A f \in table : f.match # Match(where[src], src, dst)
       /\ toCtl' = Append(toCtl, [kind |-> kind, in |-> where[src], src |-> src, dst |-> dst,
                                  buf |-> IF kind = "ip" THEN packets + 1 ELSE NoBuffer])
       /\ held' = IF kind = "ip" THEN held \cup {packets + 1} ELSE held
  /\ UNCHANGED <<wide, arpTable, lost_buffers, outstanding_arps, where, toSw, table, used>>

HostMoves ==
  /\ packets < MaxPackets /\ packets' = packets + 1
  /\ \E i \in Addr \ Fakeway, p \in Port : where[i] # p /\ where' = [where EXCEPT ![i] = p]
  /\ UNCHANGED <<wide, arpTable, lost_buffers, outstanding_arps, toCtl, toSw, table, held, used>>

SwitchTakes ==
  /\ toSw # <<>> /\ toSw' = Tail(toSw)
  /\ LET msg == Head(toSw)
     IN /\ table' = CASE msg.kind = "delete" -> {f \in table : f.match.dst # msg.dst}
                      [] msg.kind = "mod" -> {f \in table : f.match # msg.match} \cup
                                             {[match |-> msg.match, out |-> msg.out]}
                      [] OTHER -> table
        /\ IF msg.buf = NoBuffer THEN UNCHANGED <<held, used>>
           ELSE held' = held \ {msg.buf} /\ used' = Append(used, msg.buf)
  /\ UNCHANGED <<wide, arpTable, lost_buffers, outstanding_arps, where, toCtl, packets>>

-----------------------------------------------------------------------------
(* The controller                                                          *)

Release(buf, out) == [kind |-> "packet_out", buf |-> buf, out |-> out]
Flood == [kind |-> "flood", buf |-> NoBuffer]

\* _send_lost_buffers
Waiting(ip, port) == [i \in DOMAIN lost_buffers[ip] |-> Release(lost_buffers[ip][i], port)]

Forget(ip, port) ==
  IF wide /\ arpTable[ip] \notin {Unknown, port} THEN <<[kind |-> "delete", dst |-> ip, buf |-> NoBuffer]>>
  ELSE <<>>

\* What every packet says of its source.
Learns(p) == arpTable' = [arpTable EXCEPT ![p.src] = p.in]

\* Mutant: what was sent is kept.
StillWaiting(p) == lost_buffers
NotWaiting(p) == [lost_buffers EXCEPT ![p.src] = <<>>]

\* To an address that is known.
Forwarded(p) ==
  IF arpTable[p.dst] = p.in THEN <<>>   \* not out of the input port
  ELSE <<[kind |-> "mod", match |-> Match(p.in, p.src, p.dst), out |-> arpTable[p.dst], buf |-> p.buf]>>

\* The oldest are dropped from the bucket; their buffers stay with the switch.
Bucket(seq) ==
  IF Len(seq) > MAX_BUFFERED_PER_IP THEN SubSeq(seq, Len(seq) - MAX_BUFFERED_PER_IP + 1, Len(seq)) ELSE seq

HandleIp ==
  /\ toCtl # <<>> /\ Head(toCtl).kind = "ip" /\ toCtl' = Tail(toCtl)
  /\ LET p == Head(toCtl)
     IN /\ Learns(p)
        /\ IF arpTable[p.dst] # Unknown
           THEN /\ toSw' = toSw \o Waiting(p.src, p.in) \o Forget(p.src, p.in) \o Forwarded(p)
                /\ lost_buffers' = NotWaiting(p)
                /\ UNCHANGED outstanding_arps
           ELSE /\ lost_buffers' = [NotWaiting(p) EXCEPT ![p.dst] = Bucket(Append(@, p.buf))]
                /\ toSw' = toSw \o Waiting(p.src, p.in) \o Forget(p.src, p.in) \o
                           (IF p.dst \in outstanding_arps THEN <<>> ELSE <<Flood>>)
                /\ outstanding_arps' = outstanding_arps \cup {p.dst}
  /\ UNCHANGED <<wide, where, table, held, used, packets>>

\* A request for what is known, and not for too long, is answered; other ARP is flooded.
HandleArp ==
  /\ toCtl # <<>> /\ Head(toCtl).kind = "arp" /\ toCtl' = Tail(toCtl)
  /\ LET p == Head(toCtl)
     IN /\ Learns(p) /\ lost_buffers' = NotWaiting(p)
        /\ \E answered \in BOOLEAN :
             /\ answered => arpTable[p.dst] # Unknown
             /\ toSw' = toSw \o Forget(p.src, p.in) \o Waiting(p.src, p.in) \o
                        (IF answered THEN <<[kind |-> "answer", buf |-> NoBuffer]>> ELSE <<Flood>>)
  /\ UNCHANGED <<wide, outstanding_arps, where, table, held, used, packets>>

\* _handle_expiration: what waited for too long is dropped; and ARP is sent again.
_handle_expiration ==
  /\ \E i \in Addr, n \in 1..MAX_BUFFERED_PER_IP :
       /\ n <= Len(lost_buffers[i])
       /\ lost_buffers' = [lost_buffers EXCEPT ![i] = SubSeq(@, n + 1, Len(@))]
       /\ toSw' = toSw \o [k \in 1..n |-> Release(lost_buffers[i][k], 0)]
  /\ UNCHANGED <<wide, arpTable, outstanding_arps, where, toCtl, table, held, used, packets>>

ArpForgotten ==
  /\ \E i \in outstanding_arps : outstanding_arps' = outstanding_arps \ {i}
  /\ UNCHANGED <<wide, arpTable, lost_buffers, where, toCtl, toSw, table, held, used, packets>>

LearningNext ==
  Arrives \/ HostMoves \/ SwitchTakes \/ HandleIp \/ HandleArp \/ _handle_expiration \/ ArpForgotten

LearningSpec == LearningInit /\ [][LearningNext]_learningVars

-----------------------------------------------------------------------------
\* With the option wide, when nothing is on its way to the switch its flows lead to where
\* the addresses were seen last, in whatever packets that was seen.
FlowsFollow ==
  wide /\ toSw = <<>> => \A f \in table : f.out = arpTable[f.match.dst]

\* A buffered packet is let go once, and none waits for an address that is known by now.
WaitsOnce ==
  /\ IsInjective(used)
  /\ \A i \in Addr : arpTable[i] # Unknown => lost_buffers[i] = <<>>
=============================================================================
