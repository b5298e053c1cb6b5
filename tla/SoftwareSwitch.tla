--------------------------- MODULE SoftwareSwitch ---------------------------
(***************************************************************************)
(* The software switch of POX (pox/datapaths/switch.py) with its flow      *)
(* table (pox/openflow/flow_table.py), and the learning switch that        *)
(* controls it (pox/forwarding/l2_learning.py), over the two directions of *)
(* one OpenFlow session.                                                   *)
(*                                                                         *)
(* A match has the fields in_port, dl_src and dl_dst of the code's twelve; *)
(* the others behave like these.  A packet has the number n of its arrival *)
(* in place of a payload.  One other application may send flow_mods and    *)
(* port_mods of its own.  Statistics, queues, configuration requests and   *)
(* fragments change neither the table nor the buffers and are left out.    *)
(***************************************************************************)
EXTENDS Integers, Sequences, FiniteSets, SequencesExt

CONSTANTS
  SwPort,      \* ports of the switch, 1..k
  Host,        \* hosts, each at one port: At
  At,          \* [Host -> SwPort]
  Wild,        \* a wildcarded field: None in the code
  FlowMods,    \* flow_mods the other application may send
  PortMods,    \* port_mods it may send
  MaxBuffers,  \* max_buffers
  MaxEntries,  \* max_entries
  MaxPackets,  \* bound: packets that hosts send
  MaxMods      \* bound: messages of the other application

VARIABLES
  table,      \* FlowTable._table
  buffer,     \* _packet_buffer: packets with their port, or Free for None
  portConfig, \* [SwPort -> set of config bits]
  ctlQueue, swQueue, \* messages on the way to the controller, to the switch
  macToPort,  \* LearningSwitch.macToPort, a partial function
  left,       \* {<<n, port>>}: packet n left by the port
  arrivals,   \* the packets that hosts sent
  mods        \* how many messages the other application sent

vars == <<table, buffer, portConfig, ctlQueue, swQueue, macToPort, left,
          arrivals, mods>>

Broadcast == "broadcast"
Free == [pkt |-> [n |-> 0], in |-> 0]
NoBuffer == 0
OFPP_IN_PORT == 65528
OFPP_TABLE == 65529
OFPP_FLOOD == 65531
OFPP_ALL == 65532
OFPP_CONTROLLER == 65533
OFPP_NONE == 65535

Init ==
  /\ table = <<>> /\ buffer = <<>>
  /\ portConfig = [p \in SwPort |-> {}]
  /\ ctlQueue = <<>> /\ swQueue = <<>>
  /\ macToPort = <<>>
  /\ left = {} /\ arrivals = <<>> /\ mods = 0

-----------------------------------------------------------------------------
(* Matches and the flow table. *)

Covers(mine, other) == mine = Wild \/ mine = other

\* ofp_match.matches_with_wildcards: m encompasses o.
Encompasses(m, o) ==
  Covers(m.in, o.in) /\ Covers(m.src, o.src) /\ Covers(m.dst, o.dst)

\* ofp_match.from_packet
FromPacket(pkt, in) == [in |-> in, src |-> pkt.src, dst |-> pkt.dst]

IsWildcarded(m) == Wild \in {m.in, m.src, m.dst}

\* "Exact matches effectively have an infinite priority."
EffectivePriority(e) == IF IsWildcarded(e.match) THEN e.priority ELSE 65537

OrderedBy(e) == EffectivePriority(e)

\* add_entry: the binary search ends before the first entry that has no higher
\* priority, so the newest of equals is found first.
Place(t, e) ==
  CHOOSE i \in 1..Len(t) + 1 :
    /\ \A j \in 1..i - 1 : OrderedBy(t[j]) > OrderedBy(e)
    /\ i <= Len(t) => OrderedBy(e) >= OrderedBy(t[i])
AddEntry(t, e) == InsertAt(t, Place(t, e), e)

\* is_matched_by
OutputsTo(e, port) == port = OFPP_NONE \/ <<"output", port>> \in ToSet(e.actions)
IsMatchedBy(e, mod, strict) ==
  IF strict THEN e.match = mod.match /\ e.priority = mod.priority
  ELSE Encompasses(mod.match, e.match)

\* check_for_overlapping_entry, among those of the same priority: it finds an
\* entry that encompasses the new one or is encompassed by it.
Overlaps(t, e) ==
  \E i \in DOMAIN t :
    /\ EffectivePriority(t[i]) = EffectivePriority(e)
    /\ Encompasses(e.match, t[i].match) \/ Encompasses(t[i].match, e.match)

\* entry_for_packet: the first that matches, or 0.
EntryFor(t, pkt, in) ==
  LET hits == {i \in DOMAIN t : Encompasses(t[i].match, FromPacket(pkt, in))} IN
  IF hits = {} THEN 0 ELSE CHOOSE i \in hits : \A j \in hits : i <= j

\* _handle_FlowTableModification, for entries removed by time or by a delete.
Notices(t, gone) ==
  [i \in 1..Cardinality({j \in gone : "send_flow_rem" \in t[j].flags}) |->
     [kind |-> "flow_removed"]]
Without(t, gone) ==
  LET kept[i \in 0..Len(t)] ==
        IF i = 0 THEN <<>>
        ELSE IF i \in gone THEN kept[i - 1] ELSE Append(kept[i - 1], t[i])
  IN kept[Len(t)]

-----------------------------------------------------------------------------
(* Packets through the switch.  A record holds what their processing        *)
(* changes: the buffer, what left, and the messages sent.                   *)

Unchanged == [buffer |-> buffer, left |-> left, sent |-> <<>>]

\* _buffer_packet and send_packet_in: a free slot, a new one, or none, and
\* then the packet_in carries the whole packet.
PacketIn(sw, pkt, in) ==
  LET free == {i \in DOMAIN sw.buffer : sw.buffer[i] = Free}
      slot == IF free # {} THEN CHOOSE i \in free : \A j \in free : i <= j
              ELSE IF Len(sw.buffer) < MaxBuffers THEN Len(sw.buffer) + 1
              ELSE NoBuffer
  IN [sw EXCEPT !.buffer = IF slot = NoBuffer THEN @
                           ELSE IF slot > Len(@) THEN Append(@, [pkt |-> pkt, in |-> in])
                           ELSE [@ EXCEPT ![slot] = [pkt |-> pkt, in |-> in]],
                !.sent = Append(@, [kind |-> "packet_in", buf |-> slot,
                                    in |-> in, pkt |-> pkt])]

\* real_send, to a set of ports that are not the input port.
MaySend(p) == portConfig[p] \cap {"no_fwd", "port_down"} = {}
SendOut(sw, pkt, ports) ==
  [sw EXCEPT !.left = @ \cup {<<pkt.n, p>> : p \in {q \in ports : MaySend(q)}}]

\* _output_packet, for each port but OFPP_TABLE.
Output(sw, pkt, in, port) ==
  CASE port \in SwPort -> SendOut(sw, pkt, {port} \ {in})
    [] port = OFPP_IN_PORT -> SendOut(sw, pkt, {in} \cap SwPort)
    [] port = OFPP_FLOOD ->
         SendOut(sw, pkt, {p \in SwPort \ {in} : "no_flood" \notin portConfig[p]})
    [] port = OFPP_ALL -> SendOut(sw, pkt, SwPort \ {in})
    [] port = OFPP_CONTROLLER -> PacketIn(sw, pkt, in)

\* One action on the packet at hand.  A rewritten packet is the same object as
\* the one that an earlier action put into the buffer.
Act(acc, act, in) ==
  IF act[1] = "output" THEN [acc EXCEPT !.sw = Output(@, acc.pkt, in, act[2])]
  ELSE LET new == [acc.pkt EXCEPT !.dst = act[2]] IN     \* set_dl_dst
       [pkt |-> new,
        sw |-> [acc.sw EXCEPT !.buffer =
                  [i \in DOMAIN @ |-> IF @[i].pkt = acc.pkt
                                       THEN [@[i] EXCEPT !.pkt = new] ELSE @[i]]]]

\* _process_actions_for_packet
Perform(sw, acts, pkt, in) ==
  FoldLeft(LAMBDA acc, act : Act(acc, act, in), [sw |-> sw, pkt |-> pkt], acts).sw

\* rx_packet
RxPacket(sw, t, pkt, in) ==
  LET i == EntryFor(t, pkt, in) IN
  IF "no_recv" \in portConfig[in] THEN sw
  ELSE IF i # 0 THEN Perform(sw, t[i].actions, pkt, in)
  ELSE IF "no_packet_in" \in portConfig[in] THEN sw
  ELSE PacketIn(sw, pkt, in)

\* Actions of a packet_out may be OFPP_TABLE, which entries do not have.
PerformOrLookUp(sw, t, acts, pkt, in) ==
  IF acts = <<<<"output", OFPP_TABLE>>>> THEN RxPacket(sw, t, pkt, in)
  ELSE Perform(sw, acts, pkt, in)

\* _process_actions_for_packet_from_buffer: the slot is freed after the actions.
FromBuffer(sw, t, acts, buf) ==
  IF buf = NoBuffer \/ buf > Len(sw.buffer) THEN sw
  ELSE IF sw.buffer[buf] = Free THEN sw
  ELSE [PerformOrLookUp(sw, t, acts, sw.buffer[buf].pkt, sw.buffer[buf].in)
          EXCEPT !.buffer[buf] = Free]

Becomes(sw) ==
  /\ buffer' = sw.buffer /\ left' = sw.left
  /\ ctlQueue' = ctlQueue \o sw.sent

-----------------------------------------------------------------------------
(* What the switch does. *)

\* A packet of a host arrives.
Arrive(h, d) ==
  /\ Len(arrivals) < MaxPackets
  /\ LET pkt == [n |-> Len(arrivals) + 1, src |-> h, dst |-> d] IN
     arrivals' = Append(arrivals, pkt) /\ Becomes(RxPacket(Unchanged, table, pkt, At[h]))
  /\ UNCHANGED <<table, portConfig, swQueue, macToPort, mods>>

\* remove_expired_entries, on a timer.
Expire ==
  \E gone \in SUBSET {i \in DOMAIN table : table[i].timed} :
    /\ gone # {}
    /\ table' = Without(table, gone)
    /\ ctlQueue' = ctlQueue \o Notices(table, gone)
    /\ UNCHANGED <<buffer, portConfig, swQueue, macToPort, left, arrivals, mods>>

\* _flow_mod_add removes the twin of an entry, without a notice.
Replaced(t, mod) ==
  IF mod.command = "add"
  THEN Without(t, {i \in DOMAIN t : IsMatchedBy(t[i], mod, TRUE)}) ELSE t

\* _flow_mod_add: the table after it, and the errors it sends.
EntryOf(mod) == [match |-> mod.match, priority |-> mod.priority,
                 actions |-> mod.actions, flags |-> mod.flags, timed |-> mod.timed]
Refused == <<[kind |-> "error"]>>
FlowModAdd(mod) ==
  LET e == EntryOf(mod)
      t == Replaced(table, mod)
  IN IF "emerg" \in mod.flags \/ ("check_overlap" \in mod.flags /\ Overlaps(table, e))
     THEN [table |-> table, sent |-> Refused]
     ELSE IF Len(t) >= MaxEntries THEN [table |-> t, sent |-> Refused]
     ELSE [table |-> AddEntry(t, e), sent |-> <<>>]

\* _flow_mod_modify: an add when nothing matches.
FlowModModify(mod, strict) ==
  IF \A i \in DOMAIN table : ~IsMatchedBy(table[i], mod, strict) THEN FlowModAdd(mod)
  ELSE [table |-> [i \in DOMAIN table |->
                     IF IsMatchedBy(table[i], mod, strict)
                     THEN [table[i] EXCEPT !.actions = mod.actions] ELSE table[i]],
        sent |-> <<>>]

\* _flow_mod_delete
FlowModDelete(mod, strict) ==
  LET gone == {i \in DOMAIN table : /\ IsMatchedBy(table[i], mod, strict)
                                    /\ OutputsTo(table[i], mod.outPort)}
  IN [table |-> Without(table, gone), sent |-> Notices(table, gone)]

FlowMod(mod) ==
  CASE mod.command = "add" -> FlowModAdd(mod)
    [] mod.command = "modify" -> FlowModModify(mod, FALSE)
    [] mod.command = "modify_strict" -> FlowModModify(mod, TRUE)
    [] mod.command = "delete" -> FlowModDelete(mod, FALSE)
    [] mod.command = "delete_strict" -> FlowModDelete(mod, TRUE)

\* Mutant: an error ends the handling of the message.
AfterSuccess(r, mod) == IF r.sent = Refused THEN NoBuffer ELSE mod.buf

\* _rx_flow_mod looks at the buffered packet after an error too.
AfterFlowMod(r, mod) == mod.buf

RxFlowMod(m) ==
  LET r == FlowMod(m)
      sw == [Unchanged EXCEPT !.sent = r.sent]
  IN /\ table' = r.table
     /\ Becomes(FromBuffer(sw, r.table, m.actions, AfterFlowMod(r, m)))
     /\ UNCHANGED portConfig

\* _rx_packet_out
RxPacketOut(m) ==
  /\ Becomes(IF m.buf = NoBuffer
             THEN PerformOrLookUp(Unchanged, table, m.actions, m.pkt, m.from)
             ELSE FromBuffer(Unchanged, table, m.actions, m.buf))
  /\ UNCHANGED <<table, portConfig>>

\* _rx_port_mod, one bit of the mask; the port that goes down, or comes back,
\* is reported.
RxPortMod(m) ==
  LET had == m.bit \in portConfig[m.port] IN
  /\ portConfig' = [portConfig EXCEPT ![m.port] =
                      IF m.on THEN @ \cup {m.bit} ELSE @ \ {m.bit}]
  /\ ctlQueue' = IF m.bit = "port_down" /\ m.on # had
                 THEN Append(ctlQueue, [kind |-> "port_status"]) ELSE ctlQueue
  /\ UNCHANGED <<table, buffer, left>>

RxBarrier ==
  /\ ctlQueue' = Append(ctlQueue, [kind |-> "barrier_reply"])
  /\ UNCHANGED <<table, buffer, portConfig, left>>

\* rx_message
RxMessage ==
  /\ swQueue # <<>>
  /\ swQueue' = Tail(swQueue)
  /\ LET m == Head(swQueue) IN
     \/ m.kind = "flow_mod" /\ RxFlowMod(m)
     \/ m.kind = "packet_out" /\ RxPacketOut(m)
     \/ m.kind = "port_mod" /\ RxPortMod(m)
     \/ m.kind = "barrier" /\ RxBarrier
  /\ UNCHANGED <<macToPort, arrivals, mods>>

-----------------------------------------------------------------------------
(* The controller. *)

\* ofp_packet_out with the packet_in as its data: the buffer, or the packet.
PacketOut(ev, acts) ==
  <<[kind |-> "packet_out", buf |-> ev.buf, pkt |-> ev.pkt, from |-> ev.in,
     actions |-> acts]>>

LearningMod(match, acts, buf) ==
  [kind |-> "flow_mod", command |-> "add", match |-> match, priority |-> 32768,
   actions |-> acts, flags |-> {}, timed |-> TRUE, outPort |-> OFPP_NONE,
   buf |-> buf]

\* Mutant: the packet itself does not follow the flow_mod.
ModAlone(match, acts, ev) == <<LearningMod(match, acts, ev.buf)>>

\* ofp_flow_mod.pack with the packet_in as its data: the buffer's number, or a
\* barrier and a packet_out to the table behind the flow_mod.
ModWithData(match, acts, ev) ==
  <<LearningMod(match, acts, ev.buf)>> \o
  (IF ev.buf # NoBuffer THEN <<>>
   ELSE <<[kind |-> "barrier"]>> \o PacketOut(ev, <<<<"output", OFPP_TABLE>>>>))

\* drop(10): similar packets from any port are dropped for a while.
Drop(ev) == <<LearningMod(FromPacket(ev.pkt, Wild), <<>>, ev.buf)>>

\* The answer of LearningSwitch._handle_PacketIn, given its table.
Answer(ev, ports) ==
  IF ev.pkt.dst = Broadcast \/ ev.pkt.dst \notin DOMAIN ports
  THEN PacketOut(ev, <<<<"output", OFPP_FLOOD>>>>)
  ELSE IF ports[ev.pkt.dst] = ev.in THEN Drop(ev)
  ELSE ModWithData(FromPacket(ev.pkt, ev.in),
                   <<<<"output", ports[ev.pkt.dst]>>>>, ev)

HandlePacketIn ==
  /\ ctlQueue # <<>> /\ Head(ctlQueue).kind = "packet_in"
  /\ LET ev == Head(ctlQueue)
         ports == [h \in DOMAIN macToPort \cup {ev.pkt.src} |->
                     IF h = ev.pkt.src THEN ev.in ELSE macToPort[h]]
     IN /\ macToPort' = ports
        /\ swQueue' = swQueue \o Answer(ev, ports)
  /\ ctlQueue' = Tail(ctlQueue)
  /\ UNCHANGED <<table, buffer, portConfig, left, arrivals, mods>>

\* Messages the learning switch does not listen to.
HandleOther ==
  /\ ctlQueue # <<>> /\ Head(ctlQueue).kind # "packet_in"
  /\ ctlQueue' = Tail(ctlQueue)
  /\ UNCHANGED <<table, buffer, portConfig, swQueue, macToPort, left, arrivals, mods>>

\* The other application sends a message.
OtherApplication(m) ==
  /\ mods < MaxMods /\ mods' = mods + 1
  /\ swQueue' = Append(swQueue, m)
  /\ UNCHANGED <<table, buffer, portConfig, ctlQueue, macToPort, left, arrivals>>

Next ==
  \/ \E h \in Host, d \in Host \cup {Broadcast} : h # d /\ Arrive(h, d)
  \/ Expire \/ RxMessage
  \/ HandlePacketIn \/ HandleOther
  \/ \E m \in FlowMods \cup PortMods : OtherApplication(m)

Spec == Init /\ [][Next]_vars

-----------------------------------------------------------------------------
(* Properties. *)

\* "Returns the highest priority flow table entry that matches the given packet"
\* (entry_for_packet), whatever was added, replaced, modified and expired: the
\* search stops at the first match, which relies on the order of the table.
BestMatch ==
  \A h \in Host, d \in Host \cup {Broadcast} :
    LET pkt == [n |-> 0, src |-> h, dst |-> d]
        i == EntryFor(table, pkt, At[h])
    IN \A j \in DOMAIN table :
         Encompasses(table[j].match, FromPacket(pkt, At[h])) =>
           EffectivePriority(table[i]) >= EffectivePriority(table[j])

\* An entry is known by its match and priority: no two have both the same, or a
\* strict modify or delete would change more than the one it names.
NoTwins ==
  \A i, j \in DOMAIN table :
    table[i].match = table[j].match /\ table[i].priority = table[j].priority => i = j

\* Messages on the way that carry the number of a buffer.
Carriers(b) ==
  {<<"in", i>> : i \in {i \in DOMAIN ctlQueue :
       ctlQueue[i].kind = "packet_in" /\ ctlQueue[i].buf = b}} \cup
  {<<"out", i>> : i \in {i \in DOMAIN swQueue :
       swQueue[i].kind \in {"flow_mod", "packet_out"} /\ swQueue[i].buf = b}}

\* A slot of the packet buffer is taken exactly while one message is on the way
\* that carries its number: none is lost for ever, however the flow_mod or the
\* packet_out that answers it ends, and none is freed, filled again and then
\* released by an old answer.
BuffersAccounted ==
  \A b \in 1..MaxBuffers :
    Cardinality(Carriers(b)) = IF b \in DOMAIN buffer /\ buffer[b] # Free THEN 1 ELSE 0

\* Packets somebody still has.
InFlight(n) ==
  \/ \E i \in DOMAIN buffer : buffer[i].pkt.n = n
  \/ \E i \in DOMAIN ctlQueue : ctlQueue[i].kind = "packet_in" /\ ctlQueue[i].pkt.n = n
  \/ \E i \in DOMAIN swQueue : swQueue[i].kind = "packet_out" /\ swQueue[i].pkt.n = n

\* As long as no other application interferes, a packet that nobody has any
\* more left by the port of its destination: by the buffer or by a flow_mod with
\* the packet behind it, with a full table or a flow that expired before the
\* packet came back, and with hosts that are still to be learnt.
Delivered ==
  mods = 0 =>
    \A n \in DOMAIN arrivals :
      LET pkt == arrivals[n] IN
      pkt.dst \in Host /\ At[pkt.dst] # At[pkt.src] /\ ~InFlight(n)
        => <<n, At[pkt.dst]>> \in left
=============================================================================
