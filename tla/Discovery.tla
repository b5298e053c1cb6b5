----------------------------- MODULE Discovery ------------------------------
(***************************************************************************)
(* Discovery of links (pox/openflow/discovery.py).  LLDPSender has every   *)
(* port of every switch announced in turn by a packet that names it; where *)
(* such a packet comes in, there is a link, until none came for too long.  *)
(*                                                                         *)
(* Time is told apart as much as the timeout needs: a link was confirmed   *)
(* within the last period, or not.                                         *)
(***************************************************************************)
EXTENDS Integers, Sequences, FiniteSets, SequencesExt

CONSTANTS
  Switch,
  Wires,          \* a function from ports <<switch, number>> to ports
  MaxInFlight,    \* bounds: packets on their way,
  MaxChanges      \* and changes of ports and connections

Ports == DOMAIN Wires

VARIABLES
  connected,
  present,      \* the ports that the switches have
  thisCycle,    \* _this_cycle, _next_cycle: ports
  nextCycle,
  inFlight,     \* announcements that were sent, by the port they name
  adjacency,    \* links <<from, to>>
  fresh,        \* those that were confirmed within the last period
  changes

vars == <<connected, present, thisCycle, nextCycle, inFlight, adjacency, fresh, changes>>

Init ==
  /\ connected = {} /\ present = Ports
  /\ thisCycle = <<>> /\ nextCycle = <<>>
  /\ inFlight = {} /\ adjacency = {} /\ fresh = {}
  /\ changes = 0

Changes == changes < MaxChanges /\ changes' = changes + 1

-----------------------------------------------------------------------------
(* LLDPSender                                                               *)

Without(list, ports) == SelectSeq(list, LAMBDA p : p \notin ports)

\* add_port, for each of some ports: del_port, then in front.
Added(list, ports) == SetToSeq(ports) \o Without(list, ports)

\* The switch sends what it is told to, and the packets that are on their way
\* at a time are bounded.
Announce(ports) ==
  \E sent \in SUBSET ports :
    /\ inFlight' = inFlight \cup sent
    /\ Cardinality(inFlight') <= MaxInFlight

AddPorts(ports) ==
  /\ thisCycle' = Without(thisCycle, ports)
  /\ nextCycle' = Added(nextCycle, ports)
  /\ Announce(ports)

\* _timer_handler, one packet.
SendNext ==
  /\ thisCycle \o nextCycle # <<>>
  /\ LET list == IF thisCycle = <<>> THEN nextCycle ELSE thisCycle
         after == IF thisCycle = <<>> THEN <<>> ELSE nextCycle
     IN /\ thisCycle' = Tail(list)
        /\ nextCycle' = Append(after, Head(list))
        /\ Announce({Head(list)})
  /\ UNCHANGED <<connected, present, adjacency, fresh, changes>>

PortsOf(s) == {p \in present : p[1] = s}

\* A switch connects, or connects once more before its connection is lost.
ConnectionUp ==
  /\ Changes
  /\ \E s \in Switch :
       LET own == {p \in Ports : p[1] = s} IN
       /\ connected' = connected \cup {s}
       /\ thisCycle' = Without(thisCycle, own)
       /\ nextCycle' = Added(Without(nextCycle, own), PortsOf(s))
       /\ Announce(PortsOf(s))
  /\ UNCHANGED <<present, adjacency, fresh>>

\* PortStatus: added or deleted, or modified while it is not down.
PortAdded ==
  /\ Changes
  /\ \E p \in Ports \ present :
       /\ present' = present \cup {p}
       /\ IF p[1] \in connected THEN AddPorts({p})
          ELSE UNCHANGED <<thisCycle, nextCycle, inFlight>>
  /\ UNCHANGED <<connected, adjacency, fresh>>
PortDeleted ==
  /\ Changes
  /\ \E p \in present :
       /\ present' = present \ {p}
       /\ thisCycle' = Without(thisCycle, {p})
       /\ nextCycle' = Without(nextCycle, {p})
  /\ UNCHANGED <<connected, inFlight, adjacency, fresh>>
PortModified ==
  /\ Changes
  /\ \E p \in present : p[1] \in connected /\ AddPorts({p})
  /\ UNCHANGED <<connected, present, adjacency, fresh>>

-----------------------------------------------------------------------------
(* Discovery                                                                *)

\* _delete_links
Delete(links) ==
  /\ adjacency' = adjacency \ links
  /\ fresh' = fresh \ links

LinksOf(s) == {l \in adjacency : s \in {l[1][1], l[2][1]}}
ConnectionDown ==
  /\ Changes
  /\ \E s \in connected :
       LET own == {p \in Ports : p[1] = s} IN
       /\ connected' = connected \ {s}
       /\ thisCycle' = Without(thisCycle, own)
       /\ nextCycle' = Without(nextCycle, own)
       /\ Delete(LinksOf(s))
  /\ UNCHANGED <<present, inFlight>>

Known(p) == p[1] \in connected

\* _handle_PacketIn: an announcement comes out of the wire.
PacketIn ==
  /\ \E p \in inFlight :
       LET link == <<p, Wires[p]>> IN
       /\ inFlight' = inFlight \ {p}
       /\ Wires[p] \in present /\ Wires[p][1] \in connected
       /\ IF Known(p) /\ p # Wires[p]
          THEN adjacency' = adjacency \cup {link} /\ fresh' = fresh \cup {link}
          ELSE UNCHANGED <<adjacency, fresh>>
  /\ UNCHANGED <<connected, present, thisCycle, nextCycle, changes>>

Lost ==
  /\ \E p \in inFlight : inFlight' = inFlight \ {p}
  /\ UNCHANGED <<connected, present, thisCycle, nextCycle, adjacency, fresh, changes>>

PeriodEnds ==
  /\ fresh # {} /\ fresh' = {}
  /\ UNCHANGED <<connected, present, thisCycle, nextCycle, inFlight, adjacency, changes>>

\* _expire_links
ExpireLinks ==
  /\ adjacency # fresh
  /\ Delete(adjacency \ fresh)
  /\ UNCHANGED <<connected, present, thisCycle, nextCycle, inFlight, changes>>

Next ==
  \/ SendNext \/ ConnectionUp \/ PortAdded \/ PortDeleted \/ PortModified
  \/ ConnectionDown \/ PacketIn \/ Lost \/ PeriodEnds \/ ExpireLinks

Spec == Init /\ [][Next]_vars

-----------------------------------------------------------------------------
\* A link is one of two switches that are connected: an announcement that comes
\* in after its sender's connection was lost does not bring the link back.
LinksOfConnected == \A l \in adjacency : {l[1][1], l[2][1]} \subseteq connected

\* Every port of a connected switch has one turn in a cycle, whatever comes and
\* goes in the middle of it: a port that is missing has its links expire, and
\* one that is there twice takes the time of the others.
OneTurnEach ==
  LET cycle == thisCycle \o nextCycle IN
  /\ IsInjective(cycle)
  /\ Range(cycle) = {p \in present : p[1] \in connected}
=============================================================================
