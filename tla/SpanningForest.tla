--------------------------- MODULE SpanningForest ---------------------------
(***************************************************************************)
(* The spanning forest (pox/openflow/spanning_forest.py): which ports may  *)
(* flood, such that packets do not go round.  Links are not forgotten;     *)
(* those that are alive in both directions make the forest, and ports of   *)
(* the others do not flood.  A port that is new waits first.               *)
(*                                                                         *)
(* Of time, a port's wait is told apart: longer than the timer's second    *)
(* (send_cycle_time / 4, 1.25 s), so a tick of the timer sees it.          *)
(* Port.up and never_block are left out: nothing reads the one, nothing    *)
(* sets the other.                                                         *)
(***************************************************************************)
EXTENDS Integers, Sequences, FiniteSets, SequencesExt

CONSTANTS
  Switch,
  Links,        \* wires as uni has them, <<dpid1, port1, dpid2, port2>>, sorted
  MaxChanges    \* bound: ports and links that change, connections that end

VARIABLES
  connected,
  there,              \* con.ports: ports <<dpid, number>>
  ports,              \* Switch.ports, of each port: Unknown, or how it waits
  adjacency, seen,    \* directed links that discovery has, links of Topo
  alive,              \* directed links with a time stamp in LinkData
  _prev,              \* the links of the forest, in the order they were taken
  _port_out_cache,    \* of each switch
  toSw, config,       \* what is on its way to the switches, and what they do
  hurried,            \* switches that were back before the timer saw them gone
  changes

vars == <<connected, there, ports, adjacency, seen, alive, _prev, _port_out_cache, toSw, config,
          hurried, changes>>

Wires == Range(Links)
Ends(l) == {<<l[1], l[2]>>, <<l[3], l[4]>>}
Ports == UNION {Ends(l) : l \in Wires}
PortsOf(s) == {p \in Ports : p[1] = s}
Flipped(l) == <<l[3], l[4], l[1], l[2]>>
Uni(l) == IF l \in Wires THEN l ELSE Flipped(l)
Directed == Wires \cup {Flipped(l) : l \in Wires}

Unknown == "unknown"
Waiting == {"new", "waiting"}   \* and whether the timer has seen it
Flood == "flood"
NoFlood == "no flood"
NoForward == "no flood, no forward"   \* of a port that waits

Changes == changes < MaxChanges /\ changes' = changes + 1

-----------------------------------------------------------------------------
(* The forest                                                               *)

Up(l, stamps) == {l, Flipped(l)} \subseteq stamps

\* What the ends of a link reach together.
Together(reachable, l) == reachable[l[1]] \cup reachable[l[3]]

Apart == [reachable |-> [s \in Switch |-> {s}], used |-> <<>>]

\* add_links, of one
AddLink(found, l) ==
  IF l[3] \in found.reachable[l[1]] \/ l[1] \in found.reachable[l[3]] THEN found
  ELSE LET all == Together(found.reachable, l) IN
       [reachable |-> [s \in Switch |-> IF s \in all THEN all ELSE found.reachable[s]],
        used |-> Append(found.used, l)]

\* Mutant: links of the last time that are down stay.
All(stamps) == _prev
\* The links of the last time that are still up.
Reused(stamps) == SelectSeq(_prev, LAMBDA l : Up(l, stamps))

\* _compute_stable: those of the last time first, then the others as they sort.
_compute_simple(known, stamps) ==
  LET kept == Reused(stamps)
      rest == SelectSeq(Links, LAMBDA l : /\ l \in known /\ Up(l, stamps)
                                          /\ l \notin Range(kept))
  IN FoldLeft(AddLink, Apart, kept \o rest).used

-----------------------------------------------------------------------------
(* What the ports are told                                                  *)

\* _sync_port_data, after which a port that was not known is new
Synced(p, up, has, old) ==
  IF p[1] \notin up \/ p \notin has THEN Unknown
  ELSE IF old = Unknown THEN "new" ELSE old

\* _compute of a switch, with its ports
PortOut(s, has, now, known, tree) ==
  [p \in PortsOf(s) \cap has |->
     IF now[p] \in Waiting THEN NoForward
     ELSE IF \E l \in known \ tree : p \in Ends(l) THEN NoFlood
     ELSE Flood]

\* _realize, of the switches that are connected
Realize(up, has, now, known, tree, queues) ==
  LET out(s) == PortOut(s, has, now, known, tree)
      new == {s \in up : out(s) # _port_out_cache[s]}
  IN /\ _port_out_cache' = [s \in Switch |-> IF s \in new THEN out(s) ELSE _port_out_cache[s]]
     /\ toSw' = [s \in Switch |-> IF s \in new THEN Append(queues[s], out(s)) ELSE queues[s]]

\* _compute of the forest, and then of each switch, which looks up its ports.
\* A switch that is gone keeps those it had.
Compute(up, has, old, known, stamps, queues) ==
  LET used == _compute_simple(known, stamps)
      now == [p \in Ports |-> IF p[1] \in up THEN Synced(p, up, has, old[p]) ELSE old[p]]
  IN /\ _prev' = used /\ ports' = now
     /\ Realize(up, has, now, known, Range(used), queues)

\* A tick of the timer: all look up their ports, gone or not.
_handle_timer ==
  LET now == [p \in Ports |-> Synced(p, connected, there, ports[p])]
  IN /\ Realize(connected, there, now, seen, Range(_prev), toSw)
     /\ ports' = [p \in Ports |-> IF now[p] = "new" THEN "waiting" ELSE now[p]]
     /\ UNCHANGED <<connected, there, adjacency, seen, alive, _prev, config, hurried, changes>>

\* reset_wait was long enough ago.
WaitEnds ==
  /\ \E p \in Ports : ports[p] = "waiting" /\ ports' = [ports EXCEPT ![p] = "ready"]
  /\ UNCHANGED <<connected, there, adjacency, seen, alive, _prev, _port_out_cache, toSw, config,
                 hurried, changes>>

\* All links were found, and the switches have done what they were told.
Init ==
  /\ connected = Switch /\ there = Ports
  /\ ports = [p \in Ports |-> "ready"]
  /\ adjacency = Directed /\ alive = Directed /\ seen = Wires
  /\ _prev = FoldLeft(AddLink, Apart, Links).used
  /\ config = [p \in Ports |-> IF \E l \in Wires \ Range(_prev) : p \in Ends(l) THEN NoFlood
                               ELSE Flood]
  /\ _port_out_cache = [s \in Switch |-> [p \in PortsOf(s) |-> config[p]]]
  /\ toSw = [s \in Switch |-> <<>>]
  /\ hurried = {}
  /\ changes = 0

-----------------------------------------------------------------------------
(* Events                                                                   *)

\* A switch may have restarted meanwhile, and then its ports flood.
ConnectionUp(s) ==
  /\ s \notin connected /\ connected' = connected \cup {s}
  /\ hurried' = IF \E p \in PortsOf(s) : ports[p] # Unknown THEN hurried \cup {s} ELSE hurried \ {s}
  /\ \E restarted \in BOOLEAN :
       config' = [p \in Ports |-> IF p[1] = s /\ restarted THEN Flood ELSE config[p]]
  /\ Compute(connected', there, ports, seen, alive, toSw)
  /\ UNCHANGED <<there, adjacency, seen, alive, changes>>

\* What was on its way is lost.
ConnectionDown(s) ==
  /\ Changes /\ s \in connected /\ connected' = connected \ {s}
  /\ Compute(connected', there, ports, seen, alive, [toSw EXCEPT ![s] = <<>>])
  /\ UNCHANGED <<there, adjacency, seen, alive, config, hurried>>

\* LinkEvent, for discovery finds a link or gives it up.
LinkAdded(d) ==
  /\ d \notin adjacency /\ {d[1], d[3]} \subseteq connected /\ Ends(d) \subseteq there
  /\ adjacency' = adjacency \cup {d} /\ alive' = alive \cup {d}
  /\ seen' = seen \cup {Uni(d)}
  /\ Compute(connected, there, ports, seen', alive', toSw)
  /\ UNCHANGED <<connected, there, config, hurried, changes>>

LinkRemoved(d) ==
  /\ Changes /\ d \in adjacency
  /\ adjacency' = adjacency \ {d} /\ alive' = alive \ {d}
  /\ IF d \in alive THEN Compute(connected, there, ports, seen, alive', toSw)
     ELSE UNCHANGED <<ports, _prev, _port_out_cache, toSw>>
  /\ UNCHANGED <<connected, there, seen, config, hurried>>

\* mark_dead, of the link that is known at a port which is down
Stamps(p, down) ==
  {d \in alive : ~(down /\ p \in Ends(d))}

\* Switch._handle_PortStatus: a port that is not deleted waits, again.
Told(p, deleted) == [ports EXCEPT ![p] = IF deleted THEN @ ELSE "new"]

\* PortStatus, of a port that is there: it is deleted, or goes up or down; or
\* of one that is added, which floods.
PortStatus(p) ==
  \E deleted, down \in BOOLEAN :
    /\ Changes /\ p[1] \in connected
    /\ deleted => p \in there
    /\ there' = IF deleted THEN there \ {p} ELSE there \cup {p}
    /\ config' = IF p \in there THEN config ELSE [config EXCEPT ![p] = Flood]
    /\ alive' = Stamps(p, down)
    /\ LET told == Told(p, deleted)
       IN IF alive' # alive THEN Compute(connected, there', told, seen, alive', toSw)
          ELSE ports' = told /\ UNCHANGED <<_prev, _port_out_cache, toSw>>
    /\ UNCHANGED <<connected, adjacency, seen, hurried>>

\* A switch does what it was told, for the ports it has.
SwitchTakes(s) ==
  /\ toSw[s] # <<>>
  /\ config' = [p \in Ports |-> IF p \in DOMAIN Head(toSw[s]) \cap there THEN Head(toSw[s])[p]
                                ELSE config[p]]
  /\ toSw' = [toSw EXCEPT ![s] = Tail(@)]
  /\ UNCHANGED <<connected, there, ports, adjacency, seen, alive, _prev, _port_out_cache, hurried,
                 changes>>

Next ==
  \/ \E s \in Switch : ConnectionUp(s) \/ ConnectionDown(s) \/ SwitchTakes(s)
  \/ \E d \in Directed : LinkAdded(d) \/ LinkRemoved(d)
  \/ \E p \in Ports : PortStatus(p)
  \/ _handle_timer \/ WaitEnds

-----------------------------------------------------------------------------
Tree == Range(_prev)
Crosses(l, cut) == Cardinality({l[1], l[3]} \cap cut) = 1

\* The forest reaches what the links that are up reach, and has no link too
\* many: each joins parts that nothing else of it joins.
IsForest ==
  LET up == {l \in seen : Up(l, alive)}
  IN /\ Tree \subseteq up
     /\ \A cut \in SUBSET Switch :
          (\E l \in up : Crosses(l, cut)) => \E l \in Tree : Crosses(l, cut)
     /\ \A l \in Tree : \E cut \in SUBSET Switch :
          Crosses(l, cut) /\ \A other \in Tree \ {l} : ~Crosses(other, cut)

\* The switch has done what it was told last, for a port whose wait is over.
Settled(p) ==
  /\ p[1] \in connected \ hurried /\ toSw[p[1]] = <<>>
  /\ p \in there /\ ports[p] \notin {Unknown, "new"}
  /\ p \in DOMAIN _port_out_cache[p[1]] /\ _port_out_cache[p[1]][p] # NoForward

\* The links that switches flood to are a forest as large as the links allow
\* (_compute_simple), and what the switches do is what the forest says
\* (Switch._compute, _realize), after any order of events, when they were not
\* back before a tick of the timer saw them gone (spanning_forest.py:101).
FloodsTheForest ==
  /\ IsForest
  /\ \A p \in Ports : Settled(p) =>
       config[p] = IF \E l \in seen \ Tree : p \in Ends(l) THEN NoFlood ELSE Flood
=============================================================================
