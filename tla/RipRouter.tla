------------------------------ MODULE RipRouter -----------------------------
(***************************************************************************)
(* A switch as a RIP router (pox/proto/rip/rip_core.py and ovs_rip.py):    *)
(* the routes that the controller learns, how they age, what it announces, *)
(* and the copy of them in the tables of the switch.                       *)
(*                                                                         *)
(* Prefixes are networks of the router's own ports, the addresses of its   *)
(* neighbors, and networks behind them.  A response carries one of the     *)
(* latter.  What is sent to the switch arrives as long as it is connected. *)
(***************************************************************************)
EXTENDS Integers, FiniteSets

CONSTANTS
  Neighbor, PortOf,   \* who announces routes, and behind which port of the switch
  Remote,             \* prefixes that they announce
  Own,                \* _port_cache: the prefix of each configured port
  MaxSteps            \* bound: responses, connections, ports that come or go

VARIABLES
  table,              \* of each prefix, its Entry
  triggered_pending, _deferred,   \* _deferred_sync_table_pending
  conn,               \* the connection's ports, or None
  present,            \* the ports that the switch has
  _ports, _prev,
  routes,             \* RIP_NET_TABLE and RIP_PORT_TABLE in the switch
  announced,          \* what went out last: [port, ip, metric, origin], with the neighbor
                      \* that a route came from
  steps

switchVars == <<conn, present, _ports, _prev, routes>>
vars == <<table, triggered_pending, _deferred, switchVars, announced, steps>>

INFINITY == 16
Metric == {1, 2, INFINITY}
None == "none"
ConfiguredPort == DOMAIN Own
Prefix == Neighbor \cup Remote \cup {Own[p] : p \in ConfiguredPort}
NoEntry == [metric |-> 0, next_hop |-> "nobody", dev |-> 0, static |-> FALSE, changed |-> FALSE,
            timer |-> None, stale |-> FALSE]
Known == {p \in Prefix : table[p] # NoEntry}
NoRoutes == [net |-> {}, port |-> {}]

-----------------------------------------------------------------------------
(* Entries                                                                 *)

TimerFor(metric) == IF metric >= INFINITY THEN "garbage" ELSE "timeout"

Entry(metric, hop, dev, static) ==
  [metric |-> metric, next_hop |-> hop, dev |-> dev, static |-> static, changed |-> TRUE,
   timer |-> IF static THEN None ELSE TimerFor(metric), stale |-> FALSE]
Learned(metric, hop) == Entry(IF metric + 1 > INFINITY THEN INFINITY ELSE metric + 1, hop, 0, FALSE)

SameRoute(e, f) == \A a \in {"static", "dev", "metric", "next_hop"} : e[a] = f[a]

Refreshed(e) ==
  IF e.static \/ e.metric >= INFINITY THEN e ELSE [e EXCEPT !.timer = "timeout", !.stale = FALSE]

\* process_entry: the entry that is kept, and whether an update is triggered.
Kept(old, new) ==
  IF old = NoEntry
  THEN IF new.metric < INFINITY THEN <<new, TRUE>> ELSE <<old, FALSE>>
  ELSE IF SameRoute(old, new) THEN <<Refreshed(old), FALSE>>
  ELSE IF new.metric < old.metric THEN <<new, TRUE>>
  ELSE IF new.next_hop = old.next_hop
  THEN IF new.metric < INFINITY \/ old.metric < INFINITY THEN <<new, TRUE>> ELSE <<old, FALSE>>
  ELSE IF new.metric < INFINITY /\ new.metric = old.metric /\ old.stale /\ ~old.static
  THEN <<new, TRUE>> ELSE <<old, FALSE>>

Init ==
  /\ \E static \in SUBSET Remote, hop \in Neighbor :
       table = [p \in Prefix |-> IF p \in static THEN Entry(2, hop, 0, TRUE) ELSE NoEntry]
  /\ triggered_pending = FALSE /\ _deferred = 0
  /\ conn = {} /\ present = ConfiguredPort /\ _ports = {} /\ _prev = NoRoutes
  /\ routes = NoRoutes /\ announced = {} /\ steps = 0

-----------------------------------------------------------------------------
(* The tables of the switch                                                *)

Connected == conn # {}   \* it has its local port, 0, at least
Usable(entries) == {p \in Prefix : entries[p] # NoEntry /\ entries[p].metric < INFINITY}

\* sync_table, what it computes: of a prefix, the next hop, and the port.
Current(entries, ports) ==
  [net |-> {[ip |-> p, hop |-> IF entries[p].dev # 0 THEN p ELSE entries[p].next_hop] :
              p \in Usable(entries)},
   port |-> {[ip |-> p, port |-> entries[p].dev] :
              p \in {q \in Usable(entries) : entries[q].dev \in ports \cup {0}}}]

\* An empty _prev is the None of the code: it is compared to routes that are not.
sync_table(entries, prev, inSwitch) ==
  LET cur == Current(entries, conn)
  IN IF ~Connected \/ (prev # NoRoutes /\ cur = prev)
     THEN _prev' = prev /\ routes' = inSwitch
     ELSE _prev' = cur /\ routes' = cur

-----------------------------------------------------------------------------
(* What neighbors say, and time                                            *)

Busy == steps < MaxSteps /\ steps' = steps + 1

\* _do_rip, process_response: first what it says, then who said it.
process_response ==
  /\ Busy /\ Connected
  /\ \E n \in Neighbor, ip \in Remote, metric \in Metric :
       /\ PortOf[n] \in conn
       /\ LET said == Kept(table[ip], Learned(metric, n))
              direct == Kept(table[n], Entry(1, n, PortOf[n], FALSE))
              entries == [table EXCEPT ![ip] = said[1], ![n] = direct[1]]
          IN /\ table' = entries
             /\ triggered_pending' = (triggered_pending \/ said[2] \/ direct[2])
             /\ sync_table(entries, _prev, routes)
  /\ UNCHANGED <<_deferred, conn, present, _ports, announced>>

\* Half of the time until the timeout is over.
GetsStale ==
  /\ \E p \in Known : table[p].timer = "timeout" /\ ~table[p].stale /\ table' = [table EXCEPT ![p].stale = TRUE]
  /\ UNCHANGED <<triggered_pending, _deferred, switchVars, announced, steps>>

\* Every response of a neighbor sets its own timer after those of the routes over it.
HeardLater(p) == {q \in Known : p \in Neighbor /\ q # p /\ table[q].next_hop = p /\ table[q].timer = "timeout"}

_handle_timeout ==
  /\ \E p \in Known :
       /\ table[p].timer = "timeout" /\ table[p].stale /\ HeardLater(p) = {}
       /\ table' = [table EXCEPT ![p].metric = INFINITY, ![p].changed = TRUE, ![p].timer = "garbage"]
  /\ triggered_pending' = TRUE
  /\ UNCHANGED <<_deferred, switchVars, announced, steps>>

_handle_garbage ==
  /\ \E p \in Known : table[p].timer = "garbage" /\ table' = [table EXCEPT ![p] = NoEntry]
  /\ UNCHANGED <<triggered_pending, _deferred, switchVars, announced, steps>>

-----------------------------------------------------------------------------
(* What the router says                                                    *)

\* _get_port_ip_map: the neighbors of a port.
DirectAt(port) == {n \in Neighbor \cap Known : table[n].dev = port}

FromThere(e, dests) == e.next_hop \in dests

get_responses(port, force) ==
  LET dests == DirectAt(port)
      news == {p \in Known : table[p].changed \/ force}
      echoed == {p \in news : FromThere(table[p], dests)}
      said(p, m, hop) == [port |-> port, ip |-> p, metric |-> m, origin |-> hop]
  IN {said(p, table[p].metric, IF table[p].static THEN None ELSE table[p].next_hop) :
        p \in news \ echoed} \cup
     (IF Cardinality(dests) = 1 THEN {said(p, INFINITY, None) : p \in echoed} ELSE {})

send_updates(force) ==
  IF Connected
  THEN /\ announced' = UNION {get_responses(p, force) : p \in {q \in _ports \cap conn : DirectAt(q) # {}}}
       /\ table' = [p \in Prefix |-> [table[p] EXCEPT !.changed = FALSE]]
  ELSE UNCHANGED <<announced, table>>

_on_send ==
  /\ send_updates(TRUE)
  /\ UNCHANGED <<triggered_pending, _deferred, switchVars, steps>>

_on_triggered_update ==
  /\ triggered_pending /\ triggered_pending' = FALSE
  /\ sync_table(table, _prev, routes)
  /\ send_updates(FALSE)
  /\ UNCHANGED <<_deferred, conn, present, _ports, steps>>

do_it ==
  /\ _deferred > 0 /\ _deferred' = 0
  /\ sync_table(table, _prev, routes)
  /\ UNCHANGED <<table, triggered_pending, conn, present, _ports, announced, steps>>

-----------------------------------------------------------------------------
(* The switch connects, and its ports come and go                          *)

\* Mutant: what was sent before is still taken as sent.
StillSent(prev) == prev
_invalidate(prev) == NoRoutes

\* _refresh_ports, with the ports that the connection now has.
_refresh_ports(ports) ==
  LET configured == ConfiguredPort \cap ports
  IN /\ _ports' = configured
     /\ table' = [p \in Prefix |->
          IF \E q \in configured : Own[q] = p
          THEN Entry(0, "nobody", CHOOSE q \in configured : Own[q] = p, TRUE) ELSE table[p]]
     /\ _deferred' = _deferred + Cardinality(configured)
     /\ _prev' = _invalidate(_prev)

\* _init_tables clears what the switch has.
_handle_openflow_ConnectionUp ==
  /\ Busy /\ ~Connected
  /\ conn' = present \cup {0}
  /\ routes' = NoRoutes
  /\ _refresh_ports(conn')
  /\ UNCHANGED <<triggered_pending, present, announced>>

_handle_openflow_PortStatus ==
  /\ Busy /\ Connected
  /\ \E p \in ConfiguredPort : present' = IF p \in present THEN present \ {p} ELSE present \cup {p}
  /\ conn' = present' \cup {0}
  /\ _refresh_ports(conn')
  /\ UNCHANGED <<triggered_pending, routes, announced>>

Disconnects ==
  /\ Connected /\ conn' = {}
  /\ UNCHANGED <<table, triggered_pending, _deferred, present, _ports, _prev, routes, announced, steps>>

Next ==
  \/ process_response \/ GetsStale \/ _handle_timeout \/ _handle_garbage
  \/ _on_send \/ _on_triggered_update \/ do_it
  \/ _handle_openflow_ConnectionUp \/ _handle_openflow_PortStatus \/ Disconnects

Spec == Init /\ [][Next]_vars

-----------------------------------------------------------------------------
\* A connected switch with a configured port has, when no update is on its way, exactly
\* the routes that are in reach, whatever became of its connection, its ports and the
\* routes since it got them.
SwitchRoutes ==
  Connected /\ ConfiguredPort \cap conn # {} /\ ~triggered_pending /\ _deferred = 0 =>
    routes = Current(table, conn)

\* A route is not announced as in reach on the network that it was learned from, however
\* the routes and the neighbors there came and went.
NotEchoed ==
  \A a \in announced : a.metric < INFINITY /\ a.origin \in Neighbor => PortOf[a.origin] # a.port
=============================================================================
