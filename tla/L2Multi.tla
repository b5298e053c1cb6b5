------------------------------- MODULE L2Multi ------------------------------
(***************************************************************************)
(* POX's shortest-path forwarding (pox/forwarding/l2_multi.py) on top of   *)
(* discovery: the paths between all pairs of switches, their installation  *)
(* hop by hop with a barrier behind every flow, and the packet that waits  *)
(* until the whole path is there.                                          *)
(*                                                                         *)
(* A switch and the controller talk over a connection that keeps the order *)
(* and can be lost.  What discovery does is in the actions about links;    *)
(* flows do not time out here.                                             *)
(***************************************************************************)
EXTENDS Integers, Sequences, FiniteSets, SequencesExt

CONSTANTS
  Switch, Wires,   \* a wire is a set of two endpoints <<switch, port>>
  Initially,       \* the links that the first round of discovery found
  Home,            \* of each host, the endpoints where it can be
  MaxPackets,      \* bound: packets that no flow matches
  MaxChanges       \* bound: links and connections that come or go

VARIABLES
  links,           \* core.openflow_discovery.adjacency
  connected, adjacency, path_map, mac_map, waiting_paths,
  toSw, toCtl, table,
  packets, changes,
  made,            \* how many paths were installed
  released         \* the paths that are complete, since the links changed last

vars == <<links, connected, adjacency, path_map, mac_map, waiting_paths, toSw, toCtl, table,
          packets, changes, made, released>>

Host == DOMAIN Home
NoPort == 0
Nowhere == <<0, 0>>
Directed == {l \in (UNION Wires) \X (UNION Wires) : {l[1], l[2]} \in Wires}
flip(link) == <<link[2], link[1]>>
Ends(link) == <<link[1][1], link[2][1]>>
BothWays(known) == {l \in known : flip(l) \in known}

\* The first round of discovery is over.
Init ==
  /\ links = Initially /\ connected = Switch
  /\ adjacency = [p \in Switch \X Switch |->
       IF \E l \in BothWays(Initially) : Ends(l) = p
       THEN (CHOOSE l \in BothWays(Initially) : Ends(l) = p)[1][2] ELSE NoPort]
  /\ path_map = <<>> /\ mac_map = [h \in Host |-> Nowhere] /\ waiting_paths = {}
  /\ toSw = [s \in Switch |-> <<>>] /\ toCtl = [s \in Switch |-> <<>>]
  /\ table = [s \in Switch |-> {}]
  /\ packets = 0 /\ changes = 0 /\ made = 0 /\ released = {}

-----------------------------------------------------------------------------
(* Paths                                                                   *)

Unknown == [dist |-> 1000, via |-> 0]
Direct == [p \in Switch \X Switch |->
             IF p[1] = p[2] THEN [dist |-> 0, via |-> 0]
             ELSE IF adjacency[p] # NoPort THEN [dist |-> 1, via |-> 0] ELSE Unknown]

Shorter(around, dist) == around < dist

\* The outermost of the three loops is over the switch on the way.
_calc_paths ==
  FoldLeft(LAMBDA paths, k : [p \in Switch \X Switch |->
             LET around == paths[p[1], k].dist + paths[k, p[2]].dist
             IN IF Shorter(around, paths[p].dist) THEN [dist |-> around, via |-> k] ELSE paths[p]],
           Direct, SetToSeq(Switch))
Paths == IF path_map = <<>> THEN _calc_paths ELSE path_map

_get_raw_path(paths) ==
  LET raw[d \in 0..Cardinality(Switch), p \in Switch \X Switch] ==
        IF d = 0 \/ paths[p].via = 0 THEN <<>>
        ELSE LET k == paths[p].via
             IN raw[d - 1, <<p[1], k>>] \o <<k>> \o raw[d - 1, <<k, p[2]>>]
  IN [p \in Switch \X Switch |-> raw[Cardinality(Switch), p]]

\* The switches of a path with the ports in and out; <<>> when there is none.
_get_path(paths, src, dst, first_port, final_port) ==
  LET hops == IF src = dst THEN <<src>> ELSE <<src>> \o _get_raw_path(paths)[src, dst] \o <<dst>>
      n == Len(hops)
  IN IF paths[src, dst].dist >= Unknown.dist THEN <<>>
     ELSE [i \in 1..n |->
            [sw |-> hops[i],
             in |-> IF i = 1 THEN first_port ELSE adjacency[hops[i], hops[i - 1]],
             out |-> IF i = n THEN final_port ELSE adjacency[hops[i], hops[i + 1]]]]

-----------------------------------------------------------------------------
(* Packets                                                                 *)

Says(to, s, msg) == [to EXCEPT ![s] = Append(@, msg)]
Flow(in, src, dst, out) == [kind |-> "mod", in |-> in, src |-> src, dst |-> dst, out |-> out]
Matches(f, in, src, dst) == f.in = in /\ f.src = src /\ f.dst = dst

\* A packet that no flow matches, at the port of its host, or of a wire when it was flooded.
Arrives ==
  /\ packets < MaxPackets /\ packets' = packets + 1
  /\ \E src, dst \in Host, s \in connected, in \in 1..9 :
       /\ src # dst
       /\ <<s, in>> \in Home[src] \/ (<<s, in>> \in UNION Wires /\ mac_map[src] # Nowhere)
       /\ \A f \in table[s] : ~Matches(f, in, src, dst)
       /\ toCtl' = Says(toCtl, s, [kind |-> "packet_in", in |-> in, src |-> src, dst |-> dst])
  /\ UNCHANGED <<links, connected, adjacency, path_map, mac_map, waiting_paths, toSw, table,
                 changes, made, released>>

\* is_edge_port, of discovery
IsEdge(place) == \A l \in links : place \notin {l[1], l[2]}

Learned(place, p) ==
  IF mac_map[p.src] = Nowhere \/ (mac_map[p.src] # place /\ IsEdge(place))
  THEN [mac_map EXCEPT ![p.src] = place] ELSE mac_map

\* _install_path: a flow and a barrier to every switch; one without a connection ends it.
Hops(path) == IF path = <<>> THEN 0
              ELSE CHOOSE n \in 0..Len(path) :
                     /\ \A i \in 1..n : path[i].sw \in connected
                     /\ n < Len(path) => path[n + 1].sw \notin connected
_install_path(to, path, src, dst, id) ==
  FoldLeft(LAMBDA now, hop : [now EXCEPT ![hop.sw] =
             @ \o <<Flow(hop.in, src, dst, hop.out), [kind |-> "barrier", id |-> id]>>],
           to, SubSeq(path, 1, Hops(path)))
Turned(path) == [i \in DOMAIN path |-> [path[i] EXCEPT !.in = path[i].out, !.out = path[i].in]]

WaitingPath(id, path, src, dst, packet) ==
  [id |-> id, since |-> changes, path |-> path, src |-> src, dst |-> dst, packet |-> packet,
   xids |-> {path[i].sw : i \in 1..Hops(path)}]

\* The path there, with the packet, and the path back.
install_path(s, p, known) ==
  LET path == _get_path(Paths, s, known[p.dst][1], p.in, known[p.dst][2])
      there == WaitingPath(<<made, "there">>, path, p.src, p.dst, TRUE)
      back == WaitingPath(<<made, "back">>, Turned(path), p.dst, p.src, FALSE)
  IN /\ toSw' = IF path = <<>> THEN Says(toSw, s, [kind |-> "unreachable"])
                ELSE _install_path(_install_path(toSw, path, p.src, p.dst, there.id),
                                   Turned(path), p.dst, p.src, back.id)
     /\ waiting_paths' = IF path = <<>> THEN waiting_paths ELSE waiting_paths \cup {there, back}
     /\ made' = IF path = <<>> THEN made ELSE made + 1
     /\ path_map' = IF s = known[p.dst][1] THEN path_map ELSE Paths

_handle_PacketIn(s) ==
  /\ toCtl[s] # <<>> /\ Head(toCtl[s]).kind = "packet_in"
  /\ LET p == Head(toCtl[s])
         known == Learned(<<s, p.in>>, p)
     IN /\ mac_map' = known
        /\ IF known[p.dst] = Nowhere
           THEN toSw' = Says(toSw, s, [kind |-> "flood"]) /\ UNCHANGED <<waiting_paths, path_map, made>>
           ELSE install_path(s, p, known)
  /\ toCtl' = [toCtl EXCEPT ![s] = Tail(@)]
  /\ UNCHANGED <<links, connected, adjacency, table, packets, changes, released>>

\* notify
AfterLast(rest) == rest = {}

_handle_openflow_BarrierIn(s) ==
  /\ toCtl[s] # <<>> /\ Head(toCtl[s]).kind = "barrier"
  /\ toCtl' = [toCtl EXCEPT ![s] = Tail(@)]
  /\ LET waiting == {w \in waiting_paths : w.id = Head(toCtl[s]).id /\ s \in w.xids}
     IN \/ waiting = {} /\ UNCHANGED <<waiting_paths, toSw, released>>
        \/ \E w \in waiting :
             LET rest == w.xids \ {s}
             IN /\ waiting_paths' = (waiting_paths \ {w}) \cup
                                    (IF rest = {} THEN {} ELSE {[w EXCEPT !.xids = rest]})
                /\ IF AfterLast(rest)
                   THEN /\ released' = released \cup (IF w.since = changes THEN {w} ELSE {})
                        /\ toSw' = IF w.packet /\ w.path[1].sw \in connected
                                   THEN Says(toSw, w.path[1].sw, [kind |-> "packet_out"]) ELSE toSw
                   ELSE UNCHANGED <<released, toSw>>
  /\ UNCHANGED <<links, connected, adjacency, path_map, mac_map, table, packets, changes, made>>

expire_waiting_paths ==
  /\ \E w \in waiting_paths : waiting_paths' = waiting_paths \ {w}
  /\ UNCHANGED <<links, connected, adjacency, path_map, mac_map, toSw, toCtl, table, packets,
                 changes, made, released>>

-----------------------------------------------------------------------------
(* The switches                                                            *)

SwitchTakes(s) ==
  /\ toSw[s] # <<>> /\ toSw' = [toSw EXCEPT ![s] = Tail(@)]
  /\ LET msg == Head(toSw[s])
     IN /\ table' = CASE msg.kind = "clear" -> [table EXCEPT ![s] = {}]
                      [] msg.kind = "mod" ->
                           [table EXCEPT ![s] = {f \in @ : ~Matches(f, msg.in, msg.src, msg.dst)} \cup {msg}]
                      [] OTHER -> table
        /\ toCtl' = IF msg.kind = "barrier" THEN Says(toCtl, s, msg) ELSE toCtl
  /\ UNCHANGED <<links, connected, adjacency, path_map, mac_map, waiting_paths, packets, changes, made,
                 released>>

-----------------------------------------------------------------------------
(* Links                                                                   *)

\* Mutant: only the switches of the link are cleared.
ToTheEnds(s, link) == s \in {link[1][1], link[2][1]}
ToAll(s, link) == TRUE

Cleared(st, link) ==
  [st EXCEPT !.toSw = [s \in Switch |-> IF s \in st.connected /\ ToAll(s, link)
                                         THEN Append(@[s], [kind |-> "clear"]) ELSE @[s]]]
Joined(known, link) ==
  [known EXCEPT ![Ends(link)] = link[1][2], ![Ends(flip(link))] = link[2][2]]

\* _handle_openflow_discovery_LinkEvent; what discovery knows is as before it removes links.
Added(st, link) ==
  LET now == Cleared(st, link)
  IN [now EXCEPT
       !.adjacency = IF @[Ends(link)] = NoPort /\ flip(link) \in links \cup {link}
                     THEN Joined(@, link) ELSE @,
       !.mac_map = [h \in Host |-> IF @[h] \in {link[1], link[2]} THEN Nowhere ELSE @[h]]]

Removed(st, link) ==
  LET now == Cleared(st, link)
      without == [now.adjacency EXCEPT ![Ends(link)] = NoPort, ![Ends(flip(link))] = NoPort]
      others == {l \in BothWays(links) : l # link /\ Ends(l) = Ends(link)}
  IN [now EXCEPT !.adjacency = IF others = {} THEN without
                               ELSE Joined(without, CHOOSE l \in others : TRUE)]

Takes(st) ==
  /\ adjacency' = st.adjacency /\ mac_map' = st.mac_map /\ toSw' = st.toSw
  /\ path_map' = <<>> /\ changes' = changes + 1 /\ released' = {}
  /\ UNCHANGED <<waiting_paths, packets, made>>
Now(to) == [adjacency |-> adjacency, mac_map |-> mac_map, toSw |-> to, connected |-> connected]

LinkUp ==
  /\ changes < MaxChanges
  /\ \E l \in Directed \ links :
       /\ l[1][1] \in connected /\ l[2][1] \in connected
       /\ links' = links \cup {l}
       /\ Takes(Added(Now(toSw), l))
  /\ UNCHANGED <<connected, toCtl, table>>

\* A wire is cut, or one direction of it is not heard of any more.
LinkDown ==
  /\ changes < MaxChanges
  /\ \E gone \in {{l} : l \in links} \cup {{l, flip(l)} : l \in BothWays(links)} :
       /\ links' = links \ gone
       /\ Takes(FoldLeft(Removed, Now(toSw), SetToSeq(gone)))
  /\ UNCHANGED <<connected, toCtl, table>>

\* Discovery forgets the links of the switch.
ConnectionDown(s) ==
  /\ changes < MaxChanges /\ s \in connected
  /\ connected' = connected \ {s}
  /\ LET gone == {l \in links : s \in {l[1][1], l[2][1]}}
     IN /\ links' = links \ gone
        /\ Takes(FoldLeft(Removed, [Now([toSw EXCEPT ![s] = <<>>]) EXCEPT !.connected = connected'],
                          SetToSeq(gone)))
  /\ toCtl' = [toCtl EXCEPT ![s] = <<>>]
  /\ UNCHANGED table

\* The nexus clears the flows of a switch that connects.
_handle_openflow_ConnectionUp(s) ==
  /\ s \notin connected /\ connected' = connected \cup {s}
  /\ toSw' = Says(toSw, s, [kind |-> "clear"])
  /\ UNCHANGED <<links, adjacency, path_map, mac_map, waiting_paths, toCtl, table, packets,
                 changes, made, released>>

Next ==
  \/ Arrives \/ expire_waiting_paths \/ LinkUp \/ LinkDown
  \/ \E s \in Switch :
       \/ _handle_PacketIn(s) \/ _handle_openflow_BarrierIn(s) \/ SwitchTakes(s)
       \/ ConnectionDown(s) \/ _handle_openflow_ConnectionUp(s)

Spec == Init /\ [][Next]_vars

-----------------------------------------------------------------------------
\* Whatever links are known, the path between two switches is one over them, from end to
\* end, and there is none with fewer hops.
Within(n) ==
  LET within[k \in 0..n] ==
        IF k = 0 THEN {<<s, s>> : s \in Switch}
        ELSE {p \in Switch \X Switch :
                \E t \in Switch : <<p[1], t>> \in within[k - 1] /\ (t = p[2] \/ adjacency[t, p[2]] # NoPort)}
  IN within

PathsShortest ==
  path_map # <<>> => \A src, dst \in Switch :
    LET path == _get_path(path_map, src, dst, 9, 9)
        near == Within(Cardinality(Switch))
    IN IF path = <<>> THEN <<src, dst>> \notin near[Cardinality(Switch)]
       ELSE /\ path[1].sw = src /\ path[Len(path)].sw = dst
            /\ \A i \in 1..Len(path) - 1 : \E l \in BothWays(links) :
                 l = <<<<path[i].sw, path[i].out>>, <<path[i + 1].sw, path[i + 1].in>>>>
            /\ Len(path) > 1 => <<src, dst>> \notin near[Len(path) - 2]

\* When nothing is on its way, a flow at a host's port begins a chain of flows that ends
\* at a host's port, in whatever order the links changed and the packets came in.
Quiet == \A s \in connected : toSw[s] = <<>> /\ toCtl[s] = <<>>
Peer(end) == CHOOSE e \in UNION Wires : e # end /\ {e, end} \in Wires
Leads(f, at) ==
  LET leads[d \in 0..Cardinality(Switch), s \in Switch, in \in 1..9] ==
        \E g \in table[s] :
          /\ s \in connected /\ Matches(g, in, f.src, f.dst)
          /\ \/ <<s, g.out>> \in Home[f.dst]
             \/ /\ d > 0 /\ <<s, g.out>> \in UNION Wires
                /\ leads[d - 1, Peer(<<s, g.out>>)[1], Peer(<<s, g.out>>)[2]]
  IN leads[Cardinality(Switch), at, f.in]

FlowsLeadHome ==
  Quiet => \A s \in connected : \A f \in table[s] : <<s, f.in>> \in Home[f.src] => Leads(f, s)

\* A packet is sent on, and PathInstalled raised, when every switch of the path has the
\* flow for it, unless the links changed after that.
PathReady ==
  \A w \in released : \A i \in DOMAIN w.path :
    \E f \in table[w.path[i].sw] : Matches(f, w.path[i].in, w.src, w.dst)
=============================================================================
