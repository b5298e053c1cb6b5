---------------------------- MODULE SpanningTree ----------------------------
(***************************************************************************)
(* The spanning tree component of POX (pox/openflow/spanning_tree.py) on   *)
(* the links that discovery knows.  It keeps frames that are flooded from  *)
(* running in circles by a bit NO_FLOOD at each port that is not on the    *)
(* tree; a port that leads to no switch always floods.                     *)
(*                                                                         *)
(* A wire joins two ports; discovery knows a wire as up to two links, one  *)
(* for each direction.  Which of several wires between two switches is     *)
(* used depends on the order of a dictionary: any.  What the controller    *)
(* sends a switch has arrived when the next event is handled; the requests *)
(* for its features that follow are left out.                              *)
(***************************************************************************)
EXTENDS Integers, Sequences, FiniteSets, SequencesExt

CONSTANTS
  Dpid,     \* a set of numbers
  Setting   \* records of wires, noflood_by_default and hold_down, where a wire
            \* is a set of two ports <<dpid, port number>> of two switches

VARIABLES
  setting,
  connected,   \* switches with a connection
  young,       \* those connected for less than a discovery cycle
  adjacency,   \* the links of discovery
  prev,        \* _prev: what each port was last told, or "none"
  flood        \* the ports that flood

vars == <<setting, connected, young, adjacency, prev, flood>>

Port == UNION setting.wires
Link == {l \in Port \X Port : {l[1], l[2]} \in setting.wires}
flip(l) == <<l[2], l[1]>>
Ends(w) == {p[1] : p \in w}

Init ==
  /\ setting \in Setting
  /\ connected = {} /\ young = {} /\ adjacency = {}
  /\ prev = [p \in Port |-> "none"]
  /\ flood = Port

-----------------------------------------------------------------------------
(* _calc_spanning_tree                                                      *)

\* The switches of links.
On(links) == {l[1][1] : l \in links} \cup {l[2][1] : l \in links}
PortsOf(links) == {l[1] : l \in links} \cup {l[2] : l \in links}

\* Of the links that are there in both directions, one for each pair of switches.
Good(links) == {l \in links : flip(l) \in links}
Culled(links) ==
  LET good == {{l[1], l[2]} : l \in Good(links)}
      one == {C \in SUBSET good : \A w \in good : \E v \in C : {u \in C : Ends(u) = Ends(w)} = {v}}
  IN {{l \in Good(links) : {l[1], l[2]} \in C} : C \in one}

\* The loop over q, for the links adj: what is done, and the links of the tree.
Walk(adj) ==
  LET walk[s \in [q : Seq(Dpid), done : SUBSET Dpid, tree : SUBSET Link]] ==
        IF s.q = <<>> THEN s.tree
        ELSE LET v == Head(s.q)
                 out == {l \in adj : l[1][1] = v /\ l[2][1] \notin On(s.tree)}
                 more == {l[2][1] : l \in out}
             IN walk[IF v \in s.done THEN [s EXCEPT !.q = Tail(s.q)]
                     ELSE [q |-> SetToSortSeq(more, <) \o Tail(s.q),
                           done |-> s.done \cup {v}, tree |-> s.tree \cup out]]
  IN walk
TreeOf(adj, switches) == Walk(adj)[[q |-> SetToSortSeq(switches, <), done |-> {}, tree |-> {}]]

-----------------------------------------------------------------------------
(* _update_tree                                                             *)

\* What the tree has anything to say about: the ports of its switches that are
\* connected, and old enough or forced.
Ruled(tree, con, forced) ==
  {p \in Port : /\ p[1] \in On(tree) \cap con
                /\ setting.hold_down => p[1] \notin young \ forced}

Update(links, con, forced) ==
  \E adj \in Culled(links) :
    LET tree == TreeOf(adj, On(links))
        ruled == Ruled(tree, con, forced)
        edge == Port \ PortsOf(links)
        wanted == ruled \cap (PortsOf(tree) \cup edge)
        changed == {p \in ruled : prev[p] # IF p \in wanted THEN "flood" ELSE "quiet"}
    IN /\ prev' = [p \in Port |-> IF p \notin ruled THEN prev[p]
                                  ELSE IF p \in wanted THEN "flood" ELSE "quiet"]
       /\ flood' = (flood \ changed) \cup (changed \cap wanted)

-----------------------------------------------------------------------------
(* Events                                                                   *)

\* A link that is disabled at both ends is ignored.
Ignored(l) == prev[l[1]] = "quiet" /\ prev[l[2]] = "quiet"

\* _handle_LinkEvent for each of the links that changed, while discovery has `links`
\* and the switches con are found.
HandleLinkEvents(changed, links, con) ==
  IF \A l \in changed : Ignored(l) THEN UNCHANGED <<prev, flood>>
  ELSE Update(links, con, {})

\* Discovery adds a link before it raises the event.
LinkDiscovered ==
  \E l \in Link \ adjacency :
    /\ {l[1][1], l[2][1]} \subseteq connected
    /\ adjacency' = adjacency \cup {l}
    /\ HandleLinkEvents({l}, adjacency', connected)
    /\ UNCHANGED <<setting, connected, young>>

\* Discovery._delete_links: the events of all links are raised before one of them
\* is removed.
DeleteLinks(links, con) ==
  /\ HandleLinkEvents(links, adjacency, con)
  /\ adjacency' = adjacency \ links

\* One check may find any links that are expired.
LinksExpire ==
  /\ \E links \in SUBSET adjacency \ {{}} : DeleteLinks(links, connected)
  /\ UNCHANGED <<setting, connected, young>>

\* Mutant: what the ports of a switch were told is kept when it connects.
Remembered(s) == prev
Forgotten(s) == [p \in Port |-> IF p[1] = s THEN "none" ELSE prev[p]]

\* A switch that was restarted, and not only disconnected, floods at every port.
ConnectionUp ==
  \E s \in Dpid \ connected, restarted \in BOOLEAN :
    LET own == {p \in Port : p[1] = s}
        quiet == setting.noflood_by_default
    IN /\ connected' = connected \cup {s}
       /\ young' = IF setting.hold_down THEN young \cup {s} ELSE young
       /\ prev' = [p \in Port |-> IF p \in own /\ quiet THEN "quiet" ELSE Forgotten(s)[p]]
       /\ flood' = IF quiet THEN flood \ own
                   ELSE IF restarted THEN flood \cup own ELSE flood
       /\ UNCHANGED <<setting, adjacency>>

\* Discovery deletes the links of a switch that is not found any more.
ConnectionDown ==
  \E s \in connected :
    /\ connected' = connected \ {s}
    /\ young' = young \ {s}
    /\ LET links == {l \in adjacency : s \in On({l})} IN
       IF links = {} THEN UNCHANGED <<adjacency, prev, flood>>
       ELSE DeleteLinks(links, connected')
    /\ UNCHANGED setting

\* With hold_down: the timer of a switch that was connected a cycle ago.
HoldDownEnds ==
  \E s \in young :
    /\ young' = young \ {s}
    /\ Update(adjacency, connected, {s})
    /\ UNCHANGED <<setting, connected, adjacency>>

Next ==
  \/ LinkDiscovered \/ LinksExpire \/ ConnectionUp \/ ConnectionDown
  \/ HoldDownEnds

Spec == Init /\ [][Next]_vars

-----------------------------------------------------------------------------
\* Wires that discovery has in both directions and that flood at both ends.
Flooding == {w \in setting.wires : w \subseteq flood /\ {l \in Link : {l[1], l[2]} = w} \subseteq adjacency}

\* What is flooded does not run in a circle of the wires that discovery knows
\* both ways, whatever was found, lost, connected and restarted: no set of
\* switches has as many flooding wires among them as it has switches.  What was
\* last sent to a port is skipped (_prev), and events of disabled links are.
NoFloodLoop ==
  \A S \in SUBSET Dpid \ {{}} :
    Cardinality({w \in Flooding : Ends(w) \subseteq S}) < Cardinality(S)
=============================================================================
