----------------------------- MODULE PbftPoxApp -----------------------------
(***************************************************************************)
(* The POX application of the control loop (pox/ext/pbft_pox_app.py): the  *)
(* primary, which proposes an action for a packet and executes what was    *)
(* agreed, and the replicas, which calculate the action for their node and *)
(* are told of the links.                                                  *)
(*                                                                         *)
(* Dealer and nodes are what the application sees of them: a transaction   *)
(* is proposed, checked by each node's replica in the order of the blocks, *)
(* and committed; the result of a request and the link events of a block   *)
(* are then on their way, each by itself.  A difference between what a     *)
(* replica calculates and what was proposed is only logged.                *)
(***************************************************************************)
EXTENDS Integers, Sequences, FiniteSets

CONSTANTS
  Replica,
  Mac,
  Endpoint,     \* ports <<dpid, number>>
  LinkOf,       \* a function: the port at the other end, or the port itself
  MaxPackets, MaxLinkEvents

Primary == 0
App == {Primary} \cup Replica
Flood == <<0, 65531>>
Dpid == {p[1] : p \in Endpoint}

VARIABLES
  macToPort,   \* mac_to_port of every instance: port, or Nowhere
  activeLinks, \* topology_active_links
  blocks,      \* transactions in the order of the chain
  checked,     \* how many of them each replica has calculated
  notices,     \* calls of NotifyLinkEvent that are under way to each replica
  replies,     \* results that are under way to the primary
  outs,        \* packets that the primary sent out
  packets, linkEvents

vars == <<macToPort, activeLinks, blocks, checked, notices, replies, outs, packets, linkEvents>>

Nowhere == <<0, 0>>

Init ==
  /\ macToPort = [a \in App |-> [d \in Dpid |-> [m \in Mac |-> Nowhere]]]
  /\ activeLinks = [a \in App |-> {}]
  /\ blocks = <<>>
  /\ checked = [r \in Replica |-> 0]
  /\ notices = [r \in Replica |-> {}]
  /\ replies = {} /\ outs = {}
  /\ packets = 0 /\ linkEvents = 0

-----------------------------------------------------------------------------
(* DeterministicL2SwitchLogic                                               *)

learn_mac(table, pkt) == [table EXCEPT ![pkt.at[1]][pkt.src] = pkt.at]

\* compute_action, once it has learnt the source: a port, Flood, or Nowhere for
\* no action.
compute_action(table, pkt) ==
  LET port == table[pkt.at[1]][pkt.dst] IN
  IF port = Nowhere THEN Flood ELSE IF port = pkt.at THEN Nowhere ELSE port

_clear_macs_for_port(table, p) ==
  [d \in Dpid |-> [m \in Mac |-> IF table[d][m] = p THEN Nowhere ELSE table[d][m]]]

\* update_link_state
WithLink(links, e) == IF e.up THEN links \cup {e.link} ELSE links \ {e.link}
AfterLink(table, links, e) ==
  IF e.up \/ e.link \notin links THEN table
  ELSE LET p == CHOOSE q \in e.link : TRUE
       IN _clear_macs_for_port(_clear_macs_for_port(table, p), LinkOf[p])

-----------------------------------------------------------------------------
(* The primary.                                                             *)

\* _handle_PacketIn: the request runs in a thread of its own, and may overtake.
PacketIn ==
  /\ packets < MaxPackets /\ packets' = packets + 1
  /\ \E at \in Endpoint, src, dst \in Mac :
       LET pkt == [kind |-> "packet", id |-> packets, at |-> at, src |-> src, dst |-> dst]
           table == learn_mac(macToPort[Primary], pkt)
           proposed == compute_action(table, pkt)
       IN /\ src # dst
          /\ macToPort' = [macToPort EXCEPT ![Primary] = table]
          /\ IF proposed = Nowhere THEN UNCHANGED blocks
             ELSE \E i \in 0..Len(blocks) :
                    /\ \A r \in Replica : checked[r] <= i
                    /\ blocks' = SubSeq(blocks, 1, i)
                                 \o <<[kind |-> "packet", pkt |-> pkt, action |-> proposed]>>
                                 \o SubSeq(blocks, i + 1, Len(blocks))
  /\ UNCHANGED <<activeLinks, checked, notices, replies, outs, linkEvents>>

\* _handle_LinkEvent waits for the dealer, so that link events keep their order.
LinkEvent ==
  /\ linkEvents < MaxLinkEvents /\ linkEvents' = linkEvents + 1
  /\ \E p \in Endpoint, up \in BOOLEAN :
       /\ LinkOf[p] # p
       /\ blocks' = Append(blocks, [kind |-> "link", id |-> linkEvents,
                                    link |-> {p, LinkOf[p]}, up |-> up])
  /\ UNCHANGED <<macToPort, activeLinks, checked, notices, replies, outs, packets>>

\* _execute_final_action, called later in POX's own thread.
ExecuteFinalAction ==
  /\ \E reply \in replies :
       /\ replies' = replies \ {reply}
       /\ outs' = outs \cup {reply}
  /\ UNCHANGED <<macToPort, activeLinks, blocks, checked, notices, packets, linkEvents>>

-----------------------------------------------------------------------------
(* A replica.                                                               *)

\* CalculateAction for the next transaction of a packet; a node that has
\* committed a link event starts a call of NotifyLinkEvent.
CalculateAction ==
  /\ \E r \in Replica :
       /\ checked[r] < Len(blocks)
       /\ checked' = [checked EXCEPT ![r] = @ + 1]
       /\ LET tx == blocks[checked[r] + 1] IN
          IF tx.kind = "link"
          THEN /\ notices' = [notices EXCEPT ![r] = @ \cup {tx}]
               /\ UNCHANGED <<macToPort, replies>>
          ELSE /\ macToPort' = [macToPort EXCEPT ![r] = learn_mac(@, tx.pkt)]
               /\ replies' = IF \A q \in Replica : checked[q] <= checked[r]
                             THEN replies \cup {<<tx.pkt.id, tx.action>>} ELSE replies
               /\ UNCHANGED notices
  /\ UNCHANGED <<activeLinks, blocks, outs, packets, linkEvents>>

NotifyLinkEvent ==
  /\ \E r \in Replica : \E e \in notices[r] :
       /\ notices' = [notices EXCEPT ![r] = @ \ {e}]
       /\ activeLinks' = [activeLinks EXCEPT ![r] = WithLink(@, e)]
       /\ macToPort' = [macToPort EXCEPT ![r] = AfterLink(@, activeLinks[r], e)]
  /\ UNCHANGED <<blocks, checked, replies, outs, packets, linkEvents>>

Next ==
  \/ PacketIn \/ LinkEvent \/ ExecuteFinalAction \/ CalculateAction \/ NotifyLinkEvent

Spec == Init /\ [][Next]_vars

-----------------------------------------------------------------------------
\* "This ensures all replicas maintain a consistent view of the network fabric":
\* replicas that have handled the same blocks have the same links.
ConsistentView ==
  \A q, r \in Replica :
    checked[q] = checked[r] /\ notices[q] = {} /\ notices[r] = {}
      => activeLinks[q] = activeLinks[r]
=============================================================================
