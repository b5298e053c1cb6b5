--------------------------- MODULE IpLoadBalancer ---------------------------
(***************************************************************************)
(* POX's load balancer (pox/misc/ip_loadbalancer.py): TCP connections to   *)
(* one address are given to servers at random, those that answered ARP,    *)
(* and go to the same server for as long as that is remembered and it is   *)
(* alive.                                                                  *)
(*                                                                         *)
(* Time goes by in rounds of probing: each round asks one server.  Packets *)
(* are handled, and flows installed, at once.                              *)
(***************************************************************************)
EXTENDS Integers, Sequences

CONSTANTS
  Server, Client,    \* a client stands for one TCP connection
  Port,
  arp_timeout,       \* in rounds
  MaxProbes, MaxTcp   \* bounds

VARIABLES
  servers,              \* the queue of those to ask
  live_servers,         \* server -> port, or Down
  outstanding_probes,   \* server -> rounds that are left, 0 for none
  memory,               \* (client, server) -> the entry's client port, or Forgotten
  chosen,               \* the server of the entry that a client's tcpPackets find
  flows,
  asked,                \* server -> rounds since the question it has not answered, 0 for none
  missed,               \* servers that did not answer in time
  first,                \* the server that a connection was given when it was not known
  probes, tcpPackets

balancerVars == <<servers, live_servers, outstanding_probes, memory, chosen, flows, asked,
                  missed, first, probes, tcpPackets>>

Down == 0
Forgotten == 0
None == "none"
Remembered(c, s) == memory[<<c, s>>] # Forgotten

BalancerInit ==
  /\ servers \in {q \in [1..2 -> Server] : q[1] # q[2]}
  /\ live_servers = [s \in Server |-> Down]
  /\ outstanding_probes = [s \in Server |-> 0] /\ asked = [s \in Server |-> 0]
  /\ memory = [x \in Client \X Server |-> Forgotten] /\ chosen = [c \in Client |-> None]
  /\ flows = {} /\ missed = {} /\ first = [c \in Client |-> None]
  /\ probes = 0 /\ tcpPackets = 0

-----------------------------------------------------------------------------
(* Probes                                                                  *)

Less(n) == IF n > 0 THEN n - 1 ELSE 0

\* _do_expire, of probes: what was not answered for long enough is down.
Late == {s \in Server : outstanding_probes[s] = 1}

\* Of the memory: any entry may have been unused for FLOW_MEMORY_TIMEOUT.
Forget(old) ==
  /\ memory' = [x \in DOMAIN memory |-> IF x \in old THEN Forgotten ELSE memory[x]]
  /\ chosen' = [c \in Client |-> IF <<c, chosen[c]>> \in old THEN None ELSE chosen[c]]
  /\ first' = [c \in Client |-> IF <<c, chosen[c]>> \in old THEN None ELSE first[c]]

_do_probe ==
  /\ probes < MaxProbes /\ probes' = probes + 1
  /\ \E old \in SUBSET {x \in DOMAIN memory : memory[x] # Forgotten} : Forget(old)
  /\ live_servers' = [s \in Server |-> IF s \in Late THEN Down ELSE live_servers[s]]
  /\ servers' = Append(Tail(servers), Head(servers))
  /\ outstanding_probes' =
       [s \in Server |-> IF s = Head(servers) THEN arp_timeout ELSE Less(outstanding_probes[s])]
  /\ missed' = missed \cup {s \in Server : asked[s] >= arp_timeout}
  /\ asked' = [s \in Server |-> IF s = Head(servers) THEN 1
                                ELSE IF asked[s] \in 1..(arp_timeout - 1) THEN asked[s] + 1 ELSE 0]
  /\ UNCHANGED <<flows, tcpPackets>>

\* Mutant: the answer does not end the probe.
StaysOutstanding(s) == outstanding_probes
Answered(s) == [outstanding_probes EXCEPT ![s] = 0]

HandleArpReply ==
  /\ \E s \in Server, p \in Port :
       /\ asked[s] > 0 /\ asked' = [asked EXCEPT ![s] = 0]
       /\ IF outstanding_probes[s] > 0
          THEN outstanding_probes' = Answered(s) /\ live_servers' = [live_servers EXCEPT ![s] = p]
          ELSE UNCHANGED <<outstanding_probes, live_servers>>
  /\ UNCHANGED <<servers, memory, chosen, flows, missed, first, probes, tcpPackets>>

-----------------------------------------------------------------------------
(* TCP                                                                     *)

Alive == {s \in Server : live_servers[s] # Down}
Packet == tcpPackets < MaxTcp /\ tcpPackets' = tcpPackets + 1

ToServer(c, in, s) == [to |-> "server", client |-> c, server |-> s, in |-> in, out |-> live_servers[s]]
ToClient(c, in, s) == [to |-> "client", client |-> c, server |-> s, in |-> in, out |-> memory[<<c, s>>]]
\* A flow takes the place of the one with its match: the server is not in that of a client.
SameMatch(f, g) ==
  f.to = g.to /\ f.client = g.client /\ f.in = g.in /\ (f.to = "client" => f.server = g.server)
Installed(f) == {g \in flows : ~SameMatch(f, g)} \cup {f}

\* What is remembered with a server that is down is of no use.
Directed(c) == IF chosen[c] \in Alive THEN {chosen[c]} ELSE Alive

\* A packet of a client, that no flow matches.
FromClient ==
  /\ Packet
  /\ \E c \in Client, in \in Port :
       /\ \A f \in flows : ~(f.to = "server" /\ f.client = c /\ f.in = in)
       /\ \E s \in Directed(c) :
            /\ chosen' = [chosen EXCEPT ![c] = s]
            /\ first' = [first EXCEPT ![c] = IF @ = None \/ chosen[c] \in missed THEN s ELSE @]
            /\ memory' = IF chosen[c] = s THEN memory ELSE [memory EXCEPT ![<<c, s>>] = in]
            /\ flows' = Installed(ToServer(c, in, s))
  /\ UNCHANGED <<servers, live_servers, outstanding_probes, asked, missed, probes>>

\* One of a server; of a server that is down it raises KeyError.
FromServer ==
  /\ Packet
  /\ \E c \in Client, s \in Alive, in \in Port :
       Remembered(c, s) /\ flows' = Installed(ToClient(c, in, s))
  /\ UNCHANGED <<servers, live_servers, outstanding_probes, memory, chosen, asked, missed, first, probes>>

\* FLOW_IDLE_TIMEOUT; or the switch connects again, without what it had.
FlowIdles ==
  /\ \E gone \in {{f} : f \in flows} \cup {flows} : gone # {} /\ flows' = flows \ gone
  /\ UNCHANGED <<servers, live_servers, outstanding_probes, memory, chosen, asked, missed, first,
                 probes, tcpPackets>>

BalancerNext == _do_probe \/ HandleArpReply \/ FromClient \/ FromServer \/ FlowIdles

BalancerSpec == BalancerInit /\ [][BalancerNext]_balancerVars

-----------------------------------------------------------------------------
\* A connection that is remembered keeps the server it was given for as long as that one
\* answers every probe before the timeout, whoever else is asked, comes up or goes down.
StaysWithServer ==
  \A c \in Client : first[c] # None /\ first[c] \notin missed => chosen[c] = first[c]
=============================================================================
