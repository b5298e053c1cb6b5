-------------------------- MODULE Responders_proofs --------------------------
(***************************************************************************)
(* Two components that answer for addresses: what the ARP responder        *)
(* answers, for any switches and addresses and however many packets; and   *)
(* that a connection keeps the server it was given by the load balancer    *)
(* while that one answers, for any numbers of servers, clients, rounds and *)
(* packets.                                                                *)
(***************************************************************************)
EXTENDS ArpResponder, IpLoadBalancer, TLAPS

-----------------------------------------------------------------------------
(* The ARP responder.                                                      *)

\* The MACs of hosts are not what stands for the switch's own, or for none; the
\* configuration gives addresses one or the other.
NamesApart ==
  /\ Own \notin Mac /\ NoMac \notin Mac
  /\ DOMAIN Config \subseteq Ip
  /\ \A i \in DOMAIN Config : Config[i] \in Mac \cup {Own}

Entries == [mac : Mac \cup {Own, NoMac}, static : BOOLEAN, flood : BOOLEAN]

\* An entry names the switch if and only if it was configured last, to do that; then
\* it is static.  One that expires was learned from what ARP said last.
EntryRight(i) ==
  /\ set[i] = Own <=> arp_table[i].mac = Own
  /\ arp_table[i].mac = Own => arp_table[i].static
  /\ Expires(arp_table[i]) => arp_table[i].mac = said[i]

ResponderInv ==
  /\ arp_table \in [Ip -> Entries]
  /\ set \in [Ip -> Mac \cup {Own, NoMac}] /\ said \in [Ip -> Mac \cup {NoMac}]
  /\ \A i \in Ip : EntryRight(i)
  /\ out.kind = "answer" =>
       /\ out.for \in Ip
       /\ set[out.for] = Own <=> out.mac = <<Own, out.by>>

-----------------------------------------------------------------------------
\* What entries are.
LEMMA EntryTypes ==
  ASSUME NamesApart
  PROVE  /\ NoEntry \in Entries /\ NoEntry.mac # Own /\ ~Expires(NoEntry)
         /\ \A mac \in Mac : /\ Learned(mac) \in Entries /\ Learned(mac).mac = mac
                             /\ mac # Own
         /\ \A mac \in Mac \cup {Own} :
              /\ Configured(mac) \in Entries /\ Configured(mac).mac = mac
              /\ Configured(mac).static /\ ~Expires(Configured(mac))
         /\ Own # NoMac
BY DEF NamesApart, Entries, NoEntry, Learned, Configured, Expires, Own, NoMac

\* The initial table has what was configured.
LEMMA InitResponder == ASSUME NamesApart PROVE Init => ResponderInv
<1> SUFFICES ASSUME Init PROVE ResponderInv
  OBVIOUS
<1>1. /\ \A i \in DOMAIN Config : Config[i] \in Mac \cup {Own}
      /\ out.kind # "answer"
      /\ Own # NoMac
  BY EntryTypes DEF NamesApart, Init
<1>2. ASSUME NEW i \in Ip
      PROVE  /\ arp_table[i] \in Entries /\ EntryRight(i)
             /\ set[i] \in Mac \cup {Own, NoMac}
  <2>1. CASE i \in DOMAIN Config
    BY <1>1, <2>1, EntryTypes DEF Init, EntryRight
  <2>2. CASE i \notin DOMAIN Config
    BY <1>1, <2>2, EntryTypes DEF Init, EntryRight
  <2> QED
    BY <2>1, <2>2
<1>3. /\ arp_table \in [Ip -> Entries]
      /\ set \in [Ip -> Mac \cup {Own, NoMac}] /\ said \in [Ip -> Mac \cup {NoMac}]
  BY <1>2 DEF Init
<1> QED
  BY <1>1, <1>2, <1>3 DEF ResponderInv

\* The console's change is one of set, and of the entry with it.
LEMMA SetKeeps == ASSUME NamesApart, ResponderInv, SetEntry PROVE ResponderInv'
<1>1. PICK i \in Ip, mac \in Mac \cup {Own, NoMac} :
        /\ arp_table' = [arp_table EXCEPT ![i] = IF mac = NoMac THEN NoEntry ELSE Configured(mac)]
        /\ set' = [set EXCEPT ![i] = mac] /\ said' = [said EXCEPT ![i] = NoMac]
  BY DEF SetEntry
<1>2. /\ arp_table \in [Ip -> Entries] /\ set \in [Ip -> Mac \cup {Own, NoMac}]
      /\ said \in [Ip -> Mac \cup {NoMac}]
  BY DEF ResponderInv
<1> DEFINE e == IF mac = NoMac THEN NoEntry ELSE Configured(mac)
<1>3. /\ e \in Entries /\ ~Expires(e) /\ (mac = Own <=> e.mac = Own)
      /\ (e.mac = Own => e.static)
  BY EntryTypes
<1>4. arp_table'[i] = e /\ set'[i] = mac
  BY <1>1, <1>2
<1>5. \A j \in Ip \ {i} : /\ arp_table'[j] = arp_table[j] /\ set'[j] = set[j]
                          /\ said'[j] = said[j]
  BY <1>1, <1>2
<1>6. /\ arp_table' \in [Ip -> Entries] /\ set' \in [Ip -> Mac \cup {Own, NoMac}]
      /\ said' \in [Ip -> Mac \cup {NoMac}]
  BY <1>1, <1>2, <1>3
<1> HIDE DEF e
<1>7. \A j \in Ip : EntryRight(j)'
  BY <1>3, <1>4, <1>5 DEF ResponderInv, EntryRight, Expires
<1> QED
  BY <1>6, <1>7 DEF ResponderInv, SetEntry

\* An ARP packet changes one entry, and not one that names the switch; an answer is what
\* the table then says.
LEMMA PacketInKeeps == ASSUME NamesApart, ResponderInv, _handle_PacketIn PROVE ResponderInv'
<1>1. PICK s \in connected, from \in Ip, mac \in Mac, to \in Ip, request \in BOOLEAN,
           probe \in BOOLEAN, learn \in BOOLEAN :
        LET table == IF learn /\ ~probe
                     THEN [arp_table EXCEPT ![from] = AfterSource(@, mac)] ELSE arp_table
        IN /\ arp_table' = table
           /\ said' = IF learn /\ ~probe THEN [said EXCEPT ![from] = mac] ELSE said
           /\ out' = IF request /\ ~probe /\ table[to] # NoEntry THEN Answer(to, table, s)
                     ELSE [kind |-> IF _check_for_flood(table, to) THEN "flood" ELSE "none"]
  BY DEF _handle_PacketIn
<1>2. /\ arp_table \in [Ip -> Entries] /\ set \in [Ip -> Mac \cup {Own, NoMac}]
      /\ said \in [Ip -> Mac \cup {NoMac}]
      /\ set' = set
      /\ \A i \in Ip : EntryRight(i)
  BY DEF ResponderInv, _handle_PacketIn
<1>3. /\ arp_table' \in [Ip -> Entries] /\ said' \in [Ip -> Mac \cup {NoMac}]
      /\ \A i \in Ip : EntryRight(i)'
  <2>1. CASE learn /\ ~probe
    <3> DEFINE old == arp_table[from]
               new == AfterSource(old, mac)
    <3>1. /\ arp_table' = [arp_table EXCEPT ![from] = new]
          /\ said' = [said EXCEPT ![from] = mac]
      BY <1>1, <2>1
    <3>2. \/ new = Learned(mac) /\ old.mac # Own
          \/ new = old /\ ~Expires(old)
      BY <1>2, EntryTypes DEF AfterSource, Same, Expires, EntryRight
    <3>3. new \in Entries
      BY <1>2, <3>2, EntryTypes
    <3> HIDE DEF new
    <3>4. /\ arp_table'[from] = new /\ said'[from] = mac
          /\ \A j \in Ip \ {from} : arp_table'[j] = arp_table[j] /\ said'[j] = said[j]
      BY <1>2, <3>1
    <3>5. EntryRight(from)'
      <4>1. CASE new = Learned(mac) /\ old.mac # Own
        BY <1>2, <3>4, <4>1, EntryTypes DEF EntryRight
      <4>2. CASE new = old /\ ~Expires(old)
        BY <1>2, <3>4, <4>2 DEF EntryRight
      <4> QED
        BY <3>2, <4>1, <4>2
    <3>6. \A j \in Ip \ {from} : EntryRight(j)'
      BY <1>2, <3>4 DEF EntryRight
    <3> QED
      BY <1>2, <3>1, <3>3, <3>5, <3>6
  <2>2. CASE ~(learn /\ ~probe)
    BY <1>1, <1>2, <2>2 DEF EntryRight
  <2> QED
    BY <2>1, <2>2
<1>4. out'.kind = "answer" =>
        /\ out'.for = to /\ out'.by = s
        /\ out'.mac = MacOf(arp_table'[to], s)
  BY <1>1 DEF Answer
<1>5. MacOf(arp_table'[to], s) = <<Own, s>> <=> arp_table'[to].mac = Own
  <2>1. \A m : <<m>> # <<Own, s>>
    <3> TAKE m
    <3>1. Len(<<m>>) = 1 /\ Len(<<Own, s>>) = 2
      OBVIOUS
    <3> QED
      BY <3>1
  <2> QED
    BY <2>1 DEF MacOf
<1>6. set'[to] = Own <=> arp_table'[to].mac = Own
  BY <1>3 DEF EntryRight
<1> QED
  BY <1>2, <1>3, <1>4, <1>5, <1>6 DEF ResponderInv

\* What expires does not name the switch.
LEMMA ExpirationKeeps ==
  ASSUME NamesApart, ResponderInv, _handle_expiration PROVE ResponderInv'
<1>1. PICK old \in SUBSET {i \in Ip : Expires(arp_table[i])} :
        arp_table' = [i \in Ip |-> IF i \in old THEN NoEntry ELSE arp_table[i]]
  BY DEF _handle_expiration
<1>2. UNCHANGED <<set, said, out>>
  BY DEF _handle_expiration
<1>3. \A i \in Ip : EntryRight(i)'
  BY <1>1, <1>2, EntryTypes DEF ResponderInv, EntryRight, Expires
<1>4. arp_table' \in [Ip -> Entries]
  BY <1>1, EntryTypes DEF ResponderInv
<1> QED
  BY <1>2, <1>3, <1>4 DEF ResponderInv

\* Every step keeps the invariant.
LEMMA NextResponder ==
  ASSUME NamesApart PROVE ResponderInv /\ [Next]_vars => ResponderInv'
<1> SUFFICES ASSUME ResponderInv, [Next]_vars PROVE ResponderInv'
  OBVIOUS
<1>1. CASE ConnectionUp \/ UNCHANGED vars
  BY <1>1 DEF ConnectionUp, vars, ResponderInv, EntryRight
<1> QED
  BY <1>1, SetKeeps, PacketInKeeps, ExpirationKeeps DEF Next

\* An address that the switches answer for is never taken over, each switch answers with
\* its own MAC, and what expires is what ARP said last.
THEOREM AnswersCorrect == ASSUME NamesApart PROVE Spec => []AnswersRight
<1>1. ResponderInv => AnswersRight
  BY DEF ResponderInv, EntryRight, AnswersRight
<1> QED
  BY <1>1, InitResponder, NextResponder, PTL DEF Spec

-----------------------------------------------------------------------------
(* The load balancer.                                                      *)

\* A port is not what stands for no port, and a probe has time for an answer.
PortsAndTimeout == Down \notin Port /\ arp_timeout \in Nat \ {0}

\* The table of probes and the time since the question count the same rounds,
\* one down and one up.
CountsAgree ==
  \A s \in Server :
    /\ asked[s] \in 0..arp_timeout
    /\ outstanding_probes[s] = IF asked[s] = 0 THEN 0 ELSE arp_timeout + 1 - asked[s]

\* A server that was given to a connection and has answered every probe is up.
GivenIsUp == \A c \in Client : first[c] # None /\ first[c] \notin missed => first[c] \in Alive

BalancerInv ==
  /\ asked \in [Server -> Nat] /\ outstanding_probes \in [Server -> Nat]
  /\ live_servers \in [Server -> Port \cup {Down}]
  /\ chosen \in [Client -> Server \cup {None}] /\ first \in [Client -> Server \cup {None}]
  /\ CountsAgree /\ GivenIsUp /\ StaysWithServer

-----------------------------------------------------------------------------
\* Nothing was asked and no connection was seen in the initial state.
LEMMA InitBalancer == ASSUME PortsAndTimeout PROVE BalancerInit => BalancerInv
BY DEF PortsAndTimeout, BalancerInit, BalancerInv, CountsAgree, GivenIsUp, StaysWithServer

\* A probe that was not answered in time is noted as missed in the step in which its
\* server is taken down.
LEMMA ProbeKeeps ==
  ASSUME PortsAndTimeout, BalancerInv, _do_probe PROVE BalancerInv'
<1> USE DEF PortsAndTimeout, Down
<1> DEFINE T == arp_timeout
           h == Head(servers)
<1>a. /\ outstanding_probes' = [s \in Server |-> IF s = h THEN T ELSE Less(outstanding_probes[s])]
      /\ asked' = [s \in Server |-> IF s = h THEN 1
                                  ELSE IF asked[s] \in 1..(T - 1) THEN asked[s] + 1 ELSE 0]
      /\ live_servers' = [s \in Server |-> IF s \in Late THEN Down ELSE live_servers[s]]
      /\ missed' = missed \cup {s \in Server : asked[s] >= T}
  BY DEF _do_probe
<1>b. \A s \in Server : /\ asked[s] \in 0..T
                        /\ outstanding_probes[s] = IF asked[s] = 0 THEN 0 ELSE T + 1 - asked[s]
  BY DEF BalancerInv, CountsAgree
<1> HIDE DEF h
<1>1. /\ asked' \in [Server -> Nat] /\ outstanding_probes' \in [Server -> Nat]
      /\ live_servers' \in [Server -> Port \cup {Down}]
      /\ CountsAgree'
  <2>1. ASSUME NEW s \in Server
        PROVE  /\ asked'[s] \in 0..T
               /\ outstanding_probes'[s] = IF asked'[s] = 0 THEN 0 ELSE T + 1 - asked'[s]
               /\ asked'[s] \in Nat /\ outstanding_probes'[s] \in Nat
    <3>1. CASE s = h
      BY <1>a, <3>1
    <3>2. CASE s # h
      <4>1. /\ asked'[s] = IF asked[s] \in 1..(T - 1) THEN asked[s] + 1 ELSE 0
            /\ outstanding_probes'[s] = Less(outstanding_probes[s])
        BY <1>a, <3>2
      <4> QED
        BY <1>b, <4>1 DEF Less
    <3> QED
      BY <3>1, <3>2
  <2>2. live_servers' \in [Server -> Port \cup {Down}]
    BY <1>a DEF BalancerInv
  <2>3. asked' \in [Server -> Nat] /\ outstanding_probes' \in [Server -> Nat]
    BY <1>a, <2>1
  <2> QED
    BY <2>1, <2>2, <2>3 DEF CountsAgree
<1>2. \A s \in Late : s \in missed'
  BY <1>a, <1>b DEF Late
<1> USE DEF BalancerInv
<1>3. missed \subseteq missed' /\ \A s \in Alive : s \in Alive' \/ s \in Late
  BY DEF _do_probe, Alive
<1>4. \A c \in Client : \/ chosen'[c] = chosen[c] /\ first'[c] = first[c]
                        \/ chosen'[c] = None /\ first'[c] = None
  BY DEF _do_probe, Forget
<1>5. /\ chosen' \in [Client -> Server \cup {None}]
      /\ first' \in [Client -> Server \cup {None}]
  BY DEF _do_probe, Forget
<1>6. GivenIsUp'
  BY <1>2, <1>3, <1>4 DEF GivenIsUp
<1>7. StaysWithServer'
  BY <1>3, <1>4 DEF StaysWithServer
<1> QED
  BY <1>1, <1>5, <1>6, <1>7

\* An answer ends the probe and brings its server up.
LEMMA ReplyKeeps ==
  ASSUME PortsAndTimeout, BalancerInv, HandleArpReply PROVE BalancerInv'
<1> USE DEF BalancerInv, PortsAndTimeout, Down
<1>1. PICK s \in Server, p \in Port :
        /\ asked' = [asked EXCEPT ![s] = 0]
        /\ asked[s] > 0
        /\ IF outstanding_probes[s] > 0
           THEN outstanding_probes' = Answered(s) /\ live_servers' = [live_servers EXCEPT ![s] = p]
           ELSE UNCHANGED <<outstanding_probes, live_servers>>
  BY DEF HandleArpReply
<1>2. outstanding_probes[s] > 0
  BY <1>1 DEF CountsAgree
<1>3. /\ outstanding_probes' = [outstanding_probes EXCEPT ![s] = 0]
      /\ live_servers' = [live_servers EXCEPT ![s] = p]
  BY <1>1, <1>2 DEF Answered
<1>4. UNCHANGED <<chosen, first, missed>>
  BY DEF HandleArpReply
<1>5. /\ asked' \in [Server -> Nat] /\ outstanding_probes' \in [Server -> Nat]
      /\ live_servers' \in [Server -> Port \cup {Down}]
      /\ CountsAgree'
  BY <1>1, <1>3 DEF CountsAgree
<1>6. Alive \subseteq Alive'
  BY <1>3 DEF Alive
<1>7. GivenIsUp' /\ StaysWithServer'
  BY <1>4, <1>6 DEF GivenIsUp, StaysWithServer
<1> QED
  BY <1>4, <1>5, <1>7

\* A packet of a connection that was given a server which is up goes to that server.
LEMMA PacketKeeps ==
  ASSUME PortsAndTimeout, BalancerInv, FromClient PROVE BalancerInv'
<1> USE DEF BalancerInv
<1>0. PICK c \in Client : \E s \in Directed(c) :
        /\ chosen' = [chosen EXCEPT ![c] = s]
        /\ first' = [first EXCEPT ![c] = IF @ = None \/ chosen[c] \in missed THEN s ELSE @]
  BY DEF FromClient
<1>1. PICK s \in Directed(c) :
        /\ chosen' = [chosen EXCEPT ![c] = s]
        /\ first' = [first EXCEPT ![c] = IF @ = None \/ chosen[c] \in missed THEN s ELSE @]
  BY <1>0
<1>2. UNCHANGED <<live_servers, outstanding_probes, asked, missed>>
  BY DEF FromClient
<1>3. s \in Alive /\ s \in Server /\ Alive' = Alive
  BY <1>2 DEF Directed, Alive
<1>4. /\ chosen' \in [Client -> Server \cup {None}]
      /\ first' \in [Client -> Server \cup {None}]
  BY <1>1, <1>3
<1>5. \A d \in Client \ {c} : chosen'[d] = chosen[d] /\ first'[d] = first[d]
  BY <1>1
<1>6. CASE first[c] = None \/ chosen[c] \in missed
  <2>1. chosen'[c] = s /\ first'[c] = s
    BY <1>1, <1>6
  <2> QED
    BY <1>2, <1>3, <1>4, <1>5, <2>1 DEF GivenIsUp, StaysWithServer, CountsAgree
<1>7. CASE first[c] # None /\ chosen[c] \notin missed
  <2>1. chosen'[c] = s /\ first'[c] = first[c]
    BY <1>1, <1>7
  <2>2. first[c] \notin missed => s = first[c]
    BY <1>1, <1>7 DEF GivenIsUp, StaysWithServer, Directed
  <2> QED
    BY <1>2, <1>3, <1>4, <1>5, <2>1, <2>2 DEF GivenIsUp, StaysWithServer, CountsAgree
<1> QED
  BY <1>6, <1>7

\* Every step keeps the invariant.
LEMMA NextBalancer ==
  ASSUME PortsAndTimeout PROVE BalancerInv /\ [BalancerNext]_balancerVars => BalancerInv'
<1> SUFFICES ASSUME BalancerInv, [BalancerNext]_balancerVars PROVE BalancerInv'
  OBVIOUS
<1>1. ASSUME UNCHANGED <<asked, outstanding_probes, live_servers, chosen, first, missed>>
      PROVE  BalancerInv'
  BY <1>1 DEF BalancerInv, CountsAgree, GivenIsUp, StaysWithServer, Alive
<1>2. CASE FromServer \/ FlowIdles \/ UNCHANGED balancerVars
  BY <1>1, <1>2 DEF FromServer, FlowIdles, balancerVars
<1> QED
  BY <1>2, ProbeKeeps, ReplyKeeps, PacketKeeps DEF BalancerNext

\* A connection keeps its server for as long as that one answers every probe in time.
THEOREM StaysCorrect == ASSUME PortsAndTimeout PROVE BalancerSpec => []StaysWithServer
<1>1. BalancerInv => StaysWithServer
  BY DEF BalancerInv
<1> QED
  BY <1>1, InitBalancer, NextBalancer, PTL DEF BalancerSpec
=============================================================================
