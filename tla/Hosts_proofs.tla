---------------------------- MODULE Hosts_proofs ----------------------------
(***************************************************************************)
(* Where hosts are.  A host that answers is never given up, for any places *)
(* and addresses, any limit of pings and any intervals (HostTracker).  A   *)
(* buffered packet is let go at most once, and flows follow a host that    *)
(* moves, for any addresses and ports and any length of the buckets        *)
(* (L3Learning).                                                           *)
(***************************************************************************)
EXTENDS HostTracker, L3Learning, SequenceTheorems, TLAPS

-----------------------------------------------------------------------------
(* HostTracker                                                             *)

\* The limit and the intervals are natural numbers.
TimesAreNatural == pingLim \in Nat /\ arpAware \in Nat /\ arpSilent \in Nat

IpEntries == [hasARP : BOOLEAN, seen : Nat, pending : Nat]
MacEntries ==
  [dpid : {p[1] : p \in Place}, port : {p[2] : p \in Place}, seen : Nat,
   ipAddrs : [Ip -> IpEntries \cup {NoIp}]]

\* A host was last seen no earlier than each of its addresses; and the pings counted for an
\* address that has lost none are not answered yet.
AddressInv(i) ==
  entry.ipAddrs[i] # NoIp =>
    /\ entry.ipAddrs[i].seen >= entry.seen
    /\ i \notin missed => entry.ipAddrs[i].pending = 0 \/ \E p : <<p, i>> \in pings

TrackerInv ==
  /\ at \in Place /\ ip \in Ip
  /\ entry = NoEntry \/ entry \in MacEntries
  /\ Known => \A i \in Ip : AddressInv(i)

-----------------------------------------------------------------------------
\* An address is known or not, and so is a host.
LEMMA EntriesApart ==
  /\ \A e \in IpEntries : e # NoIp
  /\ \A e \in MacEntries : e # NoEntry
  /\ NoIp.pending = 0
<1>1. \A e \in IpEntries : e # NoIp
  BY DEF IpEntries, NoIp
<1>2. ASSUME NEW e \in MacEntries PROVE e # NoEntry
  <2>1. DOMAIN e = {"dpid", "port", "seen", "ipAddrs"} /\ DOMAIN NoEntry = {"dpid"}
    BY DEF MacEntries, NoEntry
  <2>2. "port" \in DOMAIN e /\ "port" \notin DOMAIN NoEntry
    BY <2>1
  <2> QED
    BY <2>2
<1> QED
  BY <1>1, <1>2 DEF NoIp

\* What a packet of the host tells.
LEMMA PacketTells ==
  ASSUME TrackerInv, NEW hasARP \in BOOLEAN, _handle_openflow_PacketIn(hasARP)
  PROVE  /\ entry' \in MacEntries /\ entry'.seen = 0
         /\ entry'.ipAddrs[ip] \in IpEntries
         /\ hasARP => entry'.ipAddrs[ip].pending = 0
         /\ \A i \in Ip : /\ entry'.ipAddrs[i] # NoIp => entry'.ipAddrs[i].seen >= 0
                          /\ \/ i = ip
                             \/ Known /\ entry'.ipAddrs[i] = entry.ipAddrs[i]
                             \/ entry'.ipAddrs[i] = NoIp
         /\ ~hasARP => \/ entry'.ipAddrs[ip].pending = 0
                       \/ /\ Known /\ entry.ipAddrs[ip] # NoIp
                          /\ entry'.ipAddrs[ip].pending = entry.ipAddrs[ip].pending
<1> DEFINE e == [Located EXCEPT !.seen = 0]
           old == e.ipAddrs[ip]
           now == IF old = NoIp THEN IpEntry(hasARP) ELSE [old EXCEPT !.seen = 0]
           new == [now EXCEPT !.pending = IF hasARP THEN received(@) ELSE @]
<1>1. at \in Place /\ ip \in Ip
  BY DEF TrackerInv
<1>2. Located \in MacEntries
  <2>1. MacEntry(at) \in MacEntries
    <3>1. [i \in Ip |-> NoIp] \in [Ip -> IpEntries \cup {NoIp}]
      OBVIOUS
    <3> QED
      BY <1>1, <3>1 DEF MacEntry, MacEntries
  <2>2. Known => [entry EXCEPT !.dpid = at[1]] \in MacEntries /\ entry \in MacEntries
    BY <1>1 DEF Known, TrackerInv, MacEntries
  <2> QED
    BY <2>1, <2>2 DEF Located
<1>3. Located.ipAddrs = IF Known THEN entry.ipAddrs ELSE [i \in Ip |-> NoIp]
  <2>1. Known => entry \in MacEntries
    BY DEF Known, TrackerInv
  <2> QED
    BY <2>1 DEF Located, MacEntry, MacEntries
<1>4. e \in MacEntries /\ e.seen = 0 /\ e.ipAddrs = Located.ipAddrs
  BY <1>2 DEF MacEntries
<1>5. old \in IpEntries \cup {NoIp}
  BY <1>1, <1>4 DEF MacEntries
<1>6. entry' = [e EXCEPT !.ipAddrs[ip] = new]
  BY DEF _handle_openflow_PacketIn, updateIPInfo
<1> HIDE DEF e
<1> HIDE DEF old
<1>7. /\ now \in IpEntries
      /\ now.pending = IF old = NoIp THEN 0 ELSE old.pending
  BY <1>5 DEF IpEntry, IpEntries
<1> HIDE DEF now
<1>8. /\ new \in IpEntries
      /\ new.pending = IF hasARP THEN 0 ELSE now.pending
  BY <1>7 DEF IpEntries, received
<1> HIDE DEF new
<1>9. /\ entry' \in MacEntries /\ entry'.seen = 0
      /\ entry'.ipAddrs[ip] = new
      /\ \A i \in Ip \ {ip} : entry'.ipAddrs[i] = e.ipAddrs[i]
  BY <1>1, <1>4, <1>6, <1>8 DEF MacEntries
<1>10. \A i \in Ip : entry'.ipAddrs[i] # NoIp => entry'.ipAddrs[i].seen >= 0
  BY <1>9 DEF MacEntries, IpEntries
<1>11. old = IF Known THEN entry.ipAddrs[ip] ELSE NoIp
  BY <1>1, <1>3, <1>4 DEF old
<1>12. \A i \in Ip \ {ip} : e.ipAddrs[i] = IF Known THEN entry.ipAddrs[i] ELSE NoIp
  BY <1>3, <1>4
<1> QED
  BY <1>7, <1>8, <1>9, <1>10, <1>11, <1>12

\* A packet keeps the invariant.
LEMMA PacketKeeps ==
  ASSUME TrackerInv, NEW hasARP \in BOOLEAN, _handle_openflow_PacketIn(hasARP),
         missed' = IF hasARP THEN missed \ {ip} ELSE missed,
         pings \ {<<at, ip>>} \subseteq pings', ~hasARP => pings' = pings,
         UNCHANGED <<at, ip>>
  PROVE  TrackerInv' /\ entry' # NoEntry /\ entry'.ipAddrs[ip] # NoIp
<1>1. entry' # NoEntry /\ entry'.ipAddrs[ip] # NoIp /\ entry' \in MacEntries
  BY PacketTells, EntriesApart
<1>2. ASSUME NEW i \in Ip PROVE AddressInv(i)'
  <2> SUFFICES ASSUME entry'.ipAddrs[i] # NoIp
               PROVE  /\ entry'.ipAddrs[i].seen >= entry'.seen
                      /\ i \notin missed' => \/ entry'.ipAddrs[i].pending = 0
                                             \/ \E p : <<p, i>> \in pings'
    BY DEF AddressInv
  <2>1. entry'.ipAddrs[i].seen >= entry'.seen
    BY PacketTells
  <2>2. ASSUME i \notin missed'
        PROVE  entry'.ipAddrs[i].pending = 0 \/ \E p : <<p, i>> \in pings'
    <3>1. CASE i = ip /\ hasARP
      BY <3>1, PacketTells
    <3>2. CASE i = ip /\ ~hasARP
      <4>1. \/ entry'.ipAddrs[ip].pending = 0
            \/ /\ Known /\ entry.ipAddrs[ip] # NoIp
               /\ entry'.ipAddrs[ip].pending = entry.ipAddrs[ip].pending
        BY <3>2, PacketTells
      <4>2. i \notin missed /\ pings' = pings
        BY <2>2, <3>2
      <4> QED
        BY <3>2, <4>1, <4>2 DEF TrackerInv, AddressInv
    <3>3. CASE i # ip
      <4>1. Known /\ entry'.ipAddrs[i] = entry.ipAddrs[i] /\ i \notin missed
        BY <2>2, <3>3, PacketTells
      <4>2. \A p : <<p, i>> \in pings => <<p, i>> \in pings'
        BY <3>3
      <4> QED
        BY <4>1, <4>2 DEF TrackerInv, AddressInv
    <3> QED
      BY <3>1, <3>2, <3>3
  <2> QED
    BY <2>1, <2>2
<1> QED
  BY <1>1, <1>2 DEF TrackerInv

\* Older keeps the order.
LEMMA OlderKeepsOrder ==
  ASSUME TimesAreNatural, NEW a \in Nat, NEW b \in Nat, a >= b
  PROVE  Older(a) \in Nat /\ Older(b) \in Nat /\ Older(a) >= Older(b)
BY DEF TimesAreNatural, Older

\* A round that does not give the host up makes it older, and each of its addresses.
LEMMA RoundOfEntry ==
  ASSUME TrackerInv, _check_timeouts, entry.seen >= arpAware => Pinged # {}
  PROVE  /\ entry' = [entry EXCEPT !.seen = Older(entry.seen),
                        !.ipAddrs = [i \in Ip |-> AgedAddress(Checked(entry.ipAddrs[i]))]]
         /\ entry'.seen = Older(entry.seen) /\ entry' # NoEntry
         /\ \A i \in Ip : entry'.ipAddrs[i] = AgedAddress(Checked(entry.ipAddrs[i]))
<1> DEFINE addrs == [i \in Ip |-> Checked(entry.ipAddrs[i])]
           checked == [entry EXCEPT !.ipAddrs = addrs]
           aged == [i \in Ip |-> AgedAddress(addrs[i])]
<1>1. entry \in MacEntries
  BY DEF TrackerInv, _check_timeouts, Known
<1>2. checked.ipAddrs = addrs /\ checked.seen = entry.seen
  BY <1>1 DEF MacEntries
<1>3. entry' = Aged(checked)
  BY DEF _check_timeouts
<1>4. entry' = [checked EXCEPT !.seen = Older(checked.seen),
                 !.ipAddrs = [i \in Ip |-> AgedAddress(checked.ipAddrs[i])]]
  BY <1>3 DEF Aged
<1>5. [i \in Ip |-> AgedAddress(checked.ipAddrs[i])] = aged
  BY <1>2
<1>6. entry' = [checked EXCEPT !.seen = Older(entry.seen), !.ipAddrs = aged]
  BY <1>2, <1>4, <1>5
<1>7. aged = [i \in Ip |-> AgedAddress(Checked(entry.ipAddrs[i]))]
  OBVIOUS
<1> HIDE DEF aged, addrs
<1>8. entry' = [entry EXCEPT !.seen = Older(entry.seen), !.ipAddrs = aged]
  BY <1>1, <1>6 DEF MacEntries
<1>9. entry'.seen = Older(entry.seen) /\ entry'.ipAddrs = aged
  BY <1>1, <1>8 DEF MacEntries
<1>10. DOMAIN entry' = {"dpid", "port", "seen", "ipAddrs"} /\ DOMAIN NoEntry = {"dpid"}
  BY <1>1, <1>8 DEF MacEntries, NoEntry
<1>11. entry' # NoEntry
  <2>1. "port" \in DOMAIN entry' /\ "port" \notin DOMAIN NoEntry
    BY <1>10
  <2> QED
    BY <2>1
<1>12. \A i \in Ip : entry'.ipAddrs[i] = AgedAddress(Checked(entry.ipAddrs[i]))
  BY <1>7, <1>9
<1> QED
  BY <1>7, <1>8, <1>9, <1>11, <1>12

\* What a round makes of one address: one that has lost no ping is not given up while its
\* switch is connected, and what it is pinged for is counted.
LEMMA RoundOfAddress ==
  ASSUME TimesAreNatural, TrackerInv, _check_timeouts, entry' # NoEntry, NEW i \in Ip
  PROVE  /\ entry'.ipAddrs[i] \in IpEntries \cup {NoIp}
         /\ AddressInv(i)'
<1> DEFINE e == entry.ipAddrs[i]
           c == Checked(e)
           n == AgedAddress(c)
<1>1. entry \in MacEntries /\ Known
  BY DEF TrackerInv, _check_timeouts, Known
<1>2. /\ e \in IpEntries \cup {NoIp} /\ entry.seen \in Nat
      /\ AddressInv(i)
  BY <1>1 DEF TrackerInv, MacEntries
<1>3. entry'.ipAddrs[i] = n /\ entry'.seen = Older(entry.seen)
  <2>1. entry.seen >= arpAware => Pinged # {}
    BY DEF _check_timeouts
  <2> QED
    BY <2>1, RoundOfEntry
<1>4. \/ c = e /\ ~Expired(e)
      \/ c = NoIp /\ Expired(e) /\ (failed(e) \/ entry.dpid \notin connected)
      \/ /\ c = [e EXCEPT !.pending = @ + 2] /\ Expired(e) /\ ~failed(e)
         /\ entry.dpid \in connected
  BY DEF Checked
<1>5. /\ c \in IpEntries \cup {NoIp}
      /\ c # NoIp => e \in IpEntries /\ e # NoIp /\ c.seen = e.seen
  BY <1>2, <1>4, EntriesApart DEF Expired, IpEntries
<1> HIDE DEF c
<1>6. /\ n \in IpEntries \cup {NoIp}
      /\ n # NoIp => /\ c # NoIp /\ n.seen = Older(e.seen) /\ n.pending = c.pending
  <2>1. CASE c = NoIp
    BY <2>1 DEF AgedAddress
  <2>2. CASE c # NoIp
    <3>1. c \in IpEntries /\ Older(c.seen) \in Nat
      BY <1>5, <2>2, OlderKeepsOrder DEF IpEntries
    <3> QED
      BY <1>5, <2>2, <3>1 DEF IpEntries, AgedAddress
  <2> QED
    BY <2>1, <2>2
<1>7. ASSUME n # NoIp PROVE n.seen >= Older(entry.seen)
  <2>1. e \in IpEntries /\ e # NoIp /\ e.seen >= entry.seen /\ e.seen \in Nat
    BY <1>2, <1>5, <1>6, <1>7 DEF AddressInv, IpEntries
  <2> QED
    BY <1>2, <1>6, <1>7, <2>1, OlderKeepsOrder
<1>8. ASSUME n # NoIp, i \notin missed'
      PROVE  n.pending = 0 \/ \E p : <<p, i>> \in pings'
  <2>1. i \notin missed /\ \A p : <<p, i>> \notin pings
    BY <1>8 DEF _check_timeouts
  <2>2. e # NoIp /\ e.pending = 0 /\ c # NoIp /\ n.pending = c.pending
    BY <1>2, <1>5, <1>6, <1>8, <2>1 DEF AddressInv
  <2>3. CASE c = e
    BY <2>2, <2>3
  <2>4. CASE Expired(e) /\ ~failed(e) /\ entry.dpid \in connected
    <3>1. i \in Pinged
      BY <2>4 DEF Pinged
    <3>2. pings' = {<<<<entry.dpid, entry.port>>, j>> : j \in Pinged}
      BY <2>4 DEF _check_timeouts
    <3>3. <<<<entry.dpid, entry.port>>, i>> \in pings'
      BY <3>1, <3>2
    <3> QED
      BY <3>3
  <2> QED
    BY <1>4, <2>2, <2>3, <2>4
<1> HIDE DEF n
<1> QED
  BY <1>3, <1>6, <1>7, <1>8 DEF AddressInv

\* A round keeps the invariant.
LEMMA RoundKeeps ==
  ASSUME TimesAreNatural, TrackerInv, _check_timeouts
  PROVE  TrackerInv'
<1>1. UNCHANGED <<at, ip>> /\ entry \in MacEntries
  BY DEF _check_timeouts, TrackerInv, Known
<1>2. CASE entry' = NoEntry
  BY <1>1, <1>2 DEF TrackerInv, Known
<1>3. CASE entry' # NoEntry
  <2> DEFINE aged == [j \in Ip |-> AgedAddress(Checked(entry.ipAddrs[j]))]
  <2>1. entry.seen >= arpAware => Pinged # {}
    BY <1>3 DEF _check_timeouts
  <2>2. /\ entry' = [entry EXCEPT !.seen = Older(entry.seen), !.ipAddrs = aged]
        /\ \A j \in Ip : entry'.ipAddrs[j] = aged[j]
    BY <2>1, RoundOfEntry
  <2>3. ASSUME NEW j \in Ip PROVE aged[j] \in IpEntries \cup {NoIp}
    BY <1>3, <2>2, RoundOfAddress
  <2>4. aged \in [Ip -> IpEntries \cup {NoIp}]
    BY <2>3
  <2> HIDE DEF aged
  <2>5. Older(entry.seen) \in Nat /\ entry.seen \in Nat
    BY <1>1, OlderKeepsOrder DEF MacEntries
  <2>6. entry' \in MacEntries
    BY <1>1, <2>2, <2>4, <2>5 DEF MacEntries
  <2> QED
    BY <1>1, <1>3, <2>6, RoundOfAddress DEF TrackerInv
<1> QED
  BY <1>2, <1>3

\* A round gives up neither the host nor its address, when that has lost no ping.
LEMMA RoundStays ==
  ASSUME TimesAreNatural, TrackerInv, _check_timeouts,
         entry.ipAddrs[ip].hasARP, entry.dpid \in connected, ip \notin missed'
  PROVE  entry' # NoEntry /\ entry'.ipAddrs[ip] # NoIp
<1> DEFINE e == entry.ipAddrs[ip]
<1>1. /\ entry \in MacEntries /\ ip \in Ip /\ AddressInv(ip)
      /\ e \in IpEntries \cup {NoIp} /\ entry.seen \in Nat
  BY DEF TrackerInv, _check_timeouts, Known, MacEntries
<1>2. e \in IpEntries /\ e # NoIp
  BY <1>1, EntriesApart DEF NoIp
<1>3. ip \notin missed /\ \A p : <<p, ip>> \notin pings
  BY DEF _check_timeouts
<1>4. e.pending = 0 /\ e.seen >= entry.seen /\ e.seen \in Nat
  BY <1>1, <1>2, <1>3 DEF AddressInv, IpEntries
<1>5. ~failed(e) /\ (entry.seen >= arpAware => Expired(e))
  BY <1>1, <1>2, <1>4 DEF TimesAreNatural, failed, Expired, Interval
<1>6. entry.seen >= arpAware => ip \in Pinged
  BY <1>1, <1>5 DEF Pinged
<1>7. entry' # NoEntry /\ entry'.ipAddrs[ip] = AgedAddress(Checked(e))
  BY <1>1, <1>6, RoundOfEntry
<1> DEFINE c == Checked(e)
<1>8. c \in IpEntries
  <2>1. c = e \/ c = [e EXCEPT !.pending = @ + 2]
    BY <1>5 DEF Checked
  <2> QED
    BY <1>2, <2>1 DEF IpEntries
<1>9. c # NoIp /\ c.seen \in Nat /\ Older(c.seen) \in Nat
  BY <1>8, EntriesApart, OlderKeepsOrder DEF IpEntries
<1> HIDE DEF c
<1>10. AgedAddress(c) \in IpEntries
  BY <1>8, <1>9 DEF IpEntries, AgedAddress
<1> QED
  BY <1>7, <1>10, EntriesApart DEF c

-----------------------------------------------------------------------------
\* Nothing is known at the start.
LEMMA InitTracker == Init => TrackerInv
BY DEF Init, TrackerInv, Known

\* A packet of the host.
LEMMA SpeaksKeeps ==
  ASSUME TrackerInv, Speaks \/ Answers
  PROVE  TrackerInv' /\ entry' # NoEntry /\ entry'.ipAddrs[ip] # NoIp
<1>1. CASE Speaks
  BY <1>1, PacketKeeps DEF Speaks
<1>2. CASE Answers
  BY <1>2, PacketKeeps DEF Answers
<1> QED
  BY <1>1, <1>2

\* Every step keeps the invariant.
LEMMA NextTracker == ASSUME TimesAreNatural PROVE TrackerInv /\ [Next]_vars => TrackerInv'
<1> SUFFICES ASSUME TrackerInv, [Next]_vars PROVE TrackerInv'
  OBVIOUS
<1>1. CASE MovesOrChanges
  BY <1>1 DEF MovesOrChanges, TrackerInv, Known, AddressInv
<1>2. CASE UNCHANGED vars
  BY <1>2 DEF vars, TrackerInv, Known, AddressInv
<1> QED
  BY <1>1, <1>2, SpeaksKeeps, RoundKeeps DEF Next

\* No step takes a host away that answers, or its address.
LEMMA StaysStep == ASSUME TimesAreNatural PROVE TrackerInv /\ Next => HostStays
<1> SUFFICES ASSUME TrackerInv, Next PROVE HostStays
  OBVIOUS
<1>1. CASE Speaks \/ Answers
  <2>1. entry' # NoEntry /\ entry'.ipAddrs[ip] # NoIp
    BY <1>1, SpeaksKeeps
  <2> QED
    BY <2>1 DEF HostStays
<1>2. CASE MovesOrChanges
  <2>1. entry' = entry
    BY <1>2 DEF MovesOrChanges
  <2>2. entry.ipAddrs[ip].hasARP => entry.ipAddrs[ip] # NoIp
    BY DEF NoIp
  <2> QED
    BY <2>1, <2>2 DEF HostStays, Known
<1>3. CASE _check_timeouts
  BY <1>3, RoundStays DEF HostStays
<1> QED
  BY <1>1, <1>2, <1>3 DEF Next

\* A host that answers every ping, where the tracker has it, is never given up, and neither is
\* its address (host_tracker._check_timeouts, updateIPInfo, sendPing).
THEOREM HostStaysCorrect == ASSUME TimesAreNatural PROVE Spec => [][HostStays]_vars
<1>1. TrackerInv /\ [Next]_vars => [HostStays]_vars
  BY StaysStep
<1> QED
  BY <1>1, InitTracker, NextTracker, PTL DEF Spec

-----------------------------------------------------------------------------
(* L3Learning                                                              *)

\* The limit of a bucket is a natural number.
BucketLimited == MAX_BUFFERED_PER_IP \in Nat

Out == Port \cup {Unknown, OFPP_NONE}
Matches == [dst : Addr] \cup [in : Port, src : Addr, dst : Addr]
Packet == {p \in [kind : {"ip", "arp"}, in : Port, src : Addr, dst : Addr, buf : Nat] : p.src # p.dst}
Mod == [kind : {"mod"}, match : Matches, out : Out, buf : Nat]
Delete == [kind : {"delete"}, dst : Addr, buf : {NoBuffer}]
Other == [kind : {"packet_out"}, buf : Nat, out : Out] \cup [kind : {"flood", "answer"}, buf : {NoBuffer}]
Order == Mod \cup Delete \cup Other

LearningTypes ==
  /\ wide \in BOOLEAN /\ packets \in Nat
  /\ arpTable \in [Addr -> Out] /\ lost_buffers \in [Addr -> Seq(Nat)]
  /\ where \in [Addr \ Fakeway -> Port]
  /\ toCtl \in Seq(Packet) /\ toSw \in Seq(Order) /\ used \in Seq(Nat \ {NoBuffer})
  /\ table \subseteq [match : Matches, out : Out]

\* Buffers, in the order of what has them.
Bufs(ms) == [k \in DOMAIN ms |-> ms[k].buf]
Holds(s, b) == \E k \in DOMAIN s : s[k] = b
Once(s) == \A j, k \in DOMAIN s : s[j] = s[k] /\ s[j] # NoBuffer => j = k
Disjoint(s, t) == \A b : b # NoBuffer => ~(Holds(s, b) /\ Holds(t, b))

\* Where buffer b is: known to the switch alone (that is, on the way to the controller),
\* waiting for the address i, about to be released, or released.
In(b, p, i) ==
  \/ p = "toCtl" /\ i = 0 /\ Holds(Bufs(toCtl), b)
  \/ p = "waits" /\ i \in Addr /\ Holds(lost_buffers[i], b)
  \/ p = "toSw" /\ i = 0 /\ Holds(Bufs(toSw), b)
  \/ p = "used" /\ i = 0 /\ Holds(used, b)

EachOnce ==
  /\ Once(Bufs(toCtl)) /\ Once(Bufs(toSw)) /\ Once(used)
  /\ \A i \in Addr : Once(lost_buffers[i])

Apart ==
  \A b \in Nat \ {NoBuffer} : \A p, q, i, j : In(b, p, i) /\ In(b, q, j) => p = q /\ i = j

Given == \A b \in Nat \ {NoBuffer} : \A p, i : In(b, p, i) => b <= packets

BuffersInv == EachOnce /\ Apart /\ Given

NoneWaits == \A i \in Addr : arpTable[i] # Unknown => lost_buffers[i] = <<>>

\* After its k-th message the switch is told to delete the flows to d.
Deletes(ms, k, d) == \E j \in DOMAIN ms : j > k /\ ms[j].kind = "delete" /\ ms[j].dst = d

\* A flow leads to where the address was seen last, or is about to be deleted.
Follows(f, ms, k) ==
  f.out # Unknown /\ (f.out = arpTable[f.match.dst] \/ Deletes(ms, k, f.match.dst))

FlowsInv ==
  wide => /\ \A f \in table : Follows(f, toSw, 0)
          /\ \A k \in DOMAIN toSw : toSw[k].kind = "mod" => Follows(toSw[k], toSw, k)

LearningInv == LearningTypes /\ BuffersInv /\ NoneWaits /\ FlowsInv

-----------------------------------------------------------------------------
(* Sequences of buffers.                                                   *)

\* What two sequences one behind the other hold.
LEMMA Joined ==
  ASSUME NEW S, NEW s \in Seq(S), NEW t \in Seq(S)
  PROVE  /\ s \o t \in Seq(S)
         /\ \A b : Holds(s \o t, b) <=> Holds(s, b) \/ Holds(t, b)
         /\ Once(s) /\ Once(t) /\ Disjoint(s, t) => Once(s \o t)
<1> DEFINE r == s \o t
<1>1. /\ Len(s) \in Nat /\ Len(t) \in Nat /\ DOMAIN s = 1..Len(s) /\ DOMAIN t = 1..Len(t)
      /\ r \in Seq(S) /\ Len(r) = Len(s) + Len(t) /\ DOMAIN r = 1..(Len(s) + Len(t))
  OBVIOUS
<1>2. /\ \A k \in DOMAIN s : k \in DOMAIN r /\ r[k] = s[k]
      /\ \A k \in DOMAIN t : Len(s) + k \in DOMAIN r /\ r[Len(s) + k] = t[k]
  <2>1. \A i \in 1..(Len(s) + Len(t)) : r[i] = IF i <= Len(s) THEN s[i] ELSE t[i - Len(s)]
    BY ConcatProperties
  <2> HIDE DEF r
  <2> QED
    BY <1>1, <2>1
<1> HIDE DEF r
<1>3. \A k \in DOMAIN r : k \in DOMAIN s \/ \E l \in DOMAIN t : k = Len(s) + l
  <2>1. ASSUME NEW k \in DOMAIN r, k \notin DOMAIN s
        PROVE  k - Len(s) \in DOMAIN t /\ k = Len(s) + (k - Len(s))
    BY <1>1, <2>1
  <2> QED
    BY <2>1
<1>4. ASSUME NEW b PROVE Holds(r, b) <=> Holds(s, b) \/ Holds(t, b)
  BY <1>2, <1>3 DEF Holds
<1>5. ASSUME Once(s), Once(t), Disjoint(s, t) PROVE Once(r)
  <2> SUFFICES ASSUME NEW j \in DOMAIN r, NEW k \in DOMAIN r, r[j] = r[k], r[j] # NoBuffer
               PROVE  j = k
    BY DEF Once
  <2>1. ASSUME NEW x \in DOMAIN r, NEW y \in DOMAIN r, r[x] = r[y], r[x] # NoBuffer,
               x \in DOMAIN s, y \notin DOMAIN s
        PROVE  FALSE
    <3>1. Holds(s, r[x])
      BY <1>2, <2>1 DEF Holds
    <3>2. Holds(t, r[y])
      BY <1>2, <1>3, <2>1 DEF Holds
    <3> QED
      BY <1>5, <2>1, <3>1, <3>2 DEF Disjoint
  <2>2. CASE j \in DOMAIN s /\ k \in DOMAIN s
    BY <1>2, <1>5, <2>2 DEF Once
  <2>3. CASE j \in DOMAIN s /\ k \notin DOMAIN s
    BY <2>1, <2>3
  <2>4. CASE j \notin DOMAIN s /\ k \in DOMAIN s
    BY <2>1, <2>4
  <2>5. CASE j \notin DOMAIN s /\ k \notin DOMAIN s
    BY <1>2, <1>3, <1>5, <2>5 DEF Once
  <2> QED
    BY <2>2, <2>3, <2>4, <2>5
<1> QED
  BY <1>1, <1>4, <1>5 DEF r

\* The first of a sequence, and the others.
LEMMA Taken ==
  ASSUME NEW s \in Seq(Nat), s # <<>>
  PROVE  /\ Tail(s) \in Seq(Nat) /\ Head(s) \in Nat
         /\ \A b : Holds(s, b) <=> b = Head(s) \/ Holds(Tail(s), b)
         /\ Once(s) => Once(Tail(s)) /\ (Head(s) # NoBuffer => ~Holds(Tail(s), Head(s)))
<1> DEFINE t == Tail(s)
<1>1. /\ Len(s) \in Nat \ {0} /\ DOMAIN s = 1..Len(s) /\ DOMAIN t = 1..(Len(s) - 1)
      /\ t \in Seq(Nat) /\ Head(s) = s[1] /\ Head(s) \in Nat
      /\ \A k \in 1..(Len(s) - 1) : t[k] = s[k + 1]
  OBVIOUS
<1> HIDE DEF t
<1>2. 1 \in DOMAIN s /\ \A k \in DOMAIN t : k + 1 \in DOMAIN s /\ k + 1 # 1 /\ t[k] = s[k + 1]
  BY <1>1
<1>3. \A k \in DOMAIN s : k = 1 \/ (k - 1 \in DOMAIN t /\ t[k - 1] = s[k])
  BY <1>1
<1>4. ASSUME NEW b PROVE Holds(s, b) <=> b = Head(s) \/ Holds(t, b)
  BY <1>1, <1>2, <1>3 DEF Holds
<1>5. ASSUME Once(s) PROVE Once(t)
  <2> SUFFICES ASSUME NEW j \in DOMAIN t, NEW k \in DOMAIN t, t[j] = t[k], t[j] # NoBuffer
               PROVE  j = k
    BY DEF Once
  <2>1. j + 1 = k + 1 /\ j \in Int /\ k \in Int
    BY <1>1, <1>2, <1>5 DEF Once
  <2> QED
    BY <2>1
<1>6. ASSUME Once(s), Head(s) # NoBuffer PROVE ~Holds(t, Head(s))
  BY <1>1, <1>2, <1>6 DEF Once, Holds
<1> QED
  BY <1>1, <1>4, <1>5, <1>6 DEF t

\* A sequence cut in two.
LEMMA Parts ==
  ASSUME NEW s \in Seq(Nat), NEW n \in 0..Len(s), Once(s)
  PROVE  LET a == SubSeq(s, 1, n)
             b == SubSeq(s, n + 1, Len(s))
         IN  /\ a \in Seq(Nat) /\ b \in Seq(Nat) /\ Once(a) /\ Once(b) /\ Disjoint(a, b)
             /\ \A x : Holds(a, x) \/ Holds(b, x) <=> Holds(s, x)
             /\ Len(a) = n /\ \A k \in 1..n : a[k] = s[k]
<1> DEFINE a == SubSeq(s, 1, n)
           b == SubSeq(s, n + 1, Len(s))
<1>1. PICK l \in Nat : l = Len(s) /\ n \in Nat /\ n <= l /\ DOMAIN s = 1..l /\ \A k \in 1..l : s[k] \in Nat
  OBVIOUS
<1>2. /\ a \in Seq(Nat) /\ Len(a) = n /\ \A k \in 1..n : a[k] = s[k]
  <2>1. 1 \in Int /\ n \in Int /\ \A k \in 1..n : s[k] \in Nat
    BY <1>1
  <2>2. /\ a \in Seq(Nat) /\ Len(a) = IF 1 <= n THEN n - 1 + 1 ELSE 0
        /\ \A k \in 1..(n - 1 + 1) : a[k] = s[1 + k - 1]
    BY <2>1, SubSeqProperties, SMTT(20)
  <2> HIDE DEF a, b
  <2>3. ASSUME NEW k \in 1..n PROVE k \in 1..(n - 1 + 1) /\ 1 + k - 1 = k
    BY <1>1
  <2>4. Len(a) = n
    BY <1>1, <2>2
  <2>5. ASSUME NEW k \in 1..n PROVE a[k] = s[k]
    BY <2>2, <2>3
  <2> QED
    BY <2>2, <2>4, <2>5
<1>3. /\ b \in Seq(Nat) /\ Len(b) = l - n /\ \A k \in 1..(l - n) : b[k] = s[n + k]
  <2>1. n + 1 \in Int /\ Len(s) \in Int /\ \A k \in (n + 1)..Len(s) : s[k] \in Nat
    BY <1>1
  <2>2. /\ b \in Seq(Nat)
        /\ Len(b) = IF n + 1 <= Len(s) THEN Len(s) - (n + 1) + 1 ELSE 0
        /\ \A k \in 1..(Len(s) - (n + 1) + 1) : b[k] = s[n + 1 + k - 1]
    BY <2>1, SubSeqProperties, SMTT(20)
  <2> HIDE DEF a, b
  <2>3. /\ Len(b) = IF n + 1 <= l THEN l - (n + 1) + 1 ELSE 0
        /\ \A k \in 1..(l - (n + 1) + 1) : b[k] = s[n + 1 + k - 1]
    BY <1>1, <2>2, Zenon
  <2>4. l - (n + 1) + 1 = l - n /\ (~(n + 1 <= l) => l - n = 0)
    BY <1>1
  <2>5. Len(b) = l - n
    BY <2>3, <2>4
  <2>6. ASSUME NEW k \in 1..(l - n) PROVE b[k] = s[n + k]
    <3>1. n + 1 + k - 1 = n + k
      BY <1>1
    <3> QED
      BY <2>3, <2>4, <3>1
  <2> QED
    BY <2>2, <2>5, <2>6
<1> HIDE DEF a, b
<1>4. /\ \A k \in DOMAIN a : k \in DOMAIN s /\ k \in 1..n /\ a[k] = s[k]
      /\ \A k \in DOMAIN b : n + k \in DOMAIN s /\ n + k \notin 1..n /\ b[k] = s[n + k]
      /\ DOMAIN a = 1..n /\ DOMAIN b = 1..(l - n)
  <2>1. DOMAIN a = 1..n /\ DOMAIN b = 1..(l - n)
    BY <1>2, <1>3
  <2>2. ASSUME NEW k \in 1..n PROVE k \in DOMAIN s
    BY <1>1
  <2>3. ASSUME NEW k \in 1..(l - n) PROVE n + k \in DOMAIN s /\ n + k \notin 1..n
    BY <1>1
  <2> QED
    BY <1>2, <1>3, <2>1, <2>2, <2>3
<1>5. \A k \in DOMAIN s : k \in DOMAIN a \/ (k - n \in DOMAIN b /\ b[k - n] = s[k])
  <2>1. ASSUME NEW k \in 1..l, k \notin 1..n PROVE k - n \in 1..(l - n) /\ n + (k - n) = k
    BY <1>1, <2>1
  <2> QED
    BY <1>1, <1>3, <1>4, <2>1
<1>6. Once(a)
  BY <1>4 DEF Once
<1>7. Once(b)
  <2> SUFFICES ASSUME NEW j \in DOMAIN b, NEW k \in DOMAIN b, b[j] = b[k], b[j] # NoBuffer
               PROVE  j = k
    BY DEF Once
  <2>1. n + j = n + k /\ j \in Int /\ k \in Int
    BY <1>3, <1>4 DEF Once
  <2> QED
    BY <1>1, <2>1
<1>8. Disjoint(a, b)
  <2> SUFFICES ASSUME NEW j \in DOMAIN a, NEW k \in DOMAIN b, a[j] = b[k], a[j] # NoBuffer
               PROVE  FALSE
    BY DEF Disjoint, Holds
  <2>1. j = n + k
    BY <1>4 DEF Once
  <2> QED
    BY <1>3, <1>4, <2>1
<1>9. ASSUME NEW x PROVE Holds(a, x) \/ Holds(b, x) <=> Holds(s, x)
  BY <1>4, <1>5 DEF Holds
<1> QED
  BY <1>2, <1>6, <1>7, <1>8, <1>9 DEF a, b

\* The buffers of messages.
LEMMA BufsOf ==
  ASSUME NEW M, \A m \in M : m.buf \in Nat, NEW ms \in Seq(M)
  PROVE  /\ Bufs(ms) \in Seq(Nat) /\ Len(Bufs(ms)) = Len(ms) /\ DOMAIN Bufs(ms) = DOMAIN ms
         /\ \A k \in DOMAIN ms : Bufs(ms)[k] = ms[k].buf
<1>1. /\ Len(ms) \in Nat /\ DOMAIN ms = 1..Len(ms) /\ \A k \in 1..Len(ms) : ms[k] \in M
  OBVIOUS
<1>2. Bufs(ms) = [k \in 1..Len(ms) |-> ms[k].buf]
  BY <1>1 DEF Bufs
<1> QED
  BY <1>1, <1>2

\* The buffer of the first message, and those of the others.
LEMMA BufsTaken ==
  ASSUME NEW M, \A m \in M : m.buf \in Nat, NEW ms \in Seq(M), ms # <<>>
  PROVE  /\ Bufs(ms) # <<>> /\ Head(Bufs(ms)) = Head(ms).buf
         /\ Bufs(Tail(ms)) = Tail(Bufs(ms))
<1> DEFINE t == Tail(ms)
           a == Bufs(ms)
           b == Bufs(t)
<1>1. /\ Len(ms) \in Nat \ {0} /\ DOMAIN ms = 1..Len(ms) /\ Head(ms) = ms[1]
      /\ t \in Seq(M) /\ Len(t) = Len(ms) - 1 /\ DOMAIN t = 1..(Len(ms) - 1)
      /\ \A k \in 1..(Len(ms) - 1) : t[k] = ms[k + 1]
  OBVIOUS
<1>2. /\ a \in Seq(Nat) /\ Len(a) = Len(ms) /\ \A k \in DOMAIN ms : a[k] = ms[k].buf
      /\ b \in Seq(Nat) /\ Len(b) = Len(t) /\ \A k \in DOMAIN t : b[k] = t[k].buf
  BY <1>1, BufsOf
<1> HIDE DEF a, b, t
<1>3. /\ a # <<>> /\ Head(a) = a[1] /\ Tail(a) \in Seq(Nat) /\ Len(Tail(a)) = Len(a) - 1
      /\ \A k \in 1..(Len(a) - 1) : Tail(a)[k] = a[k + 1]
  BY <1>1, <1>2
<1>4. \A k \in 1..(Len(ms) - 1) : k \in DOMAIN t /\ k + 1 \in DOMAIN ms
  BY <1>1
<1>5. \A k \in 1..Len(b) : b[k] = Tail(a)[k]
  BY <1>1, <1>2, <1>3, <1>4
<1>6. b = Tail(a)
  BY <1>1, <1>2, <1>3, <1>5, SeqEqual
<1>7. Head(a) = Head(ms).buf
  <2>1. 1 \in DOMAIN ms
    BY <1>1
  <2> QED
    BY <1>1, <1>2, <1>3, <2>1
<1> QED
  BY <1>3, <1>6, <1>7 DEF a, b, t

\* The buffers of messages that follow others.
LEMMA BufsJoined ==
  ASSUME NEW M, \A m \in M : m.buf \in Nat, NEW ms \in Seq(M), NEW ns \in Seq(M)
  PROVE  Bufs(ms \o ns) = Bufs(ms) \o Bufs(ns)
<1> DEFINE a == Bufs(ms)
           b == Bufs(ns)
           r == ms \o ns
           c == Bufs(r)
<1>1. /\ Len(ms) \in Nat /\ Len(ns) \in Nat /\ r \in Seq(M) /\ Len(r) = Len(ms) + Len(ns)
      /\ DOMAIN ms = 1..Len(ms) /\ DOMAIN ns = 1..Len(ns)
      /\ DOMAIN r = 1..(Len(ms) + Len(ns))
  OBVIOUS
<1>2. \A i \in 1..(Len(ms) + Len(ns)) :
        r[i] = IF i <= Len(ms) THEN ms[i] ELSE ns[i - Len(ms)]
  BY ConcatProperties
<1>3. /\ a \in Seq(Nat) /\ Len(a) = Len(ms) /\ \A k \in 1..Len(ms) : a[k] = ms[k].buf
      /\ b \in Seq(Nat) /\ Len(b) = Len(ns) /\ \A k \in 1..Len(ns) : b[k] = ns[k].buf
      /\ c \in Seq(Nat) /\ Len(c) = Len(r) /\ \A k \in 1..Len(r) : c[k] = r[k].buf
  BY <1>1, BufsOf
<1> HIDE DEF a, b, c, r
<1>0. a \in Seq(Nat) /\ b \in Seq(Nat)
  BY <1>3
<1>4. /\ a \o b \in Seq(Nat) /\ Len(a \o b) = Len(a) + Len(b)
      /\ \A i \in 1..(Len(a) + Len(b)) :
           (a \o b)[i] = IF i <= Len(a) THEN a[i] ELSE b[i - Len(a)]
  BY <1>0, ConcatProperties
<1> DEFINE ab == a \o b
<1>5. /\ ab \in Seq(Nat) /\ Len(ab) = Len(a) + Len(b)
      /\ \A i \in 1..(Len(a) + Len(b)) : ab[i] = IF i <= Len(a) THEN a[i] ELSE b[i - Len(a)]
  BY <1>4
<1> HIDE DEF ab
<1>6. ASSUME NEW i \in 1..Len(r) PROVE c[i] = ab[i]
  <2>1. CASE i <= Len(ms)
    <3>1. i \in 1..Len(ms)
      BY <1>1, <2>1
    <3> QED
      BY <1>1, <1>2, <1>3, <1>5, <2>1, <3>1
  <2>2. CASE ~(i <= Len(ms))
    <3>1. i - Len(ms) \in 1..Len(ns)
      BY <1>1, <2>2
    <3>2. r[i] = ns[i - Len(ms)]
      BY <1>1, <1>2, <2>2
    <3>3. c[i] = r[i].buf
      BY <1>3
    <3>4. b[i - Len(ms)] = ns[i - Len(ms)].buf
      BY <1>3, <3>1
    <3>5. ab[i] = b[i - Len(ms)]
      BY <1>1, <1>3, <1>5, <2>2
    <3> QED
      BY <3>2, <3>3, <3>4, <3>5
  <2> QED
    BY <2>1, <2>2
<1>7. c = ab
  BY <1>1, <1>3, <1>5, <1>6, SeqEqual
<1> QED
  BY <1>7 DEF a, b, c, r, ab

-----------------------------------------------------------------------------
(* What the controller sends.                                              *)

\* Messages and packets have buffers.
LEMMA HaveBuffers ==
  /\ \A m \in Order : m.buf \in Nat
  /\ \A m \in Packet : m.buf \in Nat
BY DEF Order, Mod, Delete, Other, Packet, NoBuffer

\* No message, or one.
LEMMA Single ==
  ASSUME NEW m \in Order, NEW s, s = <<>> \/ s = <<m>>
  PROVE  /\ s \in Seq(Order) /\ Bufs(s) \in Seq(Nat) /\ Once(Bufs(s))
         /\ \A x : Holds(s, x) => x = m
         /\ \A b : Holds(Bufs(s), b) => b = m.buf
<1>1. s \in Seq(Order) /\ DOMAIN s \subseteq {1} /\ \A k \in DOMAIN s : s[k] = m
  <2>1. CASE s = <<>>
    BY <2>1
  <2>2. CASE s = <<m>>
    BY <2>2
  <2> QED
    BY <2>1, <2>2
<1>2. /\ Bufs(s) \in Seq(Nat) /\ DOMAIN Bufs(s) = DOMAIN s
      /\ \A k \in DOMAIN s : Bufs(s)[k] = s[k].buf
  BY <1>1, HaveBuffers, BufsOf
<1>3. Once(Bufs(s)) /\ \A b : Holds(Bufs(s), b) => b = m.buf
  BY <1>1, <1>2 DEF Once, Holds
<1>4. \A x : Holds(s, x) => x = m
  BY <1>1 DEF Holds
<1> QED
  BY <1>1, <1>2, <1>3, <1>4

\* What waited for an address.
LEMMA WaitingSent ==
  ASSUME LearningTypes, NEW a \in Addr, NEW q \in Out
  PROVE  /\ Waiting(a, q) \in Seq(Order) /\ Bufs(Waiting(a, q)) = lost_buffers[a]
         /\ \A k \in DOMAIN Waiting(a, q) : Waiting(a, q)[k].kind = "packet_out"
<1> DEFINE l == lost_buffers[a]
           w == Waiting(a, q)
<1>1. l \in Seq(Nat) /\ Len(l) \in Nat /\ DOMAIN l = 1..Len(l) /\ \A k \in 1..Len(l) : l[k] \in Nat
  BY DEF LearningTypes
<1>2. w = [k \in 1..Len(l) |-> Release(l[k], q)]
  BY <1>1 DEF Waiting
<1> HIDE DEF l, w
<1>3. \A k \in 1..Len(l) : /\ Release(l[k], q) \in Order
                           /\ Release(l[k], q).kind = "packet_out" /\ Release(l[k], q).buf = l[k]
  BY <1>1 DEF Release, Order, Other
<1>4. /\ w \in Seq(Order) /\ Len(w) = Len(l) /\ DOMAIN w = 1..Len(l)
      /\ \A k \in 1..Len(l) : w[k].kind = "packet_out" /\ w[k].buf = l[k]
  BY <1>1, <1>2, <1>3
<1>5. /\ Bufs(w) \in Seq(Nat) /\ Len(Bufs(w)) = Len(l)
      /\ \A k \in 1..Len(l) : Bufs(w)[k] = l[k]
  BY <1>4, BufsOf, HaveBuffers
<1>6. Bufs(w) = l
  BY <1>1, <1>5, SeqEqual
<1> QED
  BY <1>4, <1>6 DEF l, w

\* Three sequences of messages are sent, one behind the other.
ApartEach(s, t, u) ==
  /\ Once(Bufs(s)) /\ Once(Bufs(t)) /\ Once(Bufs(u))
  /\ Disjoint(Bufs(s), Bufs(t)) /\ Disjoint(Bufs(s), Bufs(u)) /\ Disjoint(Bufs(t), Bufs(u))

AllOf(r, s, t, u, new) ==
  /\ new \in Seq(Order) /\ r \o s \o t \o u = r \o new /\ Once(Bufs(new))
  /\ \A b : Holds(Bufs(new), b) <=>
           Holds(Bufs(s), b) \/ Holds(Bufs(t), b) \/ Holds(Bufs(u), b)
  /\ \A m : Holds(new, m) <=> Holds(s, m) \/ Holds(t, m) \/ Holds(u, m)

LEMMA SentTogether ==
  ASSUME NEW r \in Seq(Order), NEW s \in Seq(Order), NEW t \in Seq(Order), NEW u \in Seq(Order),
         NEW new, new = (s \o t) \o u, ApartEach(s, t, u)
  PROVE  AllOf(r, s, t, u, new)
<1> DEFINE st == s \o t
<1>0. new = st \o u
  OBVIOUS
<1>1. st \in Seq(Order) /\ \A m : Holds(st, m) <=> Holds(s, m) \/ Holds(t, m)
  BY Joined
<1>2. Bufs(s) \in Seq(Nat) /\ Bufs(t) \in Seq(Nat) /\ Bufs(u) \in Seq(Nat)
  BY BufsOf, HaveBuffers
<1>3. Bufs(st) = Bufs(s) \o Bufs(t)
  BY BufsJoined, HaveBuffers
<1>4. /\ Bufs(st) \in Seq(Nat) /\ Once(Bufs(st))
      /\ \A b : Holds(Bufs(st), b) <=> Holds(Bufs(s), b) \/ Holds(Bufs(t), b)
  BY <1>2, <1>3, Joined DEF ApartEach
<1>5. (r \o s) \o t = r \o st
  BY ConcatAssociative, SMTT(20)
<1> HIDE DEF st
<1>6. new \in Seq(Order) /\ \A m : Holds(new, m) <=> Holds(st, m) \/ Holds(u, m)
  BY <1>0, <1>1, Joined
<1>7. Bufs(new) = Bufs(st) \o Bufs(u)
  BY <1>0, <1>1, BufsJoined, HaveBuffers
<1>8. Disjoint(Bufs(st), Bufs(u)) /\ Once(Bufs(u))
  BY <1>4 DEF Disjoint, ApartEach
<1>9. /\ Once(Bufs(new))
      /\ \A b : Holds(Bufs(new), b) <=> Holds(Bufs(st), b) \/ Holds(Bufs(u), b)
  BY <1>2, <1>4, <1>7, <1>8, Joined
<1>10. (r \o st) \o u = r \o new
  <2>1. st \in Seq(Order)
    BY <1>1
  <2> QED
    BY <1>0, <2>1, ConcatAssociative
<1> QED
  BY <1>1, <1>4, <1>5, <1>6, <1>9, <1>10 DEF AllOf

\* What is sent is behind what was on its way.
LEMMA SentBehind ==
  ASSUME LearningTypes, EachOnce, NEW new \in Seq(Order), toSw' = toSw \o new,
         Once(Bufs(new)), Disjoint(Bufs(toSw), Bufs(new))
  PROVE  /\ toSw' \in Seq(Order) /\ Once(Bufs(toSw'))
         /\ \A b : Holds(Bufs(toSw'), b) <=> Holds(Bufs(toSw), b) \/ Holds(Bufs(new), b)
<1>1. toSw \in Seq(Order) /\ Bufs(toSw) \in Seq(Nat) /\ Bufs(new) \in Seq(Nat)
  BY BufsOf, HaveBuffers DEF LearningTypes
<1>2. Bufs(toSw') = Bufs(toSw) \o Bufs(new)
  BY <1>1, BufsJoined, HaveBuffers
<1> QED
  BY <1>1, <1>2, Joined DEF EachOnce

\* Flows go on following when the flows to an address that was seen elsewhere are deleted,
\* and those that are added lead to where addresses were seen.
LEMMA FlowsKept ==
  ASSUME LearningTypes, FlowsInv, NEW new \in Seq(Order), toSw' = toSw \o new,
         UNCHANGED <<wide, table>>,
         wide => \A d \in Addr : \/ arpTable[d] \in {Unknown, arpTable'[d]}
                                 \/ \E m : Holds(new, m) /\ m.kind = "delete" /\ m.dst = d,
         \A m : Holds(new, m) /\ m.kind = "mod" =>
                   m.out # Unknown /\ m.out = arpTable'[m.match.dst]
  PROVE  FlowsInv'
<1> SUFFICES ASSUME wide PROVE (/\ \A f \in table : Follows(f, toSw, 0)
                                /\ \A k \in DOMAIN toSw : toSw[k].kind = "mod" => Follows(toSw[k], toSw, k))'
  BY DEF FlowsInv
<1> DEFINE ms == toSw \o new
<1>1. /\ toSw \in Seq(Order) /\ Len(toSw) \in Nat /\ Len(new) \in Nat
      /\ DOMAIN toSw = 1..Len(toSw) /\ DOMAIN new = 1..Len(new)
      /\ DOMAIN ms = 1..(Len(toSw) + Len(new))
  BY DEF LearningTypes
<1>2. \A i \in 1..(Len(toSw) + Len(new)) : ms[i] = IF i <= Len(toSw) THEN toSw[i] ELSE new[i - Len(toSw)]
  BY <1>1, ConcatProperties
<1> HIDE DEF ms
<1>3. \A k \in DOMAIN toSw : k \in DOMAIN ms /\ ms[k] = toSw[k]
  BY <1>1, <1>2
<1>4. \A k \in DOMAIN new : Len(toSw) + k \in DOMAIN ms /\ ms[Len(toSw) + k] = new[k]
  BY <1>1, <1>2
<1>5. \A k \in DOMAIN ms : k \in DOMAIN toSw \/ Holds(new, ms[k])
  <2>1. ASSUME NEW k \in DOMAIN ms, k \notin DOMAIN toSw PROVE Holds(new, ms[k])
    <3>1. k - Len(toSw) \in DOMAIN new /\ ms[k] = new[k - Len(toSw)]
      BY <1>1, <1>2, <2>1
    <3> QED
      BY <3>1 DEF Holds
  <2> QED
    BY <2>1
<1>6. ASSUME NEW k \in 0..Len(toSw), NEW d, Deletes(toSw, k, d) PROVE Deletes(ms, k, d)
  BY <1>3, <1>6 DEF Deletes
<1>7. ASSUME NEW k \in 0..Len(toSw), NEW m, Holds(new, m), m.kind = "delete"
      PROVE  Deletes(ms, k, m.dst)
  <2>1. PICK j \in DOMAIN new : new[j] = m
    BY <1>7 DEF Holds
  <2>2. Len(toSw) + j \in DOMAIN ms /\ ms[Len(toSw) + j] = m /\ Len(toSw) + j > k
    BY <1>1, <1>4, <2>1
  <2> QED
    BY <1>7, <2>2 DEF Deletes
<1>8. ASSUME NEW k \in 0..Len(toSw), NEW f, f.match.dst \in Addr, Follows(f, toSw, k)
      PROVE  /\ f.out # Unknown
             /\ f.out = arpTable'[f.match.dst] \/ Deletes(ms, k, f.match.dst)
  <2>1. CASE Deletes(toSw, k, f.match.dst)
    BY <1>6, <1>8, <2>1 DEF Follows
  <2>2. CASE f.out = arpTable[f.match.dst]
    BY <1>7, <1>8, <2>2 DEF Follows
  <2> QED
    BY <1>8, <2>1, <2>2 DEF Follows
<1>9. /\ \A f \in table : f.match.dst \in Addr
      /\ \A m \in Order : m.kind = "mod" => m.match.dst \in Addr
  BY DEF LearningTypes, Matches, Order, Mod, Delete, Other
<1>10. ASSUME NEW f \in table' PROVE Follows(f, toSw, 0)'
  <2>1. f \in table /\ Follows(f, toSw, 0)
    BY DEF FlowsInv
  <2>2. 0 \in 0..Len(toSw)
    BY <1>1
  <2> QED
    BY <1>8, <1>9, <2>1, <2>2 DEF Follows, ms
<1>11. ASSUME NEW k \in DOMAIN ms, ms[k].kind = "mod"
       PROVE  /\ ms[k].out # Unknown
              /\ ms[k].out = arpTable'[ms[k].match.dst] \/ Deletes(ms, k, ms[k].match.dst)
  <2>1. CASE k \in DOMAIN toSw
    <3>1. ms[k] = toSw[k] /\ k \in 0..Len(toSw) /\ toSw[k] \in Order
      BY <1>1, <1>3, <2>1
    <3>2. Follows(toSw[k], toSw, k)
      BY <1>11, <2>1, <3>1 DEF FlowsInv
    <3> QED
      BY <1>8, <1>9, <1>11, <3>1, <3>2
  <2>2. CASE Holds(new, ms[k])
    BY <1>11, <2>2
  <2> QED
    BY <1>5, <2>1, <2>2
<1> QED
  BY <1>10, <1>11 DEF Follows, ms

-----------------------------------------------------------------------------
(* Steps.                                                                  *)

\* Buffers of M go to one place, those of N to another, and the others stay where they are.
Go(M, p, i, N, q, j) ==
  /\ \A b \in Nat \ {NoBuffer} : b \in M \/ b \in N => \E r, k : In(b, r, k)
  /\ \A b \in Nat \ {NoBuffer} : \A r, k : In(b, r, k)' =>
       IF b \in M THEN r = p /\ k = i ELSE IF b \in N THEN r = q /\ k = j ELSE In(b, r, k)

LEMMA Moved ==
  ASSUME Apart, Given, packets' = packets,
         NEW M, NEW N, NEW p, NEW i, NEW q, NEW j, Go(M, p, i, N, q, j)
  PROVE  Apart' /\ Given'
<1> USE DEF Go
<1>1. ASSUME NEW b \in Nat \ {NoBuffer}, NEW r, NEW s, NEW k, NEW l, In(b, r, k)', In(b, s, l)'
      PROVE  r = s /\ k = l
  <2>1. CASE b \in M
    BY <1>1, <2>1
  <2>2. CASE b \notin M /\ b \in N
    BY <1>1, <2>2
  <2>3. CASE b \notin M /\ b \notin N
    <3>1. In(b, r, k) /\ In(b, s, l)
      BY <1>1, <2>3
    <3> QED
      BY <3>1 DEF Apart
  <2> QED
    BY <2>1, <2>2, <2>3
<1>2. ASSUME NEW b \in Nat \ {NoBuffer}, NEW r, NEW k, In(b, r, k)' PROVE b <= packets'
  <2>1. \E s, l : In(b, s, l)
    BY <1>2
  <2> QED
    BY <2>1 DEF Given
<1> QED
  BY <1>1, <1>2 DEF Apart, Given

LEMMA InitLearning == LearningInit => LearningInv
<1> SUFFICES ASSUME LearningInit PROVE LearningInv
  OBVIOUS
<1>1. LearningTypes
  BY DEF LearningInit, LearningTypes, Out
<1>2. BuffersInv
  <2>1. \A b, p, i : ~In(b, p, i)
    BY DEF LearningInit, In, Holds, Bufs
  <2>2. EachOnce
    BY DEF LearningInit, EachOnce, Once, Bufs
  <2> QED
    BY <2>1, <2>2 DEF BuffersInv, Apart, Given
<1>3. NoneWaits /\ FlowsInv
  BY DEF LearningInit, NoneWaits, FlowsInv
<1> QED
  BY <1>1, <1>2, <1>3 DEF LearningInv

\* What comes from the switch has the next buffer, or none.
LEMMA StepArrives == ASSUME LearningInv, Arrives PROVE LearningInv'
<1>1. PICK src \in Addr \ Fakeway, dst \in Addr, kind \in {"ip", "arp"} :
        /\ src # dst
        /\ toCtl' = Append(toCtl, [kind |-> kind, in |-> where[src], src |-> src, dst |-> dst,
                                   buf |-> IF kind = "ip" THEN packets + 1 ELSE NoBuffer])
  BY DEF Arrives
<1> DEFINE buf == IF kind = "ip" THEN packets + 1 ELSE NoBuffer
           m == [kind |-> kind, in |-> where[src], src |-> src, dst |-> dst, buf |-> buf]
<1>2. m \in Packet /\ m.buf = buf /\ toCtl \in Seq(Packet) /\ toCtl' = toCtl \o <<m>>
  <2>1. where[src] \in Port /\ buf \in Nat /\ toCtl \in Seq(Packet)
    BY DEF LearningInv, LearningTypes, NoBuffer
  <2>2. m \in Packet
    BY <1>1, <2>1 DEF Packet
  <2> QED
    BY <1>1, <2>1, <2>2, AppendIsConcat
<1>3. /\ packets \in Nat /\ packets' = packets + 1 /\ (buf = NoBuffer \/ buf = packets + 1)
      /\ UNCHANGED <<wide, arpTable, lost_buffers, where, toSw, table, used>>
  BY DEF Arrives, LearningInv, LearningTypes
<1> HIDE DEF buf, m
<1>4. /\ <<m>> \in Seq(Packet) /\ toCtl' \in Seq(Packet) /\ Bufs(toCtl) \in Seq(Nat)
      /\ Bufs(<<m>>) \in Seq(Nat) /\ Bufs(<<m>>) = <<buf>>
  <2>1. <<m>> \in Seq(Packet) /\ Len(<<m>>) = 1 /\ DOMAIN <<m>> = {1} /\ <<m>>[1] = m
    BY <1>2
  <2>2. Bufs(<<m>>) \in Seq(Nat) /\ Len(Bufs(<<m>>)) = 1 /\ Bufs(<<m>>)[1] = m.buf
    BY <2>1, BufsOf, HaveBuffers
  <2>3. Bufs(<<m>>) = <<buf>>
    BY <1>2, <2>2
  <2>4. toCtl' \in Seq(Packet)
    BY <1>2
  <2>5. Bufs(toCtl) \in Seq(Nat)
    BY <1>2, BufsOf, HaveBuffers
  <2> QED
    BY <2>1, <2>2, <2>3, <2>4, <2>5
<1>5. Bufs(toCtl') = Bufs(toCtl) \o Bufs(<<m>>)
  BY <1>2, <1>4, BufsJoined, HaveBuffers
<1>6. Once(Bufs(<<m>>)) /\ \A b : Holds(Bufs(<<m>>), b) <=> b = buf
  BY <1>4 DEF Once, Holds
<1>7. \A b : ~In(packets + 1, "toCtl", b)
  BY <1>3 DEF LearningInv, BuffersInv, Given, NoBuffer
<1>8. Disjoint(Bufs(toCtl), Bufs(<<m>>))
  BY <1>3, <1>6, <1>7 DEF Disjoint, In
<1>9. Once(Bufs(toCtl')) /\ \A b : Holds(Bufs(toCtl'), b) <=> Holds(Bufs(toCtl), b) \/ b = buf
  BY <1>4, <1>5, <1>6, <1>8, Joined DEF LearningInv, BuffersInv, EachOnce
<1>10. \A b \in Nat \ {NoBuffer} : \A p, i : In(b, p, i)' =>
         IF b = packets + 1 THEN p = "toCtl" /\ i = 0 ELSE In(b, p, i)
  <2> SUFFICES ASSUME NEW b \in Nat \ {NoBuffer}, NEW p, NEW i, In(b, p, i)'
               PROVE  IF b = packets + 1 THEN p = "toCtl" /\ i = 0 ELSE In(b, p, i)
    OBVIOUS
  <2>1. In(b, p, i) \/ (p = "toCtl" /\ i = 0 /\ b = buf)
    BY <1>3, <1>9 DEF In
  <2>2. In(b, p, i) => b <= packets /\ b # packets + 1
    BY <1>3 DEF LearningInv, BuffersInv, Given
  <2> QED
    BY <1>3, <2>1, <2>2
<1>11. BuffersInv'
  <2>1. EachOnce'
    BY <1>3, <1>9 DEF EachOnce, LearningInv, BuffersInv
  <2>2. Apart'
    BY <1>10 DEF Apart, LearningInv, BuffersInv
  <2>3. Given'
    BY <1>3, <1>10 DEF Given, LearningInv, BuffersInv
  <2> QED
    BY <2>1, <2>2, <2>3 DEF BuffersInv
<1>12. LearningTypes'
  BY <1>3, <1>4 DEF LearningInv, LearningTypes
<1>13. NoneWaits' /\ FlowsInv'
  BY <1>3 DEF LearningInv, NoneWaits, FlowsInv, Follows
<1> QED
  BY <1>11, <1>12, <1>13 DEF LearningInv

\* Where a host is, and what was asked for, says nothing of buffers and flows.
LEMMA StepOther ==
  ASSUME LearningInv, HostMoves \/ ArpForgotten \/ UNCHANGED learningVars
  PROVE  LearningInv'
<1>1. UNCHANGED <<wide, arpTable, lost_buffers, toCtl, toSw, table, used>>
  BY DEF HostMoves, ArpForgotten, learningVars
<1>2. packets \in Nat /\ (packets' = packets \/ packets' = packets + 1)
  BY DEF HostMoves, ArpForgotten, learningVars, LearningInv, LearningTypes
<1>3. where' \in [Addr \ Fakeway -> Port]
  BY DEF HostMoves, ArpForgotten, learningVars, LearningInv, LearningTypes
<1>4. LearningTypes'
  BY <1>1, <1>2, <1>3 DEF LearningInv, LearningTypes
<1>5. \A b, p, i : In(b, p, i)' <=> In(b, p, i)
  BY <1>1 DEF In
<1>6. BuffersInv'
  <2>1. EachOnce'
    BY <1>1 DEF EachOnce, LearningInv, BuffersInv
  <2>2. Apart'
    BY <1>5 DEF Apart, LearningInv, BuffersInv
  <2>3. Given'
    BY <1>2, <1>5 DEF Given, LearningInv, BuffersInv
  <2> QED
    BY <2>1, <2>2, <2>3 DEF BuffersInv
<1>7. NoneWaits' /\ FlowsInv'
  BY <1>1 DEF LearningInv, NoneWaits, FlowsInv, Follows
<1> QED
  BY <1>4, <1>6, <1>7 DEF LearningInv

\* The switch releases the buffer of what it takes.
LEMMA StepSwitchTakes == ASSUME LearningInv, SwitchTakes PROVE LearningInv'
<1> DEFINE msg == Head(toSw)
           gone == {b \in Nat : b = msg.buf /\ b # NoBuffer}
<1>1. /\ toSw \in Seq(Order) /\ toSw # <<>> /\ toSw' = Tail(toSw) /\ toSw' \in Seq(Order)
      /\ msg \in Order /\ msg.buf \in Nat
  BY HaveBuffers DEF SwitchTakes, LearningInv, LearningTypes
<1>2. /\ UNCHANGED <<wide, arpTable, lost_buffers, where, toCtl, packets>>
      /\ used' = IF msg.buf = NoBuffer THEN used ELSE Append(used, msg.buf)
  BY DEF SwitchTakes
<1>3. /\ table' \subseteq [match : Matches, out : Out]
      /\ msg.kind = "delete" => \A f \in table' : f \in table /\ f.match.dst # msg.dst
      /\ msg.kind = "mod" => \A f \in table' : f \in table \/ f = [match |-> msg.match, out |-> msg.out]
      /\ msg.kind \notin {"delete", "mod"} => table' = table
  <2>1. table' = CASE msg.kind = "delete" -> {f \in table : f.match.dst # msg.dst}
                   [] msg.kind = "mod" -> {f \in table : f.match # msg.match} \cup
                                          {[match |-> msg.match, out |-> msg.out]}
                   [] OTHER -> table
    BY DEF SwitchTakes
  <2>2. table \subseteq [match : Matches, out : Out]
    BY DEF LearningInv, LearningTypes
  <2>3. msg.kind = "mod" => msg.match \in Matches /\ msg.out \in Out
    BY <1>1 DEF Order, Mod, Delete, Other
  <2> HIDE DEF msg
  <2>4. CASE msg.kind = "delete"
    BY <2>1, <2>2, <2>4
  <2>5. CASE msg.kind = "mod"
    BY <2>1, <2>2, <2>3, <2>5
  <2>6. CASE msg.kind \notin {"delete", "mod"}
    BY <2>1, <2>2, <2>6
  <2> QED
    BY <2>4, <2>5, <2>6
<1>4. /\ Bufs(toSw) \in Seq(Nat) /\ Bufs(toSw) # <<>> /\ Head(Bufs(toSw)) = msg.buf
      /\ Bufs(toSw') = Tail(Bufs(toSw))
  BY <1>1, BufsOf, BufsTaken, HaveBuffers
<1>5. /\ Once(Bufs(toSw')) /\ (msg.buf # NoBuffer => ~Holds(Bufs(toSw'), msg.buf))
      /\ \A b : Holds(Bufs(toSw), b) <=> b = msg.buf \/ Holds(Bufs(toSw'), b)
  BY <1>4, Taken DEF LearningInv, BuffersInv, EachOnce
<1>6. /\ used' \in Seq(Nat \ {NoBuffer}) /\ Once(used')
      /\ \A b \in Nat : Holds(used', b) => Holds(used, b) \/ b \in gone
  <2>1. used \in Seq(Nat \ {NoBuffer}) /\ Once(used)
    BY DEF LearningInv, LearningTypes, BuffersInv, EachOnce
  <2>2. CASE msg.buf = NoBuffer
    BY <1>2, <2>1, <2>2
  <2>3. CASE msg.buf # NoBuffer
    <3>1. msg.buf \in Nat \ {NoBuffer}
      BY <1>1, <2>3
    <3>2. used' = used \o <<msg.buf>> /\ <<msg.buf>> \in Seq(Nat \ {NoBuffer})
      BY <1>2, <2>1, <2>3, <3>1, AppendIsConcat
    <3>3. Once(<<msg.buf>>) /\ \A b : Holds(<<msg.buf>>, b) <=> b = msg.buf
      BY DEF Once, Holds
    <3>4. In(msg.buf, "toSw", 0)
      BY <1>5 DEF In
    <3>5. ~Holds(used, msg.buf)
      BY <3>1, <3>4 DEF LearningInv, BuffersInv, Apart, In
    <3>6. Disjoint(used, <<msg.buf>>)
      BY <3>3, <3>5 DEF Disjoint
    <3>7. /\ used' \in Seq(Nat \ {NoBuffer}) /\ Once(used')
          /\ \A b : Holds(used', b) <=> Holds(used, b) \/ Holds(<<msg.buf>>, b)
      BY <2>1, <3>2, <3>3, <3>6, Joined
    <3> QED
      BY <3>1, <3>3, <3>7
  <2> QED
    BY <2>2, <2>3
<1>7. LearningTypes'
  BY <1>1, <1>2, <1>3, <1>6 DEF LearningInv, LearningTypes
<1>8. BuffersInv'
  <2>1. EachOnce'
    BY <1>2, <1>5, <1>6 DEF EachOnce, LearningInv, BuffersInv
  <2>2. \A b \in gone : In(b, "toSw", 0)
    BY <1>5 DEF In
  <2>3. ASSUME NEW b \in Nat \ {NoBuffer}, NEW r, NEW k, In(b, r, k)'
        PROVE  IF b \in gone THEN r = "used" /\ k = 0 ELSE In(b, r, k)
    <3>1. CASE b \in gone
      <4>1. In(b, "toSw", 0)
        BY <1>5, <3>1 DEF In
      <4>2. \A q, j : In(b, q, j) => q = "toSw" /\ j = 0
        BY <4>1 DEF LearningInv, BuffersInv, Apart
      <4>3. r # "toSw"
        BY <1>5, <2>3, <3>1 DEF In
      <4>4. CASE r = "used"
        BY <2>3, <3>1, <4>4 DEF In
      <4>5. CASE r # "used"
        <5>1. In(b, r, k)
          BY <1>2, <2>3, <4>3, <4>5 DEF In
        <5> QED
          BY <4>2, <4>3, <5>1
      <4> QED
        BY <3>1, <4>4, <4>5
    <3>2. CASE b \notin gone
      BY <1>2, <1>5, <1>6, <2>3, <3>2 DEF In
    <3> QED
      BY <3>1, <3>2
  <2>4. Go(gone, "used", 0, {}, "used", 0)
    BY <2>2, <2>3 DEF Go
  <2> HIDE DEF gone
  <2>5. Apart /\ Given /\ packets' = packets
    BY <1>2 DEF LearningInv, BuffersInv
  <2>6. Apart' /\ Given'
    BY <2>4, <2>5, Moved
  <2> QED
    BY <2>1, <2>6 DEF BuffersInv
<1>9. NoneWaits'
  BY <1>2 DEF LearningInv, NoneWaits
<1>10. FlowsInv'
  <2> SUFFICES ASSUME wide
               PROVE  (/\ \A f \in table : Follows(f, toSw, 0)
                       /\ \A k \in DOMAIN toSw : toSw[k].kind = "mod" => Follows(toSw[k], toSw, k))'
    BY <1>2 DEF FlowsInv
  <2> DEFINE ms == Tail(toSw)
  <2>1. /\ Len(toSw) \in Nat /\ DOMAIN toSw = 1..Len(toSw) /\ DOMAIN ms = 1..(Len(toSw) - 1)
        /\ msg = toSw[1] /\ \A k \in 1..(Len(toSw) - 1) : ms[k] = toSw[k + 1]
    BY <1>1
  <2> HIDE DEF ms
  <2>2. ASSUME NEW k \in Nat, NEW d, Deletes(toSw, k + 1, d) PROVE Deletes(ms, k, d)
    <3>1. PICK j \in DOMAIN toSw : j > k + 1 /\ toSw[j].kind = "delete" /\ toSw[j].dst = d
      BY <2>2 DEF Deletes
    <3>2. j - 1 \in DOMAIN ms /\ j - 1 > k /\ ms[j - 1] = toSw[j]
      BY <2>1, <3>1
    <3> QED
      BY <3>1, <3>2 DEF Deletes
  <2>3. ASSUME NEW d, Deletes(toSw, 0, d), ~(msg.kind = "delete" /\ msg.dst = d)
        PROVE  Deletes(ms, 0, d)
    <3>1. Deletes(toSw, 1, d)
      <4>1. PICK j \in DOMAIN toSw : j > 0 /\ toSw[j].kind = "delete" /\ toSw[j].dst = d
        BY <2>3 DEF Deletes
      <4>2. j # 1 /\ j \in Nat
        BY <2>1, <2>3, <4>1
      <4> QED
        BY <4>1, <4>2 DEF Deletes
    <3> QED
      BY <2>2, <3>1
  <2>4. ASSUME NEW f \in table'
        PROVE  f.out # Unknown /\ (f.out = arpTable[f.match.dst] \/ Deletes(ms, 0, f.match.dst))
    <3>1. CASE f \in table
      <4>1. ~(msg.kind = "delete" /\ msg.dst = f.match.dst)
        BY <1>3, <2>4
      <4>2. Follows(f, toSw, 0)
        BY <3>1 DEF LearningInv, FlowsInv
      <4> QED
        BY <2>3, <4>1, <4>2 DEF Follows
    <3>2. CASE f \notin table
      <4>1. msg.kind = "mod" /\ f = [match |-> msg.match, out |-> msg.out]
        BY <1>3, <2>4, <3>2
      <4>2. 1 \in DOMAIN toSw
        BY <1>1, <2>1
      <4>3. Follows(msg, toSw, 1)
        BY <2>1, <4>1, <4>2 DEF LearningInv, FlowsInv
      <4> QED
        BY <2>2, <4>1, <4>3 DEF Follows
    <3> QED
      BY <3>1, <3>2
  <2>5. ASSUME NEW k \in DOMAIN ms, ms[k].kind = "mod"
        PROVE  /\ ms[k].out # Unknown
               /\ ms[k].out = arpTable[ms[k].match.dst] \/ Deletes(ms, k, ms[k].match.dst)
    <3>1. k \in Nat /\ k + 1 \in DOMAIN toSw /\ ms[k] = toSw[k + 1]
      BY <2>1
    <3>2. Follows(ms[k], toSw, k + 1)
      BY <2>5, <3>1 DEF LearningInv, FlowsInv
    <3> QED
      BY <2>2, <3>1, <3>2 DEF Follows
  <2> QED
    BY <1>1, <1>2, <2>4, <2>5 DEF Follows, ms
<1> QED
  BY <1>7, <1>8, <1>9, <1>10 DEF LearningInv

\* The controller takes a packet.
LEMMA PacketTaken ==
  ASSUME LearningInv, toCtl # <<>>, toCtl' = Tail(toCtl), NEW p, p = Head(toCtl)
  PROVE  /\ p \in Packet /\ p.buf \in Nat /\ toCtl' \in Seq(Packet) /\ Once(Bufs(toCtl'))
         /\ p.buf # NoBuffer => ~Holds(Bufs(toCtl'), p.buf)
         /\ \A b : Holds(Bufs(toCtl), b) <=> b = p.buf \/ Holds(Bufs(toCtl'), b)
<1>1. toCtl \in Seq(Packet) /\ toCtl' \in Seq(Packet) /\ p \in Packet /\ p.buf \in Nat
  BY HaveBuffers DEF LearningInv, LearningTypes
<1>2. /\ Bufs(toCtl) \in Seq(Nat) /\ Bufs(toCtl) # <<>> /\ Head(Bufs(toCtl)) = p.buf
      /\ Bufs(toCtl') = Tail(Bufs(toCtl))
  BY <1>1, BufsOf, BufsTaken, HaveBuffers
<1>3. Once(Bufs(toCtl))
  BY DEF LearningInv, BuffersInv, EachOnce
<1> QED
  BY <1>1, <1>2, <1>3, Taken

\* What waited for the source of the packet is sent, and the packet is sent or waits.
Answered(p, new) ==
  /\ new \in Seq(Order) /\ toSw' = toSw \o new /\ Once(Bufs(new))
  /\ \A b : Holds(Bufs(new), b) => Holds(lost_buffers[p.src], b) \/ b = p.buf \/ b = NoBuffer
  /\ wide /\ arpTable[p.src] \notin {Unknown, p.in} =>
       \E m : Holds(new, m) /\ m.kind = "delete" /\ m.dst = p.src
  /\ \A m : Holds(new, m) /\ m.kind = "mod" =>
       m.out # Unknown /\ m.match.dst # p.src /\ m.out = arpTable[m.match.dst]

Kept(p, new) ==
  /\ lost_buffers' \in [Addr -> Seq(Nat)] /\ lost_buffers'[p.src] = <<>>
  /\ \A i \in Addr \ {p.src, p.dst} : lost_buffers'[i] = lost_buffers[i]
  /\ \/ lost_buffers'[p.dst] = lost_buffers[p.dst]
     \/ /\ arpTable[p.dst] = Unknown /\ Once(lost_buffers'[p.dst])
        /\ \A b : Holds(lost_buffers'[p.dst], b) => Holds(lost_buffers[p.dst], b) \/ b = p.buf
        /\ \A b : Holds(Bufs(new), b) => Holds(lost_buffers[p.src], b) \/ b = NoBuffer

LEMMA StepHandled ==
  ASSUME LearningInv, toCtl # <<>>, toCtl' = Tail(toCtl), NEW p, p = Head(toCtl), Learns(p),
         UNCHANGED <<wide, where, table, used, packets>>,
         NEW new, Answered(p, new), Kept(p, new)
  PROVE  LearningInv'
<1>1. /\ p \in Packet /\ p.buf \in Nat /\ toCtl' \in Seq(Packet) /\ Once(Bufs(toCtl'))
      /\ p.buf # NoBuffer => ~Holds(Bufs(toCtl'), p.buf)
      /\ \A b : Holds(Bufs(toCtl), b) <=> b = p.buf \/ Holds(Bufs(toCtl'), b)
  BY PacketTaken
<1>2. /\ p.src \in Addr /\ p.dst \in Addr /\ p.src # p.dst /\ p.in \in Out
      /\ arpTable \in [Addr -> Out] /\ arpTable' = [arpTable EXCEPT ![p.src] = p.in]
      /\ lost_buffers \in [Addr -> Seq(Nat)]
  BY <1>1 DEF Learns, Packet, Out, LearningInv, LearningTypes
<1>3. In(p.buf, "toCtl", 0)
  BY <1>1 DEF In
<1>4. \A b \in Nat \ {NoBuffer} : Holds(lost_buffers[p.src], b) => In(b, "waits", p.src)
  BY <1>2 DEF In
<1>5. Bufs(toSw) \in Seq(Nat) /\ Bufs(new) \in Seq(Nat) /\ new \in Seq(Order)
  BY BufsOf, HaveBuffers DEF LearningInv, LearningTypes, Answered
<1>6. Disjoint(Bufs(toSw), Bufs(new))
  <2> SUFFICES ASSUME NEW b, b # NoBuffer, Holds(Bufs(toSw), b), Holds(Bufs(new), b) PROVE FALSE
    BY DEF Disjoint
  <2>1. b \in Nat \ {NoBuffer} /\ In(b, "toSw", 0)
    BY <1>5 DEF In, Holds
  <2>2. Holds(lost_buffers[p.src], b) \/ b = p.buf
    BY DEF Answered
  <2>3. In(b, "waits", p.src) \/ In(b, "toCtl", 0)
    BY <1>3, <1>4, <2>1, <2>2
  <2> QED
    BY <2>1, <2>3 DEF LearningInv, BuffersInv, Apart
<1>7. /\ toSw' \in Seq(Order) /\ Once(Bufs(toSw'))
      /\ \A b : Holds(Bufs(toSw'), b) <=> Holds(Bufs(toSw), b) \/ Holds(Bufs(new), b)
  BY <1>5, <1>6, SentBehind DEF Answered, LearningInv, BuffersInv
<1>8. LearningTypes'
  BY <1>1, <1>2, <1>7 DEF LearningInv, LearningTypes, Kept
<1>9. EachOnce'
  <2>1. Once(<<>>)
    BY DEF Once
  <2>2. \A i \in Addr : Once(lost_buffers'[i])
    BY <1>2, <2>1 DEF LearningInv, BuffersInv, EachOnce, Kept
  <2> QED
    BY <1>1, <1>7, <2>2 DEF LearningInv, BuffersInv, EachOnce
<1>10. Apart' /\ Given'
  <2> DEFINE W == {b \in Nat : Holds(lost_buffers[p.src], b)}
  <2>1. \A b \in W \ {NoBuffer} : In(b, "waits", p.src)
    BY <1>4
  <2>2. \A b \in W \ {NoBuffer} : \A q, j : In(b, q, j) => q = "waits" /\ j = p.src
    BY <2>1 DEF LearningInv, BuffersInv, Apart
  <2>3. p.buf # NoBuffer => \A q, j : In(p.buf, q, j) => q = "toCtl" /\ j = 0
    BY <1>1, <1>3 DEF LearningInv, BuffersInv, Apart
  <2>4. ASSUME NEW b \in Nat \ {NoBuffer}, NEW r, NEW k, In(b, r, k)'
        PROVE  \/ r = "toSw" /\ k = 0 /\ Holds(Bufs(new), b)
               \/ r = "waits" /\ k = p.dst /\ Holds(lost_buffers'[p.dst], b)
               \/ /\ In(b, r, k) /\ b # p.buf /\ ~(r = "waits" /\ k \in {p.src, p.dst})
    <3>1. ~Holds(<<>>, b)
      BY DEF Holds
    <3>2. CASE r = "toCtl"
      BY <1>1, <2>4, <3>2 DEF In
    <3>3. CASE r = "waits"
      <4>1. k \in Addr /\ Holds(lost_buffers'[k], b)
        BY <2>4, <3>3 DEF In
      <4>2. k # p.src
        BY <3>1, <4>1 DEF Kept
      <4>3. CASE k = p.dst
        BY <3>3, <4>1, <4>3
      <4>4. CASE k # p.dst
        <5>1. In(b, r, k)
          BY <3>3, <4>1, <4>2, <4>4 DEF Kept, In
        <5> QED
          BY <2>3, <3>3, <4>2, <4>4, <5>1
      <4> QED
        BY <4>3, <4>4
    <3>4. CASE r = "toSw"
      <4>1. k = 0 /\ (Holds(Bufs(toSw), b) \/ Holds(Bufs(new), b))
        BY <1>7, <2>4, <3>4 DEF In
      <4>2. Holds(Bufs(toSw), b) => In(b, r, k)
        BY <3>4, <4>1 DEF In
      <4> QED
        BY <2>3, <3>4, <4>1, <4>2
    <3>5. CASE r = "used"
      <4>1. In(b, r, k)
        BY <2>4, <3>5 DEF In
      <4> QED
        BY <2>3, <3>5, <4>1
    <3> QED
      BY <2>4, <3>2, <3>3, <3>4, <3>5 DEF In
  <2> HIDE DEF W
  <2>5. Apart /\ Given /\ packets' = packets
    BY DEF LearningInv, BuffersInv
  <2>6. \A b \in Nat \ {NoBuffer} : b \in {p.buf} \/ b \in W => \E r, k : In(b, r, k)
    BY <1>3, <2>1
  <2>7. CASE lost_buffers'[p.dst] = lost_buffers[p.dst]
    <3>1. Go({p.buf}, "toSw", 0, W, "toSw", 0)
      <4>1. ASSUME NEW b \in Nat \ {NoBuffer}, NEW r, NEW k, In(b, r, k)'
            PROVE  IF b \in {p.buf} THEN r = "toSw" /\ k = 0
                   ELSE IF b \in W THEN r = "toSw" /\ k = 0 ELSE In(b, r, k)
        <5>1. CASE r = "toSw" /\ k = 0 /\ Holds(Bufs(new), b)
          BY <5>1, <4>1 DEF Answered, W
        <5>2. CASE r = "waits" /\ k = p.dst /\ Holds(lost_buffers'[p.dst], b)
          <6>1. In(b, r, k)
            BY <1>2, <2>7, <5>2 DEF In
          <6>2. b \notin W
            BY <1>2, <2>2, <5>2, <6>1
          <6>3. b # p.buf
            BY <2>3, <5>2, <6>1
          <6> QED
            BY <6>1, <6>2, <6>3
        <5>3. CASE In(b, r, k) /\ b # p.buf /\ ~(r = "waits" /\ k \in {p.src, p.dst})
          BY <2>2, <5>3
        <5> QED
          BY <2>4, <4>1, <5>1, <5>2, <5>3
      <4> QED
        BY <2>6, <4>1 DEF Go
    <3> QED
      BY <2>5, <3>1, Moved
  <2>8. CASE lost_buffers'[p.dst] # lost_buffers[p.dst]
    <3>1. Go({p.buf}, "waits", p.dst, W, "toSw", 0)
      <4>1. ASSUME NEW b \in Nat \ {NoBuffer}, NEW r, NEW k, In(b, r, k)'
            PROVE  IF b \in {p.buf} THEN r = "waits" /\ k = p.dst
                   ELSE IF b \in W THEN r = "toSw" /\ k = 0 ELSE In(b, r, k)
        <5>1. CASE r = "toSw" /\ k = 0 /\ Holds(Bufs(new), b)
          <6>1. b \in W
            BY <2>8, <4>1, <5>1 DEF Kept, W
          <6>2. b # p.buf
            BY <2>2, <2>3, <1>3, <6>1, <2>1
          <6> QED
            BY <5>1, <6>1, <6>2
        <5>2. CASE r = "waits" /\ k = p.dst /\ Holds(lost_buffers'[p.dst], b)
          <6>1. b = p.buf \/ In(b, r, k)
            BY <1>2, <2>8, <5>2 DEF In, Kept
          <6> QED
            BY <1>2, <2>2, <2>3, <5>2, <6>1
        <5>3. CASE In(b, r, k) /\ b # p.buf /\ ~(r = "waits" /\ k \in {p.src, p.dst})
          BY <2>2, <5>3
        <5> QED
          BY <2>4, <4>1, <5>1, <5>2, <5>3
      <4> QED
        BY <2>6, <4>1 DEF Go
    <3> QED
      BY <2>5, <3>1, Moved
  <2> QED
    BY <2>7, <2>8
<1>11. NoneWaits'
  BY <1>2 DEF LearningInv, NoneWaits, Kept
<1>12. FlowsInv'
  <2>1. ASSUME wide, NEW d \in Addr
        PROVE  \/ arpTable[d] \in {Unknown, arpTable'[d]}
               \/ \E m : Holds(new, m) /\ m.kind = "delete" /\ m.dst = d
    BY <1>2, <2>1 DEF Answered
  <2>2. ASSUME NEW m, Holds(new, m), m.kind = "mod"
        PROVE  m.out # Unknown /\ m.out = arpTable'[m.match.dst]
    <3>1. m \in Order
      BY <1>5, <2>2 DEF Holds
    <3>2. m.match.dst \in Addr
      BY <2>2, <3>1 DEF Order, Mod, Delete, Other, Matches
    <3> QED
      BY <1>2, <2>2, <3>2 DEF Answered
  <2>3. toSw' = toSw \o new /\ LearningTypes /\ FlowsInv
    BY DEF Answered, LearningInv
  <2> QED
    BY <1>5, <2>1, <2>2, <2>3, FlowsKept
<1> QED
  BY <1>8, <1>9, <1>10, <1>11, <1>12 DEF LearningInv, BuffersInv

\* No message, or one with no buffer or that of the packet, is apart from what waited.
LEMMA SmallApart ==
  ASSUME LearningInv, toCtl # <<>>, toCtl' = Tail(toCtl), NEW p, p = Head(toCtl),
         NEW m \in Order, m.buf \in {NoBuffer, p.buf}, NEW s, s = <<>> \/ s = <<m>>
  PROVE  /\ Disjoint(lost_buffers[p.src], Bufs(s)) /\ Disjoint(Bufs(s), lost_buffers[p.src])
<1>1. p \in Packet /\ p.buf \in Nat /\ Holds(Bufs(toCtl), p.buf)
  BY PacketTaken
<1>2. p.src \in Addr
  BY <1>1 DEF Packet
<1>3. p.buf # NoBuffer => ~Holds(lost_buffers[p.src], p.buf)
  BY <1>1, <1>2 DEF LearningInv, BuffersInv, Apart, In
<1>4. \A b : Holds(Bufs(s), b) => b = m.buf
  BY Single
<1> QED
  BY <1>3, <1>4 DEF Disjoint

\* Flows are deleted when the address was seen elsewhere.
LEMMA Forgets ==
  ASSUME LearningTypes, NEW a \in Addr, NEW q
  PROVE  \E m \in Order :
           /\ m.kind = "delete" /\ m.dst = a /\ m.buf = NoBuffer
           /\ Forget(a, q) = <<>> \/ Forget(a, q) = <<m>>
           /\ wide /\ arpTable[a] \notin {Unknown, q} => Holds(Forget(a, q), m)
<1> DEFINE m == [kind |-> "delete", dst |-> a, buf |-> NoBuffer]
<1>1. m \in Order /\ m.kind = "delete" /\ m.dst = a /\ m.buf = NoBuffer
  BY DEF Order, Delete
<1>2. Forget(a, q) = IF wide /\ arpTable[a] \notin {Unknown, q} THEN <<m>> ELSE <<>>
  BY DEF Forget
<1> HIDE DEF m
<1>3. Holds(<<m>>, m)
  BY DEF Holds
<1> QED
  BY <1>1, <1>2, <1>3

\* The bucket of an address, with one buffer more.
LEMMA Bucketed ==
  ASSUME BucketLimited, NEW s \in Seq(Nat), Once(s), NEW b \in Nat, b # NoBuffer => ~Holds(s, b)
  PROVE  /\ Bucket(Append(s, b)) \in Seq(Nat) /\ Once(Bucket(Append(s, b)))
         /\ \A x : Holds(Bucket(Append(s, b)), x) => Holds(s, x) \/ x = b
<1> DEFINE r == Append(s, b)
<1> HIDE DEF r
<1>1. r = s \o <<b>> /\ <<b>> \in Seq(Nat)
  BY AppendIsConcat DEF r
<1>2. Once(<<b>>) /\ \A x : Holds(<<b>>, x) <=> x = b
  BY DEF Once, Holds
<1>3. Disjoint(s, <<b>>)
  BY <1>2 DEF Disjoint
<1>4. r \in Seq(Nat) /\ Once(r) /\ \A x : Holds(r, x) <=> Holds(s, x) \/ x = b
  BY <1>1, <1>2, <1>3, Joined
<1>5. CASE Len(r) > MAX_BUFFERED_PER_IP
  <2> DEFINE n == Len(r) - MAX_BUFFERED_PER_IP
             e == SubSeq(r, n + 1, Len(r))
  <2>1. n \in 0..Len(r)
    BY <1>4, <1>5 DEF BucketLimited
  <2>2. Bucket(r) = e
    BY <1>5 DEF Bucket
  <2> HIDE DEF n
  <2>3. e \in Seq(Nat) /\ Once(e) /\ \A x : Holds(e, x) => Holds(r, x)
    BY <1>4, <2>1, Parts
  <2> QED
    BY <1>4, <2>2, <2>3 DEF r
<1>6. CASE ~(Len(r) > MAX_BUFFERED_PER_IP)
  BY <1>4, <1>6 DEF Bucket, r
<1> QED
  BY <1>5, <1>6

LEMMA StepHandleIp == ASSUME BucketLimited, LearningInv, HandleIp PROVE LearningInv'
<1>1. PICK p : p = Head(toCtl)
  OBVIOUS
<1>2. /\ toCtl # <<>> /\ toCtl' = Tail(toCtl) /\ Learns(p)
      /\ UNCHANGED <<wide, where, table, used, packets>>
  BY <1>1 DEF HandleIp
<1>3. p \in Packet /\ p.buf \in Nat
  BY <1>1, <1>2, PacketTaken
<1>4. /\ p.src \in Addr /\ p.dst \in Addr /\ p.src # p.dst /\ p.in \in Out /\ p.in \in Port
      /\ LearningTypes /\ arpTable \in [Addr -> Out] /\ lost_buffers \in [Addr -> Seq(Nat)]
      /\ toSw \in Seq(Order)
  BY <1>3 DEF Packet, Out, LearningInv, LearningTypes
<1> DEFINE W == Waiting(p.src, p.in)
           F == Forget(p.src, p.in)
           l == lost_buffers[p.src]
<1>5. /\ W \in Seq(Order) /\ Bufs(W) = l /\ Once(l)
      /\ \A m : Holds(W, m) => m.kind = "packet_out"
  BY <1>4, WaitingSent DEF LearningInv, BuffersInv, EachOnce, Holds
<1>6. PICK d \in Order : /\ d.kind = "delete" /\ d.dst = p.src /\ d.buf = NoBuffer
                         /\ F = <<>> \/ F = <<d>>
                         /\ wide /\ arpTable[p.src] \notin {Unknown, p.in} => Holds(F, d)
  BY <1>4, Forgets
<1>7. /\ F \in Seq(Order) /\ Once(Bufs(F)) /\ \A b : Holds(Bufs(F), b) => b = NoBuffer
      /\ \A m : Holds(F, m) => m = d
  BY <1>6, Single
<1>8. Disjoint(l, Bufs(F))
  BY <1>1, <1>2, <1>6, SmallApart
<1> HIDE DEF W, F, l
<1>9. ASSUME NEW m \in Order, NEW s, s = <<>> \/ s = <<m>>, m.buf \in {NoBuffer, p.buf},
             toSw' = toSw \o W \o F \o s,
             m.kind = "mod" => m.out # Unknown /\ m.match.dst = p.dst /\ m.out = arpTable[p.dst],
             m.kind # "delete"
      PROVE  /\ Answered(p, (W \o F) \o s)
             /\ \A b : Holds(Bufs((W \o F) \o s), b) => Holds(l, b) \/ b = m.buf \/ b = NoBuffer
  <2> DEFINE new == (W \o F) \o s
  <2>1. /\ s \in Seq(Order) /\ Once(Bufs(s)) /\ \A b : Holds(Bufs(s), b) => b = m.buf
        /\ \A x : Holds(s, x) => x = m
    BY <1>9, Single
  <2>2. Disjoint(l, Bufs(s))
    BY <1>1, <1>2, <1>9, SmallApart DEF l
  <2>3. Disjoint(Bufs(F), Bufs(s))
    BY <1>7 DEF Disjoint
  <2>4. /\ new \in Seq(Order) /\ toSw' = toSw \o new /\ Once(Bufs(new))
        /\ \A b : Holds(Bufs(new), b) <=> Holds(l, b) \/ Holds(Bufs(F), b) \/ Holds(Bufs(s), b)
        /\ \A x : Holds(new, x) <=> Holds(W, x) \/ Holds(F, x) \/ Holds(s, x)
    <3>0. new = (W \o F) \o s
      OBVIOUS
    <3> HIDE DEF new
    <3>1. /\ toSw \in Seq(Order) /\ W \in Seq(Order) /\ F \in Seq(Order) /\ s \in Seq(Order)
          /\ ApartEach(W, F, s)
      BY <1>4, <1>5, <1>7, <1>8, <2>1, <2>2, <2>3 DEF ApartEach
    <3>2. AllOf(toSw, W, F, s, new)
      BY <3>0, <3>1, SentTogether
    <3> QED
      BY <1>5, <1>9, <3>2 DEF AllOf
  <2> HIDE DEF new
  <2>5. \A b : Holds(Bufs(new), b) => Holds(l, b) \/ b = m.buf \/ b = NoBuffer
    BY <1>7, <2>1, <2>4
  <2>6. \A x : Holds(new, x) /\ x.kind = "mod" =>
          x.out # Unknown /\ x.match.dst # p.src /\ x.out = arpTable[x.match.dst]
    BY <1>4, <1>5, <1>6, <1>7, <1>9, <2>1, <2>4
  <2>7. wide /\ arpTable[p.src] \notin {Unknown, p.in} =>
          \E x : Holds(new, x) /\ x.kind = "delete" /\ x.dst = p.src
    BY <1>6, <2>4
  <2> QED
    BY <1>9, <2>4, <2>5, <2>6, <2>7 DEF Answered, new, l
<1>10. CASE arpTable[p.dst] # Unknown
  <2>1. toSw' = toSw \o W \o F \o Forwarded(p) /\ lost_buffers' = NotWaiting(p)
    BY <1>1, <1>10 DEF HandleIp, W, F
  <2> DEFINE m == [kind |-> "mod", match |-> Match(p.in, p.src, p.dst), out |-> arpTable[p.dst], buf |-> p.buf]
  <2>2. Match(p.in, p.src, p.dst) \in Matches /\ Match(p.in, p.src, p.dst).dst = p.dst
    BY <1>4 DEF Match, Matches
  <2>3. /\ m \in Order /\ m.kind = "mod" /\ m.match.dst = p.dst /\ m.out = arpTable[p.dst]
        /\ m.buf = p.buf
    BY <1>3, <1>4, <2>2 DEF Order, Mod
  <2>4. Forwarded(p) = <<>> \/ Forwarded(p) = <<m>>
    BY DEF Forwarded
  <2> HIDE DEF m
  <2>5. Answered(p, (W \o F) \o Forwarded(p))
    BY <1>9, <1>10, <2>1, <2>3, <2>4
  <2>6. Kept(p, (W \o F) \o Forwarded(p))
    BY <1>4, <2>1 DEF Kept, NotWaiting
  <2> QED
    BY <1>1, <1>2, <2>5, <2>6, StepHandled
<1>11. CASE arpTable[p.dst] = Unknown
  <2> DEFINE s == IF p.dst \in outstanding_arps THEN <<>> ELSE <<Flood>>
             before == NotWaiting(p)[p.dst]
             after == Bucket(Append(before, p.buf))
  <2>1. /\ toSw' = toSw \o W \o F \o s
        /\ lost_buffers' = [NotWaiting(p) EXCEPT ![p.dst] = after]
    BY <1>1, <1>11 DEF HandleIp, W, F
  <2>2. Flood \in Order /\ Flood.kind = "flood" /\ Flood.buf = NoBuffer
    BY DEF Flood, Order, Other
  <2>3. s = <<>> \/ s = <<Flood>>
    OBVIOUS
  <2>4. before = lost_buffers[p.dst] /\ before \in Seq(Nat) /\ Once(before)
    BY <1>4 DEF NotWaiting, LearningInv, BuffersInv, EachOnce
  <2> HIDE DEF s, before, after
  <2>5. /\ Answered(p, (W \o F) \o s)
        /\ \A b : Holds(Bufs((W \o F) \o s), b) => Holds(l, b) \/ b = NoBuffer
    BY <1>9, <2>1, <2>2, <2>3
  <2>6. /\ after \in Seq(Nat) /\ Once(after)
        /\ \A b : Holds(after, b) => Holds(before, b) \/ b = p.buf
    <3>1. p.buf # NoBuffer => ~Holds(before, p.buf)
      <4>1. In(p.buf, "toCtl", 0)
        BY <1>1, <1>2, PacketTaken DEF In
      <4> QED
        BY <1>3, <1>4, <2>4, <4>1 DEF In, LearningInv, BuffersInv, Apart
    <3> QED
      BY <1>3, <2>4, <3>1, Bucketed DEF after
  <2>7. Kept(p, (W \o F) \o s)
    <3>1. /\ lost_buffers' \in [Addr -> Seq(Nat)] /\ lost_buffers'[p.src] = <<>>
          /\ lost_buffers'[p.dst] = after
          /\ \A i \in Addr \ {p.src, p.dst} : lost_buffers'[i] = lost_buffers[i]
      <4>1. lost_buffers' = [[lost_buffers EXCEPT ![p.src] = <<>>] EXCEPT ![p.dst] = after]
        BY <2>1 DEF NotWaiting
      <4>2. after \in Seq(Nat) /\ <<>> \in Seq(Nat)
        BY <2>6
      <4>3. [lost_buffers EXCEPT ![p.src] = <<>>] \in [Addr -> Seq(Nat)]
        BY <1>4, <4>2
      <4> QED
        BY <1>4, <4>1, <4>2, <4>3
    <3> QED
      BY <1>11, <2>4, <2>5, <2>6, <3>1 DEF Kept, l
  <2> QED
    BY <1>1, <1>2, <2>5, <2>7, StepHandled
<1> QED
  BY <1>10, <1>11

LEMMA StepHandleArp == ASSUME LearningInv, HandleArp PROVE LearningInv'
<1>1. PICK p : p = Head(toCtl)
  OBVIOUS
<1>2. /\ toCtl # <<>> /\ toCtl' = Tail(toCtl) /\ Learns(p)
      /\ UNCHANGED <<wide, where, table, used, packets>>
      /\ lost_buffers' = NotWaiting(p)
  BY <1>1 DEF HandleArp
<1>3. p \in Packet /\ p.buf \in Nat
  BY <1>1, <1>2, PacketTaken
<1>4. /\ p.src \in Addr /\ p.dst \in Addr /\ p.src # p.dst /\ p.in \in Out
      /\ LearningTypes /\ lost_buffers \in [Addr -> Seq(Nat)] /\ toSw \in Seq(Order)
  BY <1>3 DEF Packet, Out, LearningInv, LearningTypes
<1> DEFINE W == Waiting(p.src, p.in)
           F == Forget(p.src, p.in)
           l == lost_buffers[p.src]
           answer == [kind |-> "answer", buf |-> NoBuffer]
<1>5. /\ W \in Seq(Order) /\ Bufs(W) = l /\ Once(l)
      /\ \A m : Holds(W, m) => m.kind = "packet_out"
  BY <1>4, WaitingSent DEF LearningInv, BuffersInv, EachOnce, Holds
<1>6. PICK d \in Order : /\ d.kind = "delete" /\ d.dst = p.src /\ d.buf = NoBuffer
                         /\ F = <<>> \/ F = <<d>>
                         /\ wide /\ arpTable[p.src] \notin {Unknown, p.in} => Holds(F, d)
  BY <1>4, Forgets
<1>7. /\ F \in Seq(Order) /\ Once(Bufs(F)) /\ \A b : Holds(Bufs(F), b) => b = NoBuffer
      /\ \A m : Holds(F, m) => m = d
  BY <1>6, Single
<1>8. PICK m \in {answer, Flood} : toSw' = toSw \o F \o W \o <<m>>
  BY <1>1 DEF HandleArp
<1>9. /\ m \in Order /\ m.kind \in {"answer", "flood"} /\ m.buf = NoBuffer
  BY <1>8 DEF Flood, Order, Other
<1> DEFINE s == <<m>>
<1>10. /\ s \in Seq(Order) /\ Once(Bufs(s)) /\ \A b : Holds(Bufs(s), b) => b = NoBuffer
       /\ \A x : Holds(s, x) => x = m
  BY <1>9, Single
<1> HIDE DEF W, F, l, answer, s
<1> DEFINE new == (F \o W) \o s
<1>11. /\ new \in Seq(Order) /\ toSw' = toSw \o new /\ Once(Bufs(new))
       /\ \A b : Holds(Bufs(new), b) => Holds(l, b) \/ b = NoBuffer
       /\ \A x : Holds(new, x) <=> Holds(F, x) \/ Holds(W, x) \/ Holds(s, x)
  <2>0. new = (F \o W) \o s
    OBVIOUS
  <2> HIDE DEF new
  <2>1. /\ toSw \in Seq(Order) /\ F \in Seq(Order) /\ W \in Seq(Order) /\ s \in Seq(Order)
        /\ ApartEach(F, W, s)
    BY <1>4, <1>5, <1>7, <1>10 DEF Disjoint, ApartEach
  <2>2. AllOf(toSw, F, W, s, new)
    BY <2>0, <2>1, SentTogether
  <2> QED
    BY <1>5, <1>7, <1>8, <1>10, <2>2 DEF s, AllOf
<1> HIDE DEF new
<1>12. Answered(p, new)
  <2>1. \A x : Holds(new, x) => x.kind # "mod"
    BY <1>5, <1>6, <1>7, <1>9, <1>10, <1>11
  <2>2. wide /\ arpTable[p.src] \notin {Unknown, p.in} =>
          \E x : Holds(new, x) /\ x.kind = "delete" /\ x.dst = p.src
    BY <1>6, <1>11
  <2> QED
    BY <1>11, <2>1, <2>2 DEF Answered, l
<1>13. Kept(p, new)
  BY <1>2, <1>4 DEF Kept, NotWaiting
<1> QED
  BY <1>1, <1>2, <1>12, <1>13, StepHandled

\* What has waited for too long is let go.
LEMMA Step_handle_expiration == ASSUME BucketLimited, LearningInv, _handle_expiration PROVE LearningInv'
<1>1. PICK i \in Addr, n \in 1..MAX_BUFFERED_PER_IP :
        /\ n <= Len(lost_buffers[i])
        /\ lost_buffers' = [lost_buffers EXCEPT ![i] = SubSeq(@, n + 1, Len(@))]
        /\ toSw' = toSw \o [k \in 1..n |-> Release(lost_buffers[i][k], 0)]
  BY DEF _handle_expiration
<1>2. UNCHANGED <<wide, arpTable, where, toCtl, table, used, packets>>
  BY DEF _handle_expiration
<1> DEFINE l == lost_buffers[i]
           a == SubSeq(l, 1, n)
           e == SubSeq(l, n + 1, Len(l))
           new == [k \in 1..n |-> Release(l[k], 0)]
<1>3. /\ LearningTypes /\ lost_buffers \in [Addr -> Seq(Nat)] /\ l \in Seq(Nat) /\ Once(l)
      /\ n \in 1..Len(l)
  BY <1>1 DEF LearningInv, LearningTypes, BuffersInv, EachOnce, BucketLimited
<1>4. /\ a \in Seq(Nat) /\ e \in Seq(Nat) /\ Once(a) /\ Once(e) /\ Disjoint(a, e)
      /\ \A x : Holds(a, x) \/ Holds(e, x) <=> Holds(l, x)
      /\ Len(a) = n /\ \A k \in 1..n : a[k] = l[k]
  <2>1. n \in 0..Len(l)
    BY <1>3
  <2> QED
    BY <1>3, <2>1, Parts
<1>5. /\ lost_buffers' \in [Addr -> Seq(Nat)] /\ lost_buffers'[i] = e
      /\ \A j \in Addr \ {i} : lost_buffers'[j] = lost_buffers[j]
  BY <1>1, <1>3, <1>4
<1>6. toSw' = toSw \o new
  BY <1>1
<1> HIDE DEF l, a, e, new
<1>7. /\ new \in Seq(Order) /\ Len(new) = n /\ DOMAIN new = 1..n
      /\ \A k \in 1..n : new[k].kind = "packet_out" /\ new[k].buf = a[k]
  <2>1. new = [k \in 1..n |-> Release(l[k], 0)]
    BY DEF new
  <2>2. n \in Nat /\ \A k \in 1..n : l[k] \in Nat
    BY <1>3
  <2>3. \A k \in 1..n : /\ Release(l[k], 0) \in Order
                        /\ Release(l[k], 0).kind = "packet_out" /\ Release(l[k], 0).buf = l[k]
    BY <2>2 DEF Release, Order, Other, Out, Unknown
  <2> QED
    BY <1>4, <2>1, <2>2, <2>3
<1>8. Bufs(new) = a
  <2>1. /\ Bufs(new) \in Seq(Nat) /\ Len(Bufs(new)) = n
        /\ \A k \in 1..n : Bufs(new)[k] = a[k]
    BY <1>7, BufsOf, HaveBuffers
  <2> QED
    BY <1>4, <2>1, SeqEqual
<1>9. \A b \in Nat \ {NoBuffer} : Holds(l, b) => In(b, "waits", i)
  BY DEF In, l
<1>10. Disjoint(Bufs(toSw), a)
  <2> SUFFICES ASSUME NEW b, b # NoBuffer, Holds(Bufs(toSw), b), Holds(a, b) PROVE FALSE
    BY DEF Disjoint
  <2>1. b \in Nat \ {NoBuffer} /\ In(b, "toSw", 0)
    BY <1>4 DEF In, Holds
  <2>2. In(b, "waits", i)
    BY <1>4, <1>9, <2>1
  <2> QED
    BY <2>1, <2>2 DEF LearningInv, BuffersInv, Apart
<1>11. /\ toSw' \in Seq(Order) /\ Once(Bufs(toSw'))
       /\ \A b : Holds(Bufs(toSw'), b) <=> Holds(Bufs(toSw), b) \/ Holds(a, b)
  BY <1>4, <1>6, <1>7, <1>8, <1>10, SentBehind DEF LearningInv, BuffersInv
<1>12. LearningTypes'
  BY <1>2, <1>5, <1>11 DEF LearningInv, LearningTypes
<1>13. EachOnce'
  <2>1. \A j \in Addr : Once(lost_buffers'[j])
    BY <1>4, <1>5 DEF LearningInv, BuffersInv, EachOnce
  <2> QED
    BY <1>2, <1>11, <2>1 DEF LearningInv, BuffersInv, EachOnce
<1>14. Apart' /\ Given'
  <2> DEFINE M == {b \in Nat : Holds(a, b)}
  <2>1. \A b \in M \ {NoBuffer} : In(b, "waits", i)
    BY <1>4, <1>9
  <2>2. \A b \in M \ {NoBuffer} : \A q, j : In(b, q, j) => q = "waits" /\ j = i
    BY <2>1 DEF LearningInv, BuffersInv, Apart
  <2>3. ASSUME NEW b \in Nat \ {NoBuffer}, NEW r, NEW k, In(b, r, k)'
        PROVE  IF b \in M THEN r = "toSw" /\ k = 0 ELSE In(b, r, k)
    <3>1. (r = "waits" /\ k = i) => ~Holds(a, b)
      BY <1>4, <1>5, <2>3 DEF In, Disjoint
    <3>2. In(b, r, k) \/ (r = "toSw" /\ k = 0 /\ Holds(a, b))
      BY <1>2, <1>4, <1>5, <1>11, <2>3 DEF In, l
    <3> QED
      BY <2>2, <3>1, <3>2
  <2> HIDE DEF M
  <2>4. Go(M, "toSw", 0, {}, "toSw", 0)
    BY <2>1, <2>3 DEF Go
  <2>5. Apart /\ Given /\ packets' = packets
    BY <1>2 DEF LearningInv, BuffersInv
  <2> QED
    BY <2>4, <2>5, Moved
<1>15. NoneWaits'
  <2>1. lost_buffers[i] # <<>>
    BY <1>3 DEF l
  <2> QED
    BY <1>2, <1>5, <2>1 DEF LearningInv, NoneWaits
<1>16. FlowsInv'
  <2>1. \A m : Holds(new, m) => m.kind = "packet_out"
    BY <1>7 DEF Holds
  <2>2. LearningTypes /\ FlowsInv
    BY DEF LearningInv
  <2> QED
    BY <1>2, <1>6, <1>7, <2>1, <2>2, FlowsKept
<1> QED
  BY <1>12, <1>13, <1>14, <1>15, <1>16 DEF LearningInv, BuffersInv

LEMMA NextLearning == BucketLimited /\ LearningInv /\ [LearningNext]_learningVars => LearningInv'
BY StepArrives, StepOther, StepSwitchTakes, StepHandleIp, StepHandleArp, Step_handle_expiration
  DEF LearningNext

\* What the runs check follows.
LEMMA LearningSound == LearningInv => WaitsOnce /\ FlowsFollow
<1> SUFFICES ASSUME LearningInv PROVE WaitsOnce /\ FlowsFollow
  OBVIOUS
<1>1. IsInjective(used)
  BY DEF LearningInv, LearningTypes, BuffersInv, EachOnce, Once, IsInjective
<1>2. FlowsFollow
  BY DEF LearningInv, FlowsInv, FlowsFollow, Follows, Deletes
<1> QED
  BY <1>1, <1>2 DEF LearningInv, WaitsOnce, NoneWaits

\* A buffered packet is let go at most once, none waits for an address that is known, and
\* flows follow a host that was seen elsewhere (forwarding/l3_learning.py,
\* _send_lost_buffers, _handle_openflow_PacketIn).
THEOREM WaitsOnceOfLearning ==
  ASSUME BucketLimited PROVE LearningSpec => [](WaitsOnce /\ FlowsFollow)
<1>1. LearningInv /\ [LearningNext]_learningVars => LearningInv'
  BY NextLearning
<1> QED
  BY InitLearning, LearningSound, <1>1, PTL DEF LearningSpec
=============================================================================
