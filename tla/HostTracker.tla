----------------------------- MODULE HostTracker ----------------------------
(***************************************************************************)
(* POX's host tracker (pox/host_tracker/host_tracker.py): where a host was *)
(* seen, with which addresses, and the pings for what was quiet for long.  *)
(*                                                                         *)
(* One host, which moves between places <<switch, port>> and changes its   *)
(* address.  Time is counted in rounds of _check_timeouts; a ping that was *)
(* not answered by the next round is lost.                                 *)
(***************************************************************************)
EXTENDS Integers

CONSTANTS
  Place, Ip,
  pingLim, arpAware, arpSilent,   \* the latter two in rounds
  MaxSteps                        \* bound: what the host and the switches do of themselves

VARIABLES
  entry,        \* in entryByMAC, of the host, or NoEntry
  pings,        \* on their way: places and addresses
  at, ip,       \* where the host is, and its address
  connected,    \* switches
  missed,       \* the addresses with a ping that was lost after their last ARP packet
  steps

vars == <<entry, pings, at, ip, connected, missed, steps>>

NoEntry == [dpid |-> 0]
NoIp == [hasARP |-> FALSE, seen |-> 0 - 1, pending |-> 0]
Known == entry # NoEntry
IpEntry(hasARP) == [hasARP |-> hasARP, seen |-> 0, pending |-> 0]
MacEntry(place) ==
  [dpid |-> place[1], port |-> place[2], seen |-> 0, ipAddrs |-> [i \in Ip |-> NoIp]]

Init ==
  /\ entry = NoEntry /\ pings = {} /\ at \in Place /\ ip \in Ip
  /\ connected = {p[1] : p \in Place} /\ missed = {} /\ steps = 0

Step == steps < MaxSteps /\ steps' = steps + 1

-----------------------------------------------------------------------------
(* Packets of the host                                                     *)

\* Mutant: an answer takes one ping off the count.
OneAnswered(pending) == IF pending > 0 THEN pending - 1 ELSE 0
received(pending) == 0

updateIPInfo(e, hasARP) ==
  LET old == e.ipAddrs[ip]
      now == IF old = NoIp THEN IpEntry(hasARP) ELSE [old EXCEPT !.seen = 0]
  IN [e EXCEPT !.ipAddrs[ip] = [now EXCEPT !.pending = IF hasARP THEN received(@) ELSE @]]

\* A host that moved: macEntry.inport is set, and macEntry.port is not.
Located == IF ~Known THEN MacEntry(at)
           ELSE IF <<entry.dpid, entry.port>> # at THEN [entry EXCEPT !.dpid = at[1]] ELSE entry

_handle_openflow_PacketIn(hasARP) ==
  /\ at[1] \in connected
  /\ entry' = updateIPInfo([Located EXCEPT !.seen = 0], hasARP)

Speaks ==
  /\ Step
  /\ \E hasARP \in BOOLEAN :
       _handle_openflow_PacketIn(hasARP) /\ missed' = (IF hasARP THEN missed \ {ip} ELSE missed)
  /\ UNCHANGED <<pings, at, ip, connected>>

\* A ping finds the host, and the flow for ping_src_mac sends its reply to the controller.
Answers ==
  /\ <<at, ip>> \in pings /\ pings' = pings \ {<<at, ip>>}
  /\ _handle_openflow_PacketIn(TRUE) /\ missed' = missed \ {ip}
  /\ UNCHANGED <<at, ip, connected, steps>>

MovesOrChanges ==
  /\ Step
  /\ \/ at' \in Place \ {at} /\ UNCHANGED <<ip, connected>>
     \/ ip' \in Ip \ {ip} /\ UNCHANGED <<at, connected>>
     \/ /\ \E s \in {p[1] : p \in Place} :
             connected' = IF s \in connected THEN connected \ {s} ELSE connected \cup {s}
        /\ UNCHANGED <<at, ip>>
  /\ UNCHANGED <<entry, pings, missed>>

-----------------------------------------------------------------------------
(* _check_timeouts                                                         *)

Interval(e) == IF e.hasARP THEN arpAware ELSE arpSilent
Expired(e) == e # NoIp /\ e.seen >= Interval(e)
failed(e) == e.pending > pingLim

\* A ping is counted by sendPing, and once more by its caller.
Checked(e) ==
  IF ~Expired(e) THEN e
  ELSE IF failed(e) \/ entry.dpid \notin connected THEN NoIp
  ELSE [e EXCEPT !.pending = @ + 2]
Pinged == {i \in Ip : Expired(entry.ipAddrs[i]) /\ ~failed(entry.ipAddrs[i])}

Older(seen) == IF seen < arpAware + arpSilent THEN seen + 1 ELSE seen
AgedAddress(a) == IF a = NoIp THEN NoIp ELSE [a EXCEPT !.seen = Older(a.seen)]
Aged(e) ==
  [e EXCEPT !.seen = Older(e.seen), !.ipAddrs = [i \in Ip |-> AgedAddress(e.ipAddrs[i])]]

_check_timeouts ==
  /\ Known
  /\ LET checked == [entry EXCEPT !.ipAddrs = [i \in Ip |-> Checked(entry.ipAddrs[i])]]
     IN entry' = IF entry.seen >= arpAware /\ Pinged = {} THEN NoEntry ELSE Aged(checked)
  /\ pings' = IF entry.dpid \in connected
              THEN {<<<<entry.dpid, entry.port>>, i>> : i \in Pinged} ELSE {}
  /\ missed' = missed \cup {p[2] : p \in pings}
  /\ UNCHANGED <<at, ip, connected, steps>>

Next == Speaks \/ Answers \/ MovesOrChanges \/ _check_timeouts

Spec == Init /\ [][Next]_vars

-----------------------------------------------------------------------------
\* A host that is known to answer ARP, that is where the tracker has it, and that answers
\* every ping is never given up, for however long it says nothing of itself.
HostStays ==
  (/\ Known /\ entry.ipAddrs[ip].hasARP
   /\ <<entry.dpid, entry.port>> = at /\ entry.dpid \in connected
   /\ ip \notin missed' /\ UNCHANGED <<at, ip>>)
  => entry' # NoEntry /\ entry'.ipAddrs[ip] # NoIp
=============================================================================
