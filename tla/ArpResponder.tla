---------------------------- MODULE ArpResponder ----------------------------
(***************************************************************************)
(* POX's ARP responder (pox/proto/arp_responder.py): it answers ARP for    *)
(* the addresses that it was configured with, and for those it learned     *)
(* from ARP, whichever switch asks.                                        *)
(***************************************************************************)
EXTENDS Integers

CONSTANTS
  Ip, Mac, Switch,
  Config,      \* address -> Own, or a MAC; those that are given to launch
  MaxPackets   \* bound

VARIABLES
  arp_table,   \* address -> Entry or NoEntry
  connected,
  out,         \* what became of the last packet
  set,         \* address -> what it was configured with last, or NoMac
  said,        \* address -> the MAC that ARP named since, or NoMac
  packets

vars == <<arp_table, connected, out, set, said, packets>>

Own == "own"      \* True: the MAC of the switch that asks
NoMac == "none"
NoEntry == [mac |-> NoMac, static |-> FALSE, flood |-> TRUE]

\* Entry(mac) and Entry(mac, static = True)
Learned(mac) == [mac |-> mac, static |-> FALSE, flood |-> TRUE]
Configured(mac) == [mac |-> mac, static |-> TRUE, flood |-> mac # Own]

Init ==
  /\ arp_table = [i \in Ip |-> IF i \in DOMAIN Config THEN Configured(Config[i]) ELSE NoEntry]
  /\ connected = {} /\ out = [kind |-> "none"]
  /\ set = [i \in Ip |-> IF i \in DOMAIN Config THEN Config[i] ELSE NoMac]
  /\ said = [i \in Ip |-> NoMac] /\ packets = 0

-----------------------------------------------------------------------------
\* The flow that sends ARP to the controller.
ConnectionUp ==
  /\ \E s \in Switch \ connected : connected' = connected \cup {s}
  /\ UNCHANGED <<arp_table, out, set, said, packets>>

\* The console sets an entry, which is static, or deletes one.
SetEntry ==
  /\ packets < MaxPackets /\ packets' = packets + 1
  /\ \E i \in Ip, mac \in Mac \cup {Own, NoMac} :
       /\ arp_table' = [arp_table EXCEPT ![i] = IF mac = NoMac THEN NoEntry ELSE Configured(mac)]
       /\ set' = [set EXCEPT ![i] = mac] /\ said' = [said EXCEPT ![i] = NoMac]
  /\ out' = [kind |-> "none"] /\ UNCHANGED connected

\* An entry with the MAC of the packet, which compares equal, is made anew: it is not static
\* any more.  Mutant: so is one that the switch answers for.
Same(old, mac) == old.mac = mac
AlsoOwn(old, mac) ==
  IF Same(old, mac) \/ ~old.static \/ old.mac = Own THEN Learned(mac) ELSE old
AfterSource(old, mac) ==
  IF old = NoEntry \/ (old.mac # Own /\ (Same(old, mac) \/ ~old.static)) THEN Learned(mac) ELSE old

MacOf(entry, s) == IF entry.mac = Own THEN <<Own, s>> ELSE <<entry.mac>>
Answer(to, table, s) == [kind |-> "answer", for |-> to, mac |-> MacOf(table[to], s), by |-> s]

_check_for_flood(table, to) == table[to].flood

\* from is 0.0.0.0 in a probe, from which nothing is learned and that is not answered.
_handle_PacketIn ==
  /\ packets < MaxPackets /\ packets' = packets + 1
  /\ \E s \in connected, from \in Ip, mac \in Mac, to \in Ip, request, probe, learn \in BOOLEAN :
       LET table == IF learn /\ ~probe
                    THEN [arp_table EXCEPT ![from] = AfterSource(@, mac)] ELSE arp_table
       IN /\ arp_table' = table
          /\ said' = IF learn /\ ~probe THEN [said EXCEPT ![from] = mac] ELSE said
          /\ out' = IF request /\ ~probe /\ table[to] # NoEntry THEN Answer(to, table, s)
                    ELSE [kind |-> IF _check_for_flood(table, to) THEN "flood" ELSE "none"]
  /\ UNCHANGED <<connected, set>>

Expires(entry) == entry # NoEntry /\ ~entry.static
_handle_expiration ==
  /\ \E old \in SUBSET {i \in Ip : Expires(arp_table[i])} :
       old # {} /\ arp_table' = [i \in Ip |-> IF i \in old THEN NoEntry ELSE arp_table[i]]
  /\ UNCHANGED <<connected, out, set, said, packets>>

Next == ConnectionUp \/ SetEntry \/ _handle_PacketIn \/ _handle_expiration

Spec == Init /\ [][Next]_vars

-----------------------------------------------------------------------------
\* An address that the switches answer for is never taken over, whatever ARP says and however
\* long it is quiet, until the console says so; each switch answers with its own MAC.  For
\* the others, what is not static is what ARP said last.
AnswersRight ==
  /\ \A i \in Ip :
       /\ set[i] = Own => arp_table[i].mac = Own
       /\ Expires(arp_table[i]) => arp_table[i].mac = said[i]
  /\ out.kind = "answer" => (set[out.for] = Own <=> out.mac = <<Own, out.by>>)
=============================================================================
