------------------------------ MODULE Addresses -----------------------------
(***************************************************************************)
(* Ethernet, IPv4 and IPv6 addresses of POX (pox/lib/addresses.py): text,  *)
(* netmasks, prefix lengths and networks.                                  *)
(*                                                                         *)
(* An IPv4 address is the sequence of its bits, from the highest; an IPv6  *)
(* address that of its 16 bit numbers, with a text as split(':') makes it, *)
(* where parts may be empty; an Ethernet address that of its bytes.        *)
(***************************************************************************)
EXTENDS Integers, Sequences, FiniteSets, SequencesExt

CONSTANTS Eth, IPv4, IPv6   \* the addresses to look at

VARIABLES addr, read

addressVars == <<addr, read>>

Error == <<>>   \* RuntimeError
NotCidr == 0 - 1
W4 == 32

-----------------------------------------------------------------------------
(* Bits                                                                    *)

\* ((1 << bits) - 1) << (32 - bits), and the while loop that counts ones.
cidr_to_netmask(bits) == [i \in 1..W4 |-> IF i <= bits THEN 1 ELSE 0]
Ones(mask) == CHOOSE n \in 0..Len(mask) :
  /\ \A i \in 1..n : mask[i] = 1
  /\ n < Len(mask) => mask[n + 1] = 0

netmask_to_cidr(mask) ==
  IF \A i \in (Ones(mask) + 1)..Len(mask) : mask[i] = 0 THEN Ones(mask) ELSE NotCidr

HostIsZero(a, bits) == \A i \in (bits + 1)..Len(a) : a[i] = 0
Masked(a, bits) == [i \in DOMAIN a |-> IF i <= bits THEN a[i] ELSE 0]

\* Network classes: A, B, C; others are hosts.  0.0.0.0 is everything.
infer_netmask(a) ==
  CASE \A i \in DOMAIN a : a[i] = 0 -> 0
    [] a[1] = 0 /\ \E i \in DOMAIN a : a[i] # 0 -> 8
    [] a[1] = 1 /\ a[2] = 0 -> 16
    [] a[1] = 1 /\ a[2] = 1 /\ a[3] = 0 -> 24
    [] OTHER -> 32

\* parse_cidr.  net is [kind |-> "none"], "bits" with n, or "mask" with mask.
NoNet == [kind |-> "none"]
Bits(n) == [kind |-> "bits", n |-> n]
Mask(m) == [kind |-> "mask", mask |-> m]

Checked(a, bits, allow_host) == IF allow_host \/ HostIsZero(a, bits) THEN <<a, bits>> ELSE Error

parse_cidr(a, net, infer, allow_host) ==
  CASE net.kind = "none" /\ ~infer -> Checked(a, W4, allow_host)
    [] net.kind = "none" /\ infer ->
         IF HostIsZero(a, infer_netmask(a)) THEN Checked(a, infer_netmask(a), allow_host)
         ELSE Checked(a, W4, allow_host)
    [] net.kind = "bits" -> Checked(a, net.n, allow_host)
    [] net.kind = "mask" ->
         IF netmask_to_cidr(net.mask) = NotCidr THEN Error
         ELSE Checked(a, Ones(net.mask), allow_host)

inNetwork(a, network) == Masked(a, network[2]) = network[1]

get_network(a, net) ==
  LET bits == parse_cidr(cidr_to_netmask(W4), net, TRUE, TRUE)[2] IN <<Masked(a, bits), bits>>

-----------------------------------------------------------------------------
(* IPv6                                                                    *)

Groups == 8
is_ipv4_mapped(a) == SubSeq(a, 1, 6) = <<0, 0, 0, 0, 0, 65535>>
Empty == [kind |-> "empty"]
Part(p) == [kind |-> "number", part |-> p]
Dotted(a) == [kind |-> "v4", v4 |-> SubSeq(a, 7, 8)]

\* The runs of zeroes: <<position, length>>.
Runs(o) ==
  {r \in (1..Groups) \X (1..Groups) :
     LET i == r[1]
         next == r[1] + r[2]
     IN  /\ next - 1 <= Groups
         /\ \A k \in i..(next - 1) : o[k] = 0
         /\ i > 1 => o[i - 1] # 0
         /\ next <= Groups => o[next] # 0}

\* Of the longest the first is dropped, if it is longer than one.
Dropped(o) == {r \in Runs(o) : /\ r[2] > 1
                               /\ \A q \in Runs(o) : r[2] > q[2] \/ (r[2] = q[2] /\ r[1] <= q[1])}

Side(o) == IF o = <<>> THEN <<Empty>> ELSE [i \in DOMAIN o |-> Part(o[i])]

Written(o) ==
  IF Dropped(o) = {} THEN Side(o)
  ELSE LET r == CHOOSE r \in Dropped(o) : TRUE
       IN Side(SubSeq(o, 1, r[1] - 1)) \o <<Empty>> \o Side(SubSeq(o, r[1] + r[2], Groups))

\* to_str.  In mixed notation two ones stand for the IPv4 address, so as not to be dropped.
Stand(a) == SubSeq(a, 1, 6) \o <<1, 1>>

to_str(a, section_drop, mixed) ==
  LET o == IF mixed THEN Stand(a) ELSE a
      text == IF section_drop THEN Written(o) ELSE Side(o)
  IN IF mixed THEN SubSeq(text, 1, Len(text) - 2) \o <<Dotted(a)>> ELSE text

\* Where the text has "::", which is counted from left to right and not twice: ":::" has one.
Gaps(segs) ==
  LET inner == {i \in 2..(Len(segs) - 1) : segs[i] = Empty}
      before(i) == i - Max({k \in 1..i : k \notin inner})
  IN {i \in inner : before(i) % 2 = 1}

Fits(seg) == seg = Empty \/ (seg.kind = "number" /\ seg.part \in 0..65535)
Numbers(segs) ==
  LET filled == SelectSeq(segs, LAMBDA s : s # Empty) IN [i \in DOMAIN filled |-> filled[i].part]

\* IPAddr6(text).  For an IPv4 part :0:0 is read first.  What is missing are zeroes between
\* the sides, also where there is no gap: then all is on the left one.
from_str(text) ==
  LET mixed == Last(text).kind = "v4"
      segs == IF mixed THEN Front(text) \o <<Part(0), Part(0)>> ELSE text
      empty == {i \in DOMAIN segs : segs[i] = Empty}
      split == IF empty = {} THEN Len(segs) ELSE Min(empty)
      left == Numbers(SubSeq(segs, 1, split))
      right == Numbers(SubSeq(segs, split + 1, Len(segs)))
      value == left \o [i \in 1..(Groups - Len(left) - Len(right)) |-> 0] \o right
  IN CASE mixed /\ Len(text) = 1 -> Error
       [] Cardinality(Gaps(segs)) > 1 -> Error
       [] Len(segs) \notin 3..Groups -> Error
       [] \E i \in DOMAIN segs : ~Fits(segs[i]) -> Error
       [] mixed -> SubSeq(value, 1, 6) \o Last(text).v4
       [] OTHER -> value

\* IPAddr6.parse_cidr, of the bits: no class is inferred.
W6 == 128
Bits6(a) == [i \in 1..W6 |-> (a[1 + (i - 1) \div 16] \div 2 ^ (15 - ((i - 1) % 16))) % 2]
parse_cidr6(a, net, allow_host) ==
  CASE net.kind = "none" -> Checked(a, W6, allow_host)
    [] net.kind = "bits" -> Checked(a, net.n, allow_host)
    [] net.kind = "mask" ->
         IF netmask_to_cidr(net.mask) = NotCidr THEN Error
         ELSE Checked(a, Ones(net.mask), allow_host)

-----------------------------------------------------------------------------
(* Ethernet: a text is a sequence of digits, 0 to 15, colons and dashes.   *)

Colon == 16
Dash == 17
Separator == {<<Colon>>, <<Dash>>, <<>>}
Digits(x) == <<x \div 16, x % 16>>

\* "%02x": without zeroes in front, but two digits at least.
Padded(part) ==
  LET short == [i \in 1..(2 - Len(part)) |-> 0] \o part
      first == {i \in 1..(Len(short) - 2) : \A k \in 1..i : short[k] = 0}
  IN SubSeq(short, Cardinality(first) + 1, Len(short))

\* text.split(":")
Parts(text) ==
  LET ends == SetToSortSeq({i \in DOMAIN text : text[i] = Colon}, <) \o <<Len(text) + 1>>
  IN [k \in DOMAIN ends |->
        SubSeq(text, IF k = 1 THEN 1 ELSE ends[k - 1] + 1, ends[k] - 1)]
Numeric(part) == part # <<>> /\ \A i \in DOMAIN part : part[i] \in 0..15

\* to_str: two digits for each byte.
eth_to_str(a, sep) ==
  FlattenSeq([i \in DOMAIN a |-> (IF i = 1 THEN <<>> ELSE sep) \o Digits(a[i])])

\* The digits that the forms of EthAddr(text) come down to.  Twelve characters are taken
\* for twelve digits, also where some are colons.
TwelveDigits(text) == Len(text) = 12
HexDigits(text) ==
  CASE Len(text) = 17 ->
         IF \E c \in {Colon, Dash} : \A i \in 1..5 : text[3 * i] = c
         THEN FlattenSeq([i \in 1..6 |-> SubSeq(text, 3 * i - 2, 3 * i - 1)])
         ELSE Error
    [] TwelveDigits(text) -> text
    [] OTHER -> IF /\ Len(SelectSeq(text, LAMBDA c : c = Colon)) = 5
                   /\ \A i \in 1..6 : Numeric(Parts(text)[i])
                THEN FlattenSeq([i \in 1..6 |-> Padded(Parts(text)[i])])
                ELSE Error

\* EthAddr(text), unless it is of six bytes.
eth_from_str(text) ==
  LET hex == HexDigits(text) IN
  IF Len(hex) >= 12 /\ Numeric(SubSeq(hex, 1, 12))
  THEN [i \in 1..6 |-> 16 * hex[2 * i - 1] + hex[2 * i]] ELSE Error

-----------------------------------------------------------------------------
AddressesInit == addr = <<>> /\ read = {}

\* An address is written in every way that there is, and read.
Take4 ==
  /\ addr = <<>>
  /\ \E a \in IPv4 :
       /\ addr' = a
       /\ read' = {<<get_network(a, Bits(n)), get_network(a, Mask(cidr_to_netmask(n))),
                     parse_cidr(a, Bits(n), TRUE, FALSE)>> : n \in 0..W4}

Take6 ==
  /\ addr = <<>>
  /\ \E a \in IPv6 :
       /\ addr' = a
       /\ read' = {from_str(to_str(a, drop, mixed)) : drop \in BOOLEAN,
                     mixed \in {is_ipv4_mapped(a), TRUE}}

\* Without the zero in front of a digit, at any of the bytes.
Shortened(a, at) ==
  Tail(FlattenSeq([i \in 1..6 |-> <<Colon>> \o IF i \in at THEN <<a[i]>> ELSE Digits(a[i])]))
TakeEth ==
  /\ addr = <<>>
  /\ \E a \in Eth :
       /\ addr' = a
       /\ read' = {eth_from_str(eth_to_str(a, sep)) : sep \in Separator} \cup
                  {eth_from_str(text) : text \in
                     {t \in {Shortened(a, at) : at \in SUBSET {i \in 1..6 : a[i] < 16}} :
                        ~TwelveDigits(t)}}

AddressesNext == TakeEth \/ Take4 \/ Take6

AddressesSpec == AddressesInit /\ [][AddressesNext]_addressVars

-----------------------------------------------------------------------------
\* An IPv6 address is read as it was written, with or without a run of zeroes dropped, and
\* with IPv4's notation at the end; an Ethernet address in all forms but that of seven digits
\* with colons.  An IPv4 address is in the networks that its prefixes and netmasks make, which
\* are read as networks, as itself is for those without a host part.
ReadAsWritten ==
  IF addr \in IPv6 \cup Eth THEN read = {addr}
  ELSE \A r \in read :
         /\ r[1] = r[2] /\ inNetwork(addr, r[1])
         /\ parse_cidr(r[1][1], Bits(r[1][2]), TRUE, FALSE) = r[1]
         /\ (r[3] # Error) <=> (addr = r[1][1])

\* A text with a second gap does not say how long each is: it is refused.
SecondGap(t, k) == SubSeq(t, 1, k) \o <<Empty>> \o SubSeq(t, k + 1, Len(t))
SecondGapRefused ==
  addr \in IPv6 /\ Dropped(addr) # {} =>
    LET t == Written(addr) IN
    \A k \in 1..(Len(t) - 1) :
      Empty \notin {t[k], t[k + 1]} => from_str(SecondGap(t, k)) = Error

\* The network that a prefix makes of an IPv6 address has it, as a netmask says it too; the
\* address itself is one only if it has no host part.
NetworksRight ==
  addr \in IPv6 =>
    \A n \in {0, 1, 15, 16, 17, 96, 127, 128} :
      LET b == Bits6(addr)
          network == parse_cidr6(Masked(b, n), Bits(n), FALSE)
      IN /\ network = parse_cidr6(Masked(b, n), Mask(Masked([i \in 1..W6 |-> 1], n)), FALSE)
         /\ inNetwork(b, network)
         /\ (parse_cidr6(b, Bits(n), FALSE) = Error) <=> b # network[1]

AddressesReadBack == ReadAsWritten /\ SecondGapRefused /\ NetworksRight
=============================================================================
