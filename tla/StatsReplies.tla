----------------------------- MODULE StatsReplies -----------------------------
(***************************************************************************)
(* Statistics of a switch, as the controller asks for them.  A reply may   *)
(* come in several messages, its parts; the connection collects them in    *)
(* _previous_stats and raises one event for the whole reply.  POX's own    *)
(* switch answers each request with one message, in the order they came;   *)
(* another switch may split its replies and intersperse them, which the    *)
(* controller assumes it does not.                                         *)
(***************************************************************************)
EXTENDS Integers, Sequences

CONSTANTS
  Request,       \* what may be asked: records [type, there], where `there` says that the
                 \* table, the port or the queues that it is about exist
  MaxRequests,   \* bound: requests
  MaxParts       \* bound: parts of a reply

\* The statistics that are lists, and may so be continued in a further message.
Lists == {"flow", "table", "port", "queue"}
Handled == Lists \cup {"desc", "aggregate"}
Types == Handled \cup {"vendor"}

VARIABLES
  own,             \* the switch is POX's own
  asked,           \* the requests made, by xid
  done,            \* the xids the switch has done with
  sent,            \* how many messages it sent for an xid
  toCtl,           \* messages on the way to the controller
  open,            \* the controller's side of the connection is open
  _previous_stats, \* parts of a reply that is not complete
  raised,          \* history: the parts that came with each event
  came,            \* history: how many messages for an xid the controller handled
  undisturbed      \* history: the xids whose reply began when no other was under way

vars == <<own, asked, done, sent, toCtl, open, _previous_stats, raised, came, undisturbed>>

Xid == DOMAIN asked

-----------------------------------------------------------------------------
\* What POX's switch does with a request: the name of a table is text, which it cannot
\* pack; a port that is not there is an exception; flows of another table are an empty
\* list, which is no reply to a request for an aggregate.
Answer(q) ==
  CASE q.type = "table" \/ (q.type = "port" /\ ~q.there) -> "nothing"
    [] q.type = "vendor" \/ (q.type = "queue" /\ ~q.there) -> "error"
    [] q.type = "aggregate" /\ ~q.there -> "unreadable"
    [] OTHER -> "reply"

\* What a message for x is.
Message(x, kind, last) ==
  [xid |-> x, type |-> asked[x].type, kind |-> kind, n |-> sent[x] + 1, last |-> last]

Init ==
  /\ own \in BOOLEAN
  /\ asked = <<>> /\ done = {} /\ sent = <<>> /\ toCtl = <<>> /\ open = TRUE
  /\ _previous_stats = <<>> /\ raised = <<>> /\ came = <<>> /\ undisturbed = {}

\* A component asks.
Ask ==
  /\ open /\ Len(asked) < MaxRequests
  /\ \E q \in Request : asked' = Append(asked, q)
  /\ sent' = Append(sent, 0) /\ came' = Append(came, 0)
  /\ UNCHANGED <<own, done, toCtl, open, _previous_stats, raised, undisturbed>>

UnderWay(x) == {y \in Xid \ done : y # x /\ sent[y] > 0}

\* The switch sends a message for x.  A part that is not the last of something that is no
\* list makes the controller forget what it has.
Sends(x, kind, last) ==
  LET cuts == ~last /\ asked[x].type \notin Lists
  IN  /\ toCtl' = Append(toCtl, Message(x, kind, last))
      /\ sent' = [sent EXCEPT ![x] = @ + 1]
      /\ done' = IF last THEN done \cup {x} ELSE done
      /\ undisturbed' =
           (undisturbed \cup (IF sent[x] = 0 /\ UnderWay(x) = {} THEN {x} ELSE {}))
           \ (IF cuts THEN UnderWay(x) \cup {x} ELSE {})

\* POX's switch: requests are handled one by one.
_rx_stats_request(x) ==
  /\ own /\ open /\ x \notin done /\ 1..(x - 1) \subseteq done
  /\ \/ /\ Answer(asked[x]) = "nothing"
        /\ done' = done \cup {x} /\ UNCHANGED <<sent, toCtl, undisturbed>>
     \/ /\ Answer(asked[x]) # "nothing"
        /\ Sends(x, Answer(asked[x]), TRUE)
  /\ UNCHANGED <<own, asked, open, _previous_stats, raised, came>>

\* Another switch: any part of any reply.
OtherSends(x) ==
  /\ ~own /\ open /\ x \notin done /\ sent[x] < MaxParts
  /\ \E last \in BOOLEAN : Sends(x, "reply", last)
  /\ UNCHANGED <<own, asked, open, _previous_stats, raised, came>>

-----------------------------------------------------------------------------
\* Mutant: whatever comes is taken for the next part.
TakesAny(m) == m.xid # 0

Continues(m) == m.xid = _previous_stats[1].xid /\ m.type = _previous_stats[1].type

\* _incoming_stats_reply.  When m does not continue what there is, the text of the
\* complaint is an exception: m is dropped, and _previous_stats stays.
Forget(m) ==
  /\ ~m.last /\ m.type \notin Lists
  /\ _previous_stats' = <<>> /\ UNCHANGED raised

Refuse(m) ==
  /\ m.last \/ m.type \in Lists
  /\ _previous_stats # <<>> /\ ~Continues(m)
  /\ UNCHANGED <<_previous_stats, raised>>

Collect(m) ==
  /\ m.last \/ m.type \in Lists
  /\ _previous_stats # <<>> => Continues(m)
  /\ LET parts == Append(_previous_stats, m)
     IN  /\ _previous_stats' = IF m.last THEN <<>> ELSE parts
         /\ raised' = IF m.last /\ m.type \in Handled THEN Append(raised, parts) ELSE raised

_incoming_stats_reply(m) == Forget(m) \/ Refuse(m) \/ Collect(m)

\* The controller reads a message.  One that it cannot unpack ends the connection.
Read ==
  /\ open /\ toCtl # <<>>
  /\ LET m == Head(toCtl)
     IN  /\ toCtl' = Tail(toCtl)
         /\ IF m.kind = "unreadable"
            THEN open' = FALSE /\ UNCHANGED <<_previous_stats, raised, came>>
            ELSE /\ came' = [came EXCEPT ![m.xid] = m.n]
                 /\ UNCHANGED open
                 /\ IF m.kind = "error"
                    THEN raised' = Append(raised, <<m>>) /\ UNCHANGED _previous_stats
                    ELSE _incoming_stats_reply(m)
  /\ UNCHANGED <<own, asked, done, sent, undisturbed>>

Next == Ask \/ Read \/ \E x \in Xid : _rx_stats_request(x) \/ OtherSends(x)

Spec == Init /\ [][Next]_vars

-----------------------------------------------------------------------------
Part == [xid : Nat \ {0}, type : Types, kind : {"reply", "error", "unreadable"},
         n : Nat \ {0}, last : BOOLEAN]

TypeOK ==
  /\ own \in BOOLEAN /\ open \in BOOLEAN
  /\ asked \in Seq(Request) /\ done \subseteq Xid /\ undisturbed \subseteq Xid
  /\ sent \in [Xid -> Nat] /\ came \in [Xid -> Nat]
  /\ toCtl \in Seq(Part) /\ _previous_stats \in Seq(Part) /\ raised \in Seq(Seq(Part))

\* p is parts of one reply, each the one after the one before, and only the last of them
\* may be its end.
OneReply(p) ==
  /\ p # <<>>
  /\ \A k \in DOMAIN p : /\ p[k].xid = p[1].xid /\ p[k].n = p[1].n + k - 1
                         /\ p[k].last => k = Len(p)

\* An event has parts of one reply, up to its end, and from its beginning if the reply
\* began when the switch was sending no other; no reply is raised twice
\* (_incoming_stats_reply).
WholeReplies ==
  /\ \A e \in DOMAIN raised :
       /\ OneReply(raised[e]) /\ raised[e][Len(raised[e])].last
       /\ raised[e][1].xid \in undisturbed => raised[e][1].n = 1
  /\ \A d, e \in DOMAIN raised : raised[d][1].xid = raised[e][1].xid => d = e

\* A reply that began when the switch was sending no other is raised when all of it came,
\* whatever else came in between (_incoming_stats_reply).
RepliesRaised ==
  \A x \in undisturbed \cap done :
     came[x] = sent[x] /\ asked[x].type # "vendor"
       => \E e \in DOMAIN raised : raised[e][1].xid = x
=============================================================================
