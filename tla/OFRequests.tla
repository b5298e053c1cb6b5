------------------------------ MODULE OFRequests ------------------------------
(***************************************************************************)
(* What the web service asks of a switch.  A request is made in a thread   *)
(* of the web server, which then waits for it up to five seconds; it is    *)
(* begun and answered in POX's own thread, by the events of the switch's   *)
(* connection.  To set the table is to clear it and to add each flow, with *)
(* a barrier after each; the barriers that come back are counted.          *)
(***************************************************************************)
EXTENDS Integers, Sequences

CONSTANTS
  Request,      \* the requests that may be made; each stands for its xid as well
  Flow,         \* flow entries
  RequestKind,  \* what each request does: "stats" asks for the flows, "set" sets them
  Flows,        \* the flows that each wants set
  NoRequest     \* the xid of what nobody waits for

VARIABLES
  later,      \* the requests that are made and not begun, in order
  begun,      \* the requests that are begun
  listeners,  \* the requests that listen to the connection
  count,      \* the barriers that a request to set the table waits for
  _response,  \* what a request found
  outcome,    \* what get_response gave the thread
  toSw,       \* messages to the switch
  toCtl,      \* messages from the switch
  table,      \* the flows of the switch
  open,       \* the connection is open
  shown,      \* history: the table when the switch answered a request for it
  took,       \* history: how many of its flows the switch took
  refused,    \* history: the requests of which it refused a flow
  set,        \* history: the last request to set the table that was begun
  late        \* history: the requests begun after their thread had given up

vars == <<later, begun, listeners, count, _response, outcome, toSw, toCtl, table,
          open, shown, took, refused, set, late>>

None == [is |-> "none"]
Error == [is |-> "error"]
Result(value) == [is |-> "result", value |-> value]

\* A message: what it is, the xid, and the number of a flow or of the
\* barrier behind it, or the table that a reply shows.
Message(op, xid, arg) == [op |-> op, xid |-> xid, arg |-> arg]

Init ==
  /\ later = <<>> /\ begun = {} /\ listeners = {}
  /\ count = [r \in Request |-> 0] /\ _response = [r \in Request |-> None]
  /\ outcome = [r \in Request |-> "none"]
  /\ toSw = <<>> /\ toCtl = <<>> /\ table = {} /\ open = TRUE
  /\ shown = [r \in Request |-> {}] /\ took = [r \in Request |-> 0]
  /\ refused = {} /\ set = NoRequest /\ late = {}

Made == begun \cup {later[i] : i \in DOMAIN later}

\* _finish was called: the thread's wait is over.
Synced(r) == _response[r] # None \/ outcome[r] = "timed out"

-----------------------------------------------------------------------------
\* The thread of the web server.
Make(r) ==
  /\ open /\ r \notin Made
  /\ later' = Append(later, r)
  /\ UNCHANGED <<begun, listeners, count, _response, outcome, toSw, toCtl, table,
                 open, shown, took, refused, set, late>>

\* get_response: the answer, ...
Answered(r) ==
  /\ r \in Made /\ outcome[r] = "none" /\ Synced(r)
  /\ outcome' = [outcome EXCEPT ![r] = "answered"]
  /\ UNCHANGED <<later, begun, listeners, count, _response, toSw, toCtl, table,
                 open, shown, took, refused, set, late>>

\* ... or five seconds went by.  What the thread does then is no longer atomic with that.
WaitEnds(r) ==
  /\ r \in Made /\ outcome[r] = "none" /\ ~Synced(r)
  /\ outcome' = [outcome EXCEPT ![r] = "giving up"]
  /\ UNCHANGED <<later, begun, listeners, count, _response, toSw, toCtl, table,
                 open, shown, took, refused, set, late>>

\* Listeners that are not there yet cannot be removed: that is an exception as well.
Abort(r) ==
  /\ outcome[r] = "giving up"
  /\ outcome' = [outcome EXCEPT ![r] = "timed out"]
  /\ listeners' = listeners \ {r}
  /\ UNCHANGED <<later, begun, count, _response, toSw, toCtl, table, open, shown, took,
                 refused, set, late>>

-----------------------------------------------------------------------------
\* POX's thread.  clear_table, and what each kind of request sends; the description of a
\* switch is asked for as the flows are.
clear_table(xid) == <<Message("clear", xid, 0), Message("barrier", xid, 0)>>

SetMessages(r) ==
  clear_table(r) \o
  [i \in 1..(2 * Len(Flows[r])) |->
     Message(IF i % 2 = 1 THEN "add" ELSE "barrier", r, (i + 1) \div 2)]

\* Mutant: nobody waits for the barrier of the first clear.
OnePerFlow(r) == Len(Flows[r])

\* The barriers that SetMessages has.
Barriers(r) == 1 + Len(Flows[r])

Requested(r) == IF RequestKind[r] = "set" THEN SetMessages(r) ELSE <<Message("stats", r, 0)>>

\* A closed connection takes no messages.
Sent(ms) == toSw' = IF open THEN toSw \o ms ELSE toSw

\* _do_init, which the scheduler calls.
Begin ==
  /\ later # <<>>
  /\ LET r == Head(later)
     IN  /\ later' = Tail(later) /\ begun' = begun \cup {r} /\ listeners' = listeners \cup {r}
         /\ Sent(Requested(r))
         /\ IF RequestKind[r] = "set"
            THEN count' = [count EXCEPT ![r] = Barriers(r)] /\ set' = r
            ELSE UNCHANGED <<count, set>>
         /\ late' = IF outcome[r] = "timed out" THEN late \cup {r} ELSE late
  /\ UNCHANGED <<_response, outcome, toCtl, table, open, shown, took,
                 refused>>

_finish(r, value) ==
  /\ _response' = [_response EXCEPT ![r] = IF @ = None THEN value ELSE @]
  /\ listeners' = listeners \ {r}

\* A request to set the table that is done takes no more barriers and errors; it listens no
\* longer either, so that done is not a variable of its own.
_handle_StatsReceived(r, m) ==
  _finish(r, Result(m.arg)) /\ UNCHANGED <<count, toSw>>

_handle_BarrierIn(r) ==
  /\ count' = [count EXCEPT ![r] = @ - 1] /\ UNCHANGED toSw
  /\ IF count[r] - 1 <= 0 THEN _finish(r, Result(TRUE))
                          ELSE UNCHANGED <<_response, listeners>>

_handle_ErrorIn(r) ==
  /\ _finish(r, Error) /\ UNCHANGED count
  /\ IF RequestKind[r] = "set" THEN Sent(clear_table(NoRequest)) ELSE UNCHANGED toSw

\* A message arrives; only the request that has its xid minds it.
Receive ==
  /\ open /\ toCtl # <<>> /\ toCtl' = Tail(toCtl)
  /\ LET m == Head(toCtl)
     IN  IF m.xid \notin listeners
         THEN UNCHANGED <<_response, listeners, count, toSw>>
         ELSE \/ m.op = "stats" /\ _handle_StatsReceived(m.xid, m)
              \/ m.op = "barrier" /\ _handle_BarrierIn(m.xid)
              \/ m.op = "error" /\ _handle_ErrorIn(m.xid)
  /\ UNCHANGED <<later, begun, outcome, table, open, shown, took, refused, set, late>>

-----------------------------------------------------------------------------
\* The switch takes a message.  It refuses a flow that its table has no room for.
Replies(op, m, arg) == toCtl' = Append(toCtl, Message(op, m.xid, arg))

\* What a request without a match is shown: every flow.
flow_stats == table

SwitchHandles(m) ==
  \/ /\ m.op = "clear" /\ table' = {} /\ UNCHANGED <<toCtl, shown, took, refused>>
  \/ /\ m.op = "add" /\ table' = table \cup {Flows[m.xid][m.arg]}
     /\ took' = [took EXCEPT ![m.xid] = @ + 1] /\ UNCHANGED <<toCtl, shown, refused>>
  \/ /\ m.op = "add" /\ Replies("error", m, 0) /\ refused' = refused \cup {m.xid}
     /\ UNCHANGED <<table, shown, took>>
  \/ /\ m.op = "barrier" /\ Replies("barrier", m, m.arg)
     /\ UNCHANGED <<table, shown, took, refused>>
  \/ /\ m.op = "stats" /\ Replies("stats", m, flow_stats)
     /\ shown' = [shown EXCEPT ![m.xid] = flow_stats] /\ UNCHANGED <<table, took, refused>>

SwitchTakes ==
  /\ open /\ toSw # <<>> /\ toSw' = Tail(toSw) /\ SwitchHandles(Head(toSw))
  /\ UNCHANGED <<later, begun, listeners, count, _response, outcome, open, set, late>>

\* The connection is lost.
Close ==
  /\ open /\ open' = FALSE /\ toSw' = <<>> /\ toCtl' = <<>>
  /\ UNCHANGED <<later, begun, listeners, count, _response, outcome, table, shown,
                 took, refused, set, late>>

Next ==
  \/ \E r \in Request : Make(r) \/ Answered(r) \/ WaitEnds(r) \/ Abort(r)
  \/ Begin \/ Receive \/ SwitchTakes \/ Close

Spec == Init /\ [][Next]_vars

-----------------------------------------------------------------------------
TypeOK ==
  /\ later \in Seq(Request) /\ begun \subseteq Request /\ listeners \subseteq Request
  /\ count \in [Request -> Int]
  /\ DOMAIN _response = Request /\ DOMAIN outcome = Request
  /\ table \subseteq Flow /\ shown \in [Request -> SUBSET Flow] /\ took \in [Request -> Nat]
  /\ open \in BOOLEAN /\ late \subseteq Request /\ refused \subseteq Request

\* When a request to set the table is told that all is well, the switch took each of its
\* flows (webservice.py, OFSetTableRequest._handle_BarrierIn).
AllTaken ==
  \A r \in Request : RequestKind[r] = "set" /\ _response[r].is = "result" => took[r] = Len(Flows[r])

\* A request for the flows is answered with the flows that the switch had when it answered
\* this request (webservice.py, OFFlowStatsRequest).
OwnAnswer ==
  \A r \in Request :
    RequestKind[r] = "stats" => _response[r] \in {None, Error, Result(shown[r])}

\* What was found is what the thread may have, and nothing listens any more; a request
\* listens without a thread only when it was begun after the thread had given up
\* (webservice.py, OFConRequest._finish, get_response).
NobodyLeft ==
  \A r \in Request :
    /\ outcome[r] = "answered" => _response[r] # None
    /\ r \in listeners => /\ outcome[r] # "answered" /\ _response[r] = None
                          /\ outcome[r] = "timed out" => r \in late

\* As long as no request to set the table fails, the table is what the one begun last
\* wanted as soon as that one is told so (webservice.py, OFSetTableRequest).
TableSet ==
  /\ set # NoRequest /\ _response[set].is = "result"
  /\ refused = {}
  => table = {Flows[set][k] : k \in DOMAIN Flows[set]}
=============================================================================
