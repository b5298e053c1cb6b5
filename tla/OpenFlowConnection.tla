------------------------- MODULE OpenFlowConnection -------------------------
(***************************************************************************)
(* The OpenFlow session between POX (pox/openflow/of_01.py, __init__.py)   *)
(* and a switch (pox/datapaths/switch.py): the handshake, the ports the    *)
(* controller knows, the events it raises and the nexus that finds the     *)
(* connection of a switch.                                                 *)
(*                                                                         *)
(* One switch connects again whenever its session is lost, so the          *)
(* controller may hold several connections of one DPID.  The controller is *)
(* a cooperative task that reads one connection after the other; the       *)
(* switch, the network and the thread of DeferredSender are beside it.     *)
(* Messages without an effect on these (SET_CONFIG, the FLOW_MOD that      *)
(* clears the table, the description) are left out.                        *)
(***************************************************************************)
EXTENDS Integers, Sequences

CONSTANTS
  Port,       \* ports of the switch
  MaxCon,     \* bound: sessions
  MaxSteps    \* bound: port changes, echoes and requests of applications

Con == 1..MaxCon
NoCon == 0

VARIABLES
  swPorts, swCon, helloSent,  \* the switch: its ports, its session, _has_sent_hello
  barriers,      \* whether it knows barriers (some do not)
  tcp,           \* [Con -> {"none", "open", "broken"}]
  toCtl, toSw,   \* [Con -> messages on the way]
  con,           \* [Con -> a Connection]
  polled,        \* connections OpenFlow_01_Task selects on
  nexus,         \* OpenFlowNexus._connections[dpid]
  ups, downs,    \* [Con -> how often ConnectionUp, ConnectionDown was raised]
  steps          \* for the bound

switchVars == <<swPorts, swCon, helloSent, barriers>>
netVars == <<tcp, toCtl, toSw>>
ctlVars == <<con, polled, nexus, ups, downs>>
vars == <<switchVars, netVars, ctlVars, steps>>

\* "deferred" is _deferred_port_status, Nothing for its None.
Nothing == <<"None">>
NewConnection ==
  [handlers |-> "handshake", requested |-> FALSE, barrier |-> FALSE,
   dpid |-> FALSE, deferred |-> Nothing, ports |-> {},
   disconnected |-> FALSE, raised |-> FALSE]

Init ==
  /\ swPorts \in {Port, {}} /\ swCon = NoCon /\ helloSent = FALSE
  /\ barriers \in BOOLEAN
  /\ tcp = [c \in Con |-> "none"]
  /\ toCtl = [c \in Con |-> <<>>] /\ toSw = [c \in Con |-> <<>>]
  /\ con = [c \in Con |-> NewConnection] /\ polled = {}
  /\ nexus = NoCon
  /\ ups = [c \in Con |-> 0] /\ downs = [c \in Con |-> 0]
  /\ steps = 0

Bounded == steps < MaxSteps /\ steps' = steps + 1

-----------------------------------------------------------------------------
(* The network and the switch. *)

\* OpenFlowWorker._handle_connect, set_connection: a session once the last one
\* is gone.  open_later tries again without end.
Connect(c) ==
  /\ tcp[c] = "none" /\ \A d \in Con : d < c => tcp[d] # "none"
  /\ swCon # NoCon => tcp[swCon] = "broken"
  /\ tcp' = [tcp EXCEPT ![c] = "open"]
  /\ swCon' = c /\ helloSent' = FALSE
  /\ UNCHANGED <<swPorts, barriers, toCtl, toSw, ctlVars, steps>>

\* The session breaks, and what was on the way may be lost.
Break(c) ==
  /\ tcp[c] = "open"
  /\ tcp' = [tcp EXCEPT ![c] = "broken"]
  /\ \E k \in 0..Len(toCtl[c]) : toCtl' = [toCtl EXCEPT ![c] = SubSeq(@, 1, k)]
  /\ toSw' = [toSw EXCEPT ![c] = <<>>]
  /\ UNCHANGED <<switchVars, ctlVars, steps>>

\* SoftwareSwitchBase.send
SwitchSends(msgs) ==
  toCtl' = IF swCon = NoCon \/ tcp[swCon] # "open" THEN toCtl
           ELSE [toCtl EXCEPT ![swCon] = @ \o msgs]

\* _rx_hello, _rx_features_request, _rx_barrier_request.
Answer(m) ==
  CASE m = "hello" -> IF helloSent THEN <<>> ELSE <<<<"hello">>>>
    [] m = "features" -> <<<<"features", swPorts>>>>
    [] m = "barrier" -> IF barriers THEN <<<<"barrier">>>> ELSE <<<<"bad type">>>>
    [] OTHER -> <<>>

SwitchReads ==
  /\ swCon # NoCon /\ toSw[swCon] # <<>>
  /\ SwitchSends(Answer(Head(toSw[swCon])))
  /\ toSw' = [toSw EXCEPT ![swCon] = Tail(@)]
  /\ helloSent' = (helloSent \/ Head(toSw[swCon]) = "hello")
  /\ UNCHANGED <<swPorts, swCon, barriers, tcp, ctlVars, steps>>

\* add_port, delete_port
ChangePort(p) ==
  /\ Bounded
  /\ swPorts' = IF p \in swPorts THEN swPorts \ {p} ELSE swPorts \cup {p}
  /\ SwitchSends(<<<<"port", p, p \notin swPorts>>>>)
  /\ UNCHANGED <<swCon, helloSent, barriers, tcp, toSw, ctlVars>>

Echo ==
  /\ Bounded
  /\ swCon # NoCon /\ tcp[swCon] = "open"
  /\ SwitchSends(<<<<"echo">>>>)
  /\ UNCHANGED <<switchVars, tcp, toSw, ctlVars>>

-----------------------------------------------------------------------------
(* Connection, on the controller. *)

\* disconnect(): the nexus forgets the DPID, whatever connection it has for it,
\* and ConnectionDown is raised unless it was.
Disconnect(c, r) ==
  LET tell == r.dpid /\ ~r.raised IN
  /\ con' = [con EXCEPT ![c] = [r EXCEPT !.disconnected = TRUE,
                                         !.raised = @ \/ tell]]
  /\ nexus' = IF r.dpid THEN NoCon ELSE nexus
  /\ downs' = [downs EXCEPT ![c] = @ + IF tell THEN 1 ELSE 0]
  /\ tcp' = [tcp EXCEPT ![c] = "broken"]

\* send() by the handler that makes the connection r, with the nexus n: nothing
\* is sent once disconnected.  On a broken session the data is lost; the error
\* may show now, and then the event is left to the close (defer_event).
Send(c, r, msgs, n) ==
  \/ /\ con' = [con EXCEPT ![c] = r]
     /\ nexus' = n
     /\ toSw' = IF r.disconnected \/ tcp[c] = "broken" THEN toSw
                ELSE [toSw EXCEPT ![c] = @ \o msgs]
  \/ /\ msgs # <<>> /\ ~r.disconnected /\ tcp[c] = "broken"
     /\ con' = [con EXCEPT ![c] = [r EXCEPT !.disconnected = TRUE]]
     /\ nexus' = IF r.dpid THEN NoCon ELSE n
     /\ UNCHANGED toSw

\* read() takes a message of some kind from the connection.
Takes(c, kind) ==
  /\ c \in polled
  /\ toCtl[c] # <<>> /\ Head(toCtl[c])[1] = kind
  /\ toCtl' = [toCtl EXCEPT ![c] = Tail(@)]
  /\ UNCHANGED <<switchVars, tcp, polled, downs, steps>>
InHandshake(c) == con[c].handlers = "handshake"

\* The listener accepts; Connection.__init__ says hello.
Accept(c) ==
  /\ c \notin polled /\ tcp[c] # "none" /\ ~con[c].disconnected
  /\ polled' = polled \cup {c}
  /\ Send(c, NewConnection, <<"hello">>, nexus)
  /\ UNCHANGED <<switchVars, tcp, toCtl, ups, downs, steps>>

\* handle_HELLO: once in the handshake, each time later.
HandleHello(c) ==
  /\ Takes(c, "hello")
  /\ Send(c, [con[c] EXCEPT !.requested = TRUE],
          IF InHandshake(c) /\ con[c].requested THEN <<>> ELSE <<"features">>, nexus)
  /\ UNCHANGED ups

\* handle_ECHO_REQUEST, in both tables of handlers.
HandleEcho(c) ==
  /\ Takes(c, "echo")
  /\ Send(c, con[c], <<"echo reply">>, nexus)
  /\ UNCHANGED ups

\* handle_FEATURES_REPLY of the handshake.  Its barrier is the only one sent
\* before the handshake ends, so the xid of a reply is the one awaited.
HandshakeFeatures(c) ==
  LET m == Head(toCtl[c]) IN
  /\ InHandshake(c)
  /\ Takes(c, "features")
  /\ Send(c, [con[c] EXCEPT !.ports = m[2], !.dpid = TRUE, !.deferred = <<>>,
                            !.barrier = TRUE],
          <<"barrier">>, nexus)
  /\ UNCHANGED ups

\* handle_FEATURES_REPLY of a connection that is up.
HandleFeatures(c) ==
  LET m == Head(toCtl[c]) IN
  /\ ~InHandshake(c)
  /\ Takes(c, "features")
  /\ con' = [con EXCEPT ![c].ports = m[2]]
  /\ nexus' = c
  /\ UNCHANGED <<toSw, ups>>

\* PortCollection._update and _forget.
Updated(ports, m) == IF m[3] THEN ports \cup {m[2]} ELSE ports \ {m[2]}

\* handle_PORT_STATUS: kept for later in the handshake, and before the features
\* reply of no use.
HandlePortStatus(c) ==
  LET m == Head(toCtl[c]) IN
  /\ Takes(c, "port")
  /\ con' = [con EXCEPT ![c] =
       IF ~InHandshake(c) THEN [@ EXCEPT !.ports = Updated(@, m)]
       ELSE IF @.deferred = Nothing THEN @
       ELSE [@ EXCEPT !.deferred = Append(@, m)]]
  /\ UNCHANGED <<nexus, toSw, ups>>

\* Mutant: only the last of what was kept is handled.
ReplayedLast(r) ==
  IF r.deferred = <<>> THEN r.ports
  ELSE Updated(r.ports, r.deferred[Len(r.deferred)])

\* What was kept is handled when the connection is up.
Replayed(r) ==
  LET after[k \in 0..Len(r.deferred)] ==
        IF k = 0 THEN r.ports ELSE Updated(after[k - 1], r.deferred[k])
  IN after[Len(r.deferred)]

\* _finish_connecting
FinishConnecting(c) ==
  /\ nexus' = c
  /\ con' = [con EXCEPT ![c] = [@ EXCEPT !.handlers = "default",
                                         !.ports = Replayed(con[c]),
                                         !.deferred = Nothing]]
  /\ ups' = [ups EXCEPT ![c] = @ + 1]

\* handle_BARRIER_REPLY, and handle_ERROR from a switch without barriers.
HandleBarrier(c) ==
  /\ Takes(c, "barrier") \/ Takes(c, "bad type")
  /\ IF InHandshake(c) /\ con[c].barrier THEN FinishConnecting(c)
     ELSE UNCHANGED <<nexus, con, ups>>
  /\ UNCHANGED toSw

\* OpenFlow_01_Task.run: read() failed, or the socket is in elist; the
\* connection is closed and no longer polled.
Close(c) ==
  /\ c \in polled /\ tcp[c] = "broken"
  /\ Disconnect(c, con[c])
  /\ polled' = polled \ {c}
  /\ toCtl' = [toCtl EXCEPT ![c] = <<>>]
  /\ UNCHANGED <<switchVars, toSw, ups, steps>>

\* The thread of DeferredSender cannot write the rest of some data, and
\* disconnects by itself, without defer_event.
DeferredSenderFails(c) ==
  /\ Bounded
  /\ c \in polled /\ tcp[c] = "broken" /\ ~con[c].disconnected
  /\ Disconnect(c, con[c])
  /\ UNCHANGED <<switchVars, toCtl, toSw, polled, ups>>

\* An application sends a request, by sendToDPID.
ApplicationSends ==
  /\ Bounded
  /\ nexus # NoCon
  /\ Send(nexus, con[nexus], <<"features">>, nexus)
  /\ UNCHANGED <<switchVars, tcp, toCtl, polled, ups, downs>>

\* OpenFlowNexus._handle_DownEvent: POX goes down.
NexusDown ==
  /\ Bounded
  /\ nexus # NoCon
  /\ Disconnect(nexus, con[nexus])
  /\ UNCHANGED <<switchVars, toCtl, toSw, polled, ups>>

Handle(c) ==
  \/ HandleHello(c) \/ HandleEcho(c) \/ HandshakeFeatures(c) \/ HandleFeatures(c)
  \/ HandlePortStatus(c) \/ HandleBarrier(c)

Next ==
  \/ \E c \in Con : Connect(c) \/ Break(c)
  \/ SwitchReads \/ Echo \/ \E p \in Port : ChangePort(p)
  \/ \E c \in Con : Accept(c) \/ Handle(c) \/ Close(c) \/ DeferredSenderFails(c)
  \/ ApplicationSends \/ NexusDown

Spec == Init /\ [][Next]_vars

-----------------------------------------------------------------------------
(* Properties. *)

\* "We actually want to keep the original info around, but [...] with all the
\* delta updates applied" (PortCollection): a connection that is up knows the
\* ports the switch has, once nothing is on the way, however the handshake and
\* the changes were interleaved.
PortsAgree ==
  \A c \in Con :
    ~InHandshake(c) /\ swCon = c /\ tcp[c] = "open" /\ toCtl[c] = <<>>
      => con[c].ports = swPorts

\* A connection whose switch is known raises ConnectionDown once, no matter
\* which of send(), the DeferredSender, the nexus and the task found it broken,
\* and in which order; once the task has let go of it, it has.
DownOnce ==
  \A c \in Con :
    /\ downs[c] <= 1
    /\ con[c].dpid /\ con[c].disconnected /\ c \notin polled => downs[c] = 1
=============================================================================
