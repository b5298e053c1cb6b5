---------------------------- MODULE SyncFlowTable ----------------------------
(***************************************************************************)
(* POX's topology of OpenFlow switches (pox/openflow/topology.py): the     *)
(* object of one switch, which stays when the switch reconnects, and its   *)
(* OFSyncFlowTable, which installs flows, waits for barriers, and installs *)
(* everything again after a reconnect.                                     *)
(*                                                                         *)
(* Connections keep the order of messages, and lose what is under way.     *)
(* The switch keeps its flows while it is not connected, and none times    *)
(* out.  Ports, and what is told to others, are left out.                  *)
(***************************************************************************)
EXTENDS Integers, Sequences, SequencesExt

CONSTANTS
  Entry,
  Under,               \* for each entry those that its match covers, itself included
  MaxOps, MaxConnects  \* bounds

VARIABLES
  flow_table, pending,       \* sequences: of entries, of operations
  barriers,                  \* _pending_barrier_to_ops
  waiting,                   \* _pending_op_to_barrier: operations
  connection, listening,     \* the switch object's _connection, 0 is None; whose events it hears
  timer,                     \* _reconnectTimeout
  alive,                     \* connections of which the controller did not notice the end
  swCon, swFlows, toSw, toCtl,
  ops, connects, xid

tableVars == <<flow_table, pending, barriers, waiting, connection, listening, timer, alive,
               swCon, swFlows, toSw, toCtl, ops, connects, xid>>

ADD(e) == [command |-> "ADD", entry |-> e]

Init ==
  /\ flow_table = <<>> /\ pending = <<>> /\ barriers = <<>> /\ waiting = {}
  /\ connection = 0 /\ listening = 0 /\ timer = FALSE /\ alive = {}
  /\ swCon = 0 /\ swFlows = {} /\ toSw = <<>> /\ toCtl = <<>>
  /\ ops = 0 /\ connects = 0 /\ xid = 0

-----------------------------------------------------------------------------
(* The table                                                               *)

FlowMods(todo) == [i \in DOMAIN todo |-> [kind |-> "flow_mod", op |-> todo[i]]]
Barrier(x) == [kind |-> "barrier", xid |-> x]

\* What is sent on a connection that the switch does not use any more is lost.
Sent(con, msgs) == IF con = swCon THEN toSw \o msgs ELSE toSw

\* _sync_pending: what is not sent yet, and what was for more than TIME_OUT, and a barrier.
Sync(now, told) ==
  /\ pending' = now
  /\ IF connection = 0 THEN UNCHANGED <<barriers, waiting, toSw, xid>>
     ELSE \E late \in SUBSET {op \in ToSet(now) : op \in told} :
            LET todo == SelectSeq(now, LAMBDA op : op \notin told \/ op \in late)
            IN /\ toSw' = Sent(connection, FlowMods(todo) \o <<Barrier(xid + 1)>>)
               /\ barriers' = Append(barriers, [xid |-> xid + 1, ops |-> todo])
               /\ waiting' = told \cup ToSet(todo)
               /\ xid' = xid + 1

\* _sync_pending(clear = True), on a connection that is up.
PendingAdds == SelectSeq(pending, LAMBDA op : op.command = "ADD")

\* Mutant: the switch keeps what it has.
KeepsAll == <<Barrier(0)>>
ClearsAll == <<[kind |-> "clear"], Barrier(0)>>

Todo == [i \in DOMAIN flow_table |-> ADD(flow_table[i])] \o PendingAdds
Resync ==
  /\ pending' = PendingAdds
  /\ toSw' = ClearsAll \o FlowMods(Todo) \o <<Barrier(xid + 1)>>
  /\ barriers' = <<[xid |-> xid + 1, ops |-> Todo]>>
  /\ waiting' = ToSet(Todo) /\ xid' = xid + 1

\* _mod: the application does not install what is pending.
Quiet == UNCHANGED <<connection, listening, timer, alive, swCon, swFlows, toCtl, connects>>
Op == ops < MaxOps /\ ops' = ops + 1

install ==
  /\ Op
  /\ \E e \in Entry : ADD(e) \notin ToSet(pending) /\ Sync(Append(pending, ADD(e)), waiting)
  /\ UNCHANGED flow_table /\ Quiet

remove_strict ==
  /\ Op
  /\ \E e \in Entry :
       Sync(Append(SelectSeq(pending, LAMBDA op : op # ADD(e)), [command |-> "REMOVE_STRICT", entry |-> e]),
            waiting)
  /\ UNCHANGED flow_table /\ Quiet

\* With an ADD that is pending it raises: a TableEntry has no matches_with_wildcards.
remove_with_wildcards ==
  /\ Op /\ PendingAdds = <<>>
  /\ \E e \in Entry : Sync(Append(pending, [command |-> "REMOVE", entry |-> e]), waiting)
  /\ UNCHANGED flow_table /\ Quiet

Matching(op) == IF op.command = "REMOVE" THEN Under[op.entry] ELSE {op.entry}

\* A barrier confirms the operations before it, in their order.
Confirmed(flows, op) ==
  IF op.command = "ADD" THEN Append(flows, op.entry)
  ELSE SelectSeq(flows, LAMBDA e : e \notin Matching(op))

HearBarrier ==
  /\ toCtl # <<>> /\ Head(toCtl).kind = "barrier" /\ toCtl' = Tail(toCtl)
  /\ LET mine == SelectSeq(barriers, LAMBDA b : b.xid = Head(toCtl).xid)
         done == IF mine = <<>> THEN <<>> ELSE mine[1].ops
     IN /\ flow_table' = FoldLeft(Confirmed, flow_table, done)
        \* an operation is the first of its kind among those pending
        /\ pending' = FoldLeft(LAMBDA seq, op : RemoveFirst(seq, op), pending, done)
        /\ waiting' = waiting \ ToSet(done)
        /\ barriers' = SelectSeq(barriers, LAMBDA b : b.xid # Head(toCtl).xid)
  /\ UNCHANGED <<connection, listening, timer, alive, swCon, swFlows, toSw, ops, connects, xid>>

_handle_FlowRemoved ==
  /\ toCtl # <<>> /\ Head(toCtl).kind = "removed" /\ toCtl' = Tail(toCtl)
  /\ flow_table' = RemoveFirst(flow_table, Head(toCtl).entry)
  /\ UNCHANGED <<pending, barriers, waiting, connection, listening, timer, alive, swCon, swFlows,
                 toSw, ops, connects, xid>>

-----------------------------------------------------------------------------
(* The switch: of a flow that is deleted it tells (SEND_FLOW_REM)          *)

Told(flows) == [i \in 1..Len(SetToSeq(flows)) |-> [kind |-> "removed", entry |-> SetToSeq(flows)[i]]]

SwitchTakes ==
  /\ toSw # <<>> /\ toSw' = Tail(toSw)
  /\ LET msg == Head(toSw)
         gone == CASE msg.kind = "clear" -> swFlows
                   [] msg.kind = "barrier" -> {}
                   [] OTHER -> IF msg.op.command = "ADD" THEN {} ELSE swFlows \cap Matching(msg.op)
     IN /\ swFlows' = (swFlows \ gone) \cup
                      (IF msg.kind = "flow_mod" /\ msg.op.command = "ADD" THEN {msg.op.entry} ELSE {})
        /\ toCtl' = toCtl \o Told(gone) \o (IF msg.kind = "barrier" THEN <<msg>> ELSE <<>>)
  /\ UNCHANGED <<flow_table, pending, barriers, waiting, connection, listening, timer, alive, swCon,
                 ops, connects, xid>>

\* The switch loses its connection; some of what it sent may arrive yet.
Lost ==
  /\ swCon # 0 /\ swCon' = 0 /\ toSw' = <<>>
  /\ \E n \in 0..Len(toCtl) : toCtl' = SubSeq(toCtl, 1, n)
  /\ UNCHANGED <<flow_table, pending, barriers, waiting, connection, listening, timer, alive,
                 swFlows, ops, connects, xid>>

-----------------------------------------------------------------------------
(* The switch object                                                       *)

\* Of an older connection nothing is heard; without one the timer runs.
_setConnection(c) == connection' = c /\ listening' = c /\ timer' = (c = 0)

\* _handle_openflow_ConnectionUp
ConnectionUp ==
  /\ swCon = 0 /\ connects < MaxConnects /\ connects' = connects + 1
  /\ swCon' = connects + 1 /\ alive' = alive \cup {connects + 1}
  /\ _setConnection(connects + 1) /\ toCtl' = <<>>
  /\ Resync
  /\ UNCHANGED <<flow_table, swFlows, ops>>

\* The nexus raises ConnectionDown first, then the connection, if it is listened to.
\* The table forgets the barriers it waits for.
ConnectionDown ==
  /\ \E c \in alive \ {swCon} :
       /\ alive' = alive \ {c}
       /\ IF c = listening
          THEN _setConnection(0) /\ barriers' = <<>> /\ waiting' = {} /\ toCtl' = <<>>
          ELSE connection' = 0 /\ UNCHANGED <<listening, timer, barriers, waiting, toCtl>>
  /\ UNCHANGED <<flow_table, pending, swCon, swFlows, toSw, ops, connects, xid>>

\* After RECONNECT_TIMEOUT the object is removed; the next one starts with an empty table.
_timer_ReconnectTimeout ==
  /\ timer /\ timer' = FALSE
  /\ flow_table' = <<>> /\ pending' = <<>>
  /\ UNCHANGED <<barriers, waiting, connection, listening, alive, swCon, swFlows, toSw, toCtl, ops,
                 connects, xid>>

Next ==
  \/ install \/ remove_strict \/ remove_with_wildcards \/ HearBarrier \/ _handle_FlowRemoved
  \/ SwitchTakes \/ Lost \/ ConnectionUp \/ ConnectionDown \/ _timer_ReconnectTimeout

Spec == Init /\ [][Next]_tableVars

-----------------------------------------------------------------------------
\* When nothing is under way the table has the flows of the switch, whatever was lost with
\* connections before, and also if operations were sent twice.
InSync ==
  connection # 0 /\ connection = swCon /\ toSw = <<>> /\ toCtl = <<>> => ToSet(flow_table) = swFlows
=============================================================================
