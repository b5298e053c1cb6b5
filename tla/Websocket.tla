----------------------------- MODULE Websocket ------------------------------
(***************************************************************************)
(* The receiving side of POX's websockets (pox/web/websocket.py): a thread *)
(* of the web server takes the client's frames apart and queues what they  *)
(* say; the scheduler's thread hands it to the handler of the component.   *)
(* Both threads can close the connection.  `_lock` protects `_pending`,    *)
(* which says that a call that empties the queue is on its way.            *)
(*                                                                         *)
(* A frame arrives in two parts, which stand for the places where recv can *)
(* cut it: its head, and its masked data.                                  *)
(***************************************************************************)
EXTENDS Integers, Sequences, SequencesExt

CONSTANT MaxFrames   \* bound: frames of the client

VARIABLES
  parts,        \* of frames, on their way
  frames, said, \* how many there were, and the messages that they were meant to be
  open,         \* _websocket_open
  got,          \* hdr, in the feeder: parts that were read
  old_op, data, \* of a message whose last frame is still to come
  dead,         \* the feeder ended with an error
  reading,      \* the loop of the web server's thread
  _pending, _rx_queue,
  calls,        \* how many calls of _ws_message2 the scheduler is to make
  draining,     \* it makes one
  doing,        \* of each thread, in _ws_message: [at, item]
  handled       \* what the component's handler was called with

vars == <<parts, frames, said, open, got, old_op, data, dead, reading, _pending, _rx_queue,
          calls, draining, doing, handled>>

Thread == {"web", "scheduler"}
Item(kind, ids) == [kind |-> kind, ids |-> ids]   \* of the queue: start, stop, a message
At(step) == [at |-> step, item |-> Item("none", <<>>)]
Nothing == At("nothing")
Queueing(item) == [at |-> "append", item |-> item]
None == "none"

\* _serve_websocket: the handshake is over.
Init ==
  /\ parts = <<>> /\ frames = 0 /\ said = <<>>
  /\ open = TRUE /\ got = <<>> /\ old_op = None /\ data = <<>>
  /\ dead = FALSE /\ reading = TRUE
  /\ _pending = FALSE /\ _rx_queue = <<>> /\ calls = 0 /\ draining = FALSE
  /\ doing = [t \in Thread |-> IF t = "web" THEN Queueing(Item("start", <<>>)) ELSE Nothing]
  /\ handled = <<>>

-----------------------------------------------------------------------------
(* The client sends messages in one or more frames; what controls the      *)
(* connection may come between them.                                       *)

Unfinished == IF said = <<>> THEN FALSE ELSE ~said[Len(said)].whole
Extended(n, whole) ==
  IF Unfinished
  THEN [said EXCEPT ![Len(said)] = [ids |-> Append(@.ids, n), whole |-> whole]]
  ELSE Append(said, [ids |-> <<n>>, whole |-> whole])

ClientSends ==
  /\ frames < MaxFrames /\ frames' = frames + 1
  /\ \E op \in {"data", "ping", "close"}, fin, long \in BOOLEAN :
       /\ op # "data" => fin /\ ~long
       /\ parts' = parts \o
            <<[part |-> "head", long |-> long, fin |-> fin,
               op |-> IF op = "data" /\ Unfinished THEN "continue" ELSE op],
              [part |-> "data", id |-> frames]>>
       /\ said' = IF op = "data" THEN Extended(frames, fin) ELSE said
  /\ UNCHANGED <<open, got, old_op, data, dead, reading, _pending, _rx_queue, calls, draining,
                 doing, handled>>

-----------------------------------------------------------------------------
(* The web server's thread                                                 *)

AtRest(t) == doing[t].at = "nothing"

recv ==
  /\ reading /\ AtRest("web") /\ open /\ ~dead
  /\ parts # <<>> /\ got' = Append(got, Head(parts)) /\ parts' = Tail(parts)
  /\ UNCHANGED <<frames, said, open, old_op, data, dead, reading, _pending, _rx_queue, calls,
                 draining, doing, handled>>

\* A length of more than 125 bytes is a tuple, which no number compares to; and a frame
\* that continues nothing.
Refused ==
  \/ got # <<>> /\ got[1].long
  \/ Len(got) >= 2 /\ got[1].op = "continue" /\ old_op = None

FeederFails ==
  /\ reading /\ AtRest("web") /\ ~dead /\ Refused /\ dead' = TRUE
  /\ UNCHANGED <<parts, frames, said, open, got, old_op, data, reading, _pending, _rx_queue,
                 calls, draining, doing, handled>>

\* feeder: one frame.  One that controls the connection ends a message, too.
feeder ==
  /\ reading /\ AtRest("web") /\ open /\ ~dead /\ Len(got) >= 2 /\ ~Refused
  /\ got' = SubSeq(got, 3, Len(got))
  /\ LET f == got[1]
         text == data \o <<got[2].id>>
         isData == f.op \in {"data", "continue"}
     IN IF ~f.fin
        THEN old_op' = (IF f.op = "continue" THEN old_op ELSE f.op) /\ data' = text /\ UNCHANGED doing
        ELSE /\ old_op' = None /\ data' = <<>>
             /\ doing' = IF isData THEN [doing EXCEPT !["web"] = Queueing(Item("message", text))]
                         ELSE IF f.op = "close" THEN [doing EXCEPT !["web"] = At("disconnect")]
                         ELSE doing
  /\ UNCHANGED <<parts, frames, said, open, dead, reading, _pending, _rx_queue, calls, draining,
                 handled>>

\* The client is gone, the feeder failed, or the connection was closed.
ReadingEnds ==
  /\ reading /\ AtRest("web") /\ reading' = FALSE
  /\ doing' = [doing EXCEPT !["web"] = At("disconnect")]
  /\ UNCHANGED <<parts, frames, said, open, got, old_op, data, dead, _pending, _rx_queue, calls,
                 draining, handled>>

-----------------------------------------------------------------------------
(* _ws_message, in either thread, and disconnect, which calls it           *)

\* Mutant: the connection is closed without a look at whether it was.
Closes(wasOpen) == TRUE
FirstToClose(wasOpen) == wasOpen

\* The web server's thread, or the scheduler's, when sending failed.
disconnect(t) ==
  /\ doing[t].at = "disconnect"
  /\ open' = FALSE
  /\ doing' = [doing EXCEPT ![t] = IF FirstToClose(open) THEN Queueing(Item("stop", <<>>)) ELSE Nothing]
  /\ UNCHANGED <<parts, frames, said, got, old_op, data, dead, reading, _pending, _rx_queue, calls,
                 draining, handled>>

SendFails ==
  /\ AtRest("scheduler") /\ open
  /\ \E h \in ToSet(handled) : h.kind = "start"   \* the component knows of it
  /\ doing' = [doing EXCEPT !["scheduler"] = At("disconnect")]
  /\ UNCHANGED <<parts, frames, said, open, got, old_op, data, dead, reading, _pending, _rx_queue,
                 calls, draining, handled>>

_ws_message(t) ==
  /\ \/ /\ doing[t].at = "append"
        /\ _rx_queue' = Append(_rx_queue, doing[t].item)
        /\ doing' = [doing EXCEPT ![t].at = "mark"]
        /\ UNCHANGED <<_pending, calls>>
     \/ /\ doing[t].at = "mark"
        /\ _pending' = TRUE
        /\ doing' = [doing EXCEPT ![t] = IF _pending THEN Nothing ELSE At("call")]
        /\ UNCHANGED <<_rx_queue, calls>>
     \/ /\ doing[t].at = "call"
        /\ calls' = calls + 1
        /\ doing' = [doing EXCEPT ![t] = Nothing]
        /\ UNCHANGED <<_rx_queue, _pending>>
  /\ UNCHANGED <<parts, frames, said, open, got, old_op, data, dead, reading, draining, handled>>

\* _ws_message2
StartDraining ==
  /\ AtRest("scheduler") /\ ~draining /\ calls > 0
  /\ calls' = calls - 1 /\ draining' = TRUE
  /\ _pending' = FALSE
  /\ UNCHANGED <<parts, frames, said, open, got, old_op, data, dead, reading, _rx_queue, doing,
                 handled>>

Handle ==
  /\ AtRest("scheduler") /\ draining /\ _rx_queue # <<>>
  /\ handled' = Append(handled, Head(_rx_queue)) /\ _rx_queue' = Tail(_rx_queue)
  /\ UNCHANGED <<parts, frames, said, open, got, old_op, data, dead, reading, _pending, calls,
                 draining, doing>>

Drained ==
  /\ AtRest("scheduler") /\ draining /\ _rx_queue = <<>>
  /\ draining' = FALSE
  /\ UNCHANGED <<parts, frames, said, open, got, old_op, data, dead, reading, _pending, _rx_queue,
                 calls, doing, handled>>

Next ==
  \/ ClientSends \/ recv \/ FeederFails \/ feeder \/ ReadingEnds \/ SendFails
  \/ \E t \in Thread : disconnect(t) \/ _ws_message(t)
  \/ StartDraining \/ Handle \/ Drained

Spec == Init /\ [][Next]_vars

-----------------------------------------------------------------------------
\* The handler hears of the start and the stop once each, and the messages come to it
\* complete, in the order of the client, without one left out; and when both threads
\* are at rest nothing is left in the queue, whichever of them queued last.
Said == SelectSeq(said, LAMBDA m : m.whole)
Told == [i \in DOMAIN Said |-> Said[i].ids]
Messages == SelectSeq(handled, LAMBDA h : h.kind = "message")

MessagesArrive ==
  /\ IsPrefix([i \in DOMAIN Messages |-> Messages[i].ids], Told)
  /\ IsInjective(handled)
  /\ handled # <<>> => handled[1].kind = "start"
  /\ (\A t \in Thread : AtRest(t)) /\ ~draining /\ calls = 0 => _rx_queue = <<>>
=============================================================================
