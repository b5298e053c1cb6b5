------------------------------- MODULE IoLoop -------------------------------
(***************************************************************************)
(* POX's loop for sockets (RecocoIOLoop in pox/lib/ioworker/__init__.py)   *)
(* with the worker that keeps a connection open (BackoffWorker in          *)
(* workers.py), as the software switch uses it to stay connected to its    *)
(* controller.  When a connection is lost, a new worker takes over after a *)
(* delay, twice as long as the last unless that one came to connect.       *)
(*                                                                         *)
(* The loop and the tasks that use the worker run in the scheduler's       *)
(* thread: a task runs only while the loop waits in its Select.            *)
(***************************************************************************)
EXTENDS Integers, Sequences, FiniteSets, SequencesExt

CONSTANTS
  MaxWorkers,   \* bound: connections that are begun
  MaxSent,      \* bound: what it says on a connection
  MaxHeard      \* bound: what its peer says

VARIABLES
  worker,             \* those that were made, in order
  inbound, outbound,  \* of each, what is on its way to it, and what its peer got
  given, read,        \* of each, how much it was given to send, and what it received
  _workers, _pending_commands,
  later,              \* the calls of begin, and of _handle_close, that the core is to make
  phase,              \* where run is
  elist, rlist, wlist

sockVars == <<inbound, outbound, given, read>>
listVars == <<elist, rlist, wlist>>
loopVars == <<_workers, _pending_commands, phase>>
vars == <<worker, sockVars, loopVars, later, listVars>>

FirstDelay == 1    \* in units of half a second
MaxDelay == 4      \* max_retry_delay
Doubled(delay) == IF 2 * delay > MaxDelay THEN MaxDelay ELSE 2 * delay

Worker == DOMAIN worker
NewWorker(sock, delay) ==
  [sock |-> sock, urgent |-> FALSE, _connecting |-> TRUE, closed |-> FALSE,
   send_buf |-> <<>>, _shutdown_send |-> FALSE, shut |-> FALSE, reconnect_delay |-> delay]
Begin(delay) == [call |-> "begin", delay |-> delay]

Init ==
  /\ worker = <<>> /\ inbound = <<>> /\ outbound = <<>> /\ given = <<>> /\ read = <<>>
  /\ _workers = {} /\ _pending_commands = <<>> /\ phase = "top"
  /\ later = <<Begin(FirstDelay)>>
  /\ elist = {} /\ rlist = {} /\ wlist = {}

-----------------------------------------------------------------------------
(* Opening and closing                                                     *)

\* begin, register_worker: connect_ex may fail at once.
begin ==
  /\ phase = "select" /\ later # <<>> /\ Head(later).call = "begin"
  /\ Len(worker) < MaxWorkers
  /\ LET w == Len(worker) + 1
     IN \/ /\ worker' = Append(worker, NewWorker("trying", Head(later).delay))
           /\ _pending_commands' = Append(_pending_commands, <<"add", w>>)
           /\ later' = Tail(later)
        \/ /\ worker' = Append(worker, NewWorker("failed", Head(later).delay))
           /\ later' = Append(Tail(later), [call |-> "_handle_close", w |-> w])
           /\ UNCHANGED _pending_commands
  /\ inbound' = Append(inbound, <<>>) /\ outbound' = Append(outbound, <<>>)
  /\ given' = Append(given, 0) /\ read' = Append(read, <<>>)
  /\ UNCHANGED <<_workers, phase, listVars>>

\* open_later, of PersistentIOWorker._handle_close
Reopened(w) == Begin(Doubled(worker[w].reconnect_delay))

HandleClose ==
  /\ phase = "select" /\ later # <<>> /\ Head(later).call = "_handle_close"
  /\ later' = Append(Tail(later), Reopened(Head(later).w))
  /\ UNCHANGED <<worker, sockVars, loopVars, listVars>>

\* Mutant: a worker that is closed already calls its handler again.
Always(closed) == TRUE
NotYet(closed) == ~closed

\* close, with the handler; the socket is closed by the loop, when it comes around.
Closed(w, now) ==
  IF NotYet(worker[w].closed)
  THEN /\ worker' = [worker EXCEPT ![w] = [now EXCEPT !.closed = TRUE]]
       /\ later' = Append(later, Reopened(w))
       /\ _pending_commands' = Append(_pending_commands, <<"close", w>>)
  ELSE worker' = [worker EXCEPT ![w] = now] /\ UNCHANGED <<later, _pending_commands>>
close(w) == Closed(w, worker[w])

\* What every handler of an error does.
Discard(w) == close(w) /\ _workers' = _workers \ {w}

-----------------------------------------------------------------------------
(* The peer and the network                                                *)

Socket(w, from, to) ==
  /\ worker[w].sock \in from
  /\ worker' = [worker EXCEPT ![w].sock = to]
  /\ UNCHANGED <<sockVars, loopVars, later, listVars>>

PeerSpeaks(w) ==
  /\ worker[w].sock = "up" /\ Len(inbound[w]) + Len(read[w]) < MaxHeard
  /\ inbound' = [inbound EXCEPT ![w] = Append(@, Len(@) + Len(read[w]) + 1)]
  /\ \E urgent \in BOOLEAN : worker' = [worker EXCEPT ![w].urgent = urgent]
  /\ UNCHANGED <<outbound, given, read, loopVars, later, listVars>>

Network ==
  \E w \in Worker :
    \/ Socket(w, {"trying"}, "up") \/ Socket(w, {"trying"}, "refused")
    \/ Socket(w, {"up"}, "ended") \/ Socket(w, {"up", "ended"}, "reset")
    \/ PeerSpeaks(w)

-----------------------------------------------------------------------------
(* The tasks that use the worker, which is the last that was made          *)

InUse == {w \in Worker : w = Len(worker) /\ ~worker[w].closed /\ worker[w].sock # "failed"}

send ==
  \E w \in InUse :
    /\ phase = "select" /\ given[w] < MaxSent
    /\ worker' = [worker EXCEPT ![w].send_buf = Append(@, given[w] + 1)]
    /\ given' = [given EXCEPT ![w] = @ + 1]
    /\ UNCHANGED <<inbound, outbound, read, loopVars, later, listVars>>

shutdown ==
  \E w \in InUse :
    /\ phase = "select"
    /\ worker' = [worker EXCEPT ![w]._shutdown_send = TRUE]
    /\ UNCHANGED <<sockVars, loopVars, later, listVars>>

\* Only one that was registered has an on_close.
Close ==
  \E w \in InUse :
    /\ phase = "select" /\ w \in _workers /\ close(w)
    /\ UNCHANGED <<sockVars, _workers, phase, listVars>>

-----------------------------------------------------------------------------
(* run, _do_exception, _do_recv and _do_send                               *)

Commands(kind) == {w \in Worker : <<kind, w>> \in ToSet(_pending_commands)}

\* A worker's "add" always comes before its "close".
RunCommands ==
  /\ phase = "top"
  /\ _pending_commands' = <<>>
  /\ _workers' = (_workers \cup Commands("add")) \ Commands("close")
  /\ worker' = [w \in Worker |-> IF w \in Commands("close")
                                  THEN [worker[w] EXCEPT !.sock = "closed", !.urgent = FALSE]
                                  ELSE worker[w]]
  /\ phase' = "select"
  /\ UNCHANGED <<sockVars, later, listVars>>

_ready_to_send(w) == worker[w].send_buf # <<>> \/ worker[w]._connecting
Readable(w) == inbound[w] # <<>> \/ worker[w].sock \in {"refused", "ended", "reset"}
Writable(w) == worker[w].sock # "trying"

\* What is ready, if anything is; or a ping, or the time was up.
SelectReturns ==
  /\ phase = "select" /\ phase' = "work"
  /\ elist' = {w \in _workers : worker[w].urgent}
  /\ rlist' = {w \in _workers : Readable(w)} \ elist'
  /\ wlist' = {w \in _workers : _ready_to_send(w) /\ Writable(w)} \ elist'
  /\ worker' = [w \in Worker |-> [worker[w] EXCEPT !.urgent = FALSE]]
  /\ UNCHANGED <<sockVars, _workers, _pending_commands, later>>

_do_exception(w) ==
  /\ phase = "work" /\ w \in elist /\ elist' = elist \ {w}
  /\ Discard(w)
  /\ UNCHANGED <<sockVars, phase, rlist, wlist>>

\* The readable sockets come first, then the writable ones.
Turn(w) == phase = "work" /\ elist = {} /\ w \in (IF rlist = {} THEN wlist ELSE rlist)
Done(w) ==
  /\ rlist' = rlist \ {w}
  /\ wlist' = (IF w \in rlist THEN wlist ELSE wlist \ {w})
  /\ UNCHANGED elist

\* _try_connect; BackoffWorker._handle_connect.
_try_connect(w) ==
  /\ Turn(w) /\ worker[w]._connecting
  /\ IF worker[w].sock \in {"refused", "reset"}
     THEN /\ Closed(w, [worker[w] EXCEPT !._connecting = FALSE])
          /\ _workers' = _workers \ {w}
          /\ Done(w)
     ELSE /\ worker' = [worker EXCEPT ![w]._connecting = FALSE, ![w].reconnect_delay = FirstDelay]
          /\ UNCHANGED <<later, _pending_commands, _workers, listVars>>
  /\ UNCHANGED <<sockVars, phase>>

\* What the worker's handler does with what it reads is in send, shutdown and Close.
_do_recv(w) ==
  /\ Turn(w) /\ w \in rlist /\ ~worker[w]._connecting /\ Done(w)
  /\ IF inbound[w] # <<>> /\ worker[w].sock # "reset"
     THEN /\ read' = [read EXCEPT ![w] = @ \o inbound[w]]
          /\ inbound' = [inbound EXCEPT ![w] = <<>>]
          /\ UNCHANGED <<worker, later, _pending_commands, _workers>>
     ELSE Discard(w) /\ UNCHANGED <<inbound, read>>
  /\ UNCHANGED <<outbound, given, phase>>

_consume_send_buf(buf, l) == SubSeq(buf, l + 1, Len(buf))

_do_send(w) ==
  /\ Turn(w) /\ w \notin rlist /\ ~worker[w]._connecting /\ Done(w)
  /\ LET buf == worker[w].send_buf
     IN IF buf = <<>>
        THEN UNCHANGED <<worker, later, _pending_commands, _workers, outbound>>
        ELSE IF worker[w].sock = "reset" \/ worker[w].shut
        THEN Discard(w) /\ UNCHANGED outbound
        ELSE \E l \in 0..Len(buf) :   \* 0: EAGAIN
               /\ outbound' = [outbound EXCEPT ![w] = @ \o SubSeq(buf, 1, l)]
               /\ worker' = [worker EXCEPT
                    ![w].send_buf = IF l > 0 THEN _consume_send_buf(buf, l) ELSE @,
                    ![w].shut = l = Len(buf) /\ worker[w]._shutdown_send]
               /\ UNCHANGED <<later, _pending_commands, _workers>>
  /\ UNCHANGED <<inbound, given, read, phase>>

Around ==
  /\ phase = "work" /\ elist \cup rlist \cup wlist = {} /\ phase' = "top"
  /\ UNCHANGED <<worker, sockVars, _workers, _pending_commands, later, listVars>>

Next ==
  \/ begin \/ HandleClose \/ Network \/ send \/ shutdown \/ Close
  \/ RunCommands \/ SelectReturns \/ Around
  \/ \E w \in Worker : _do_exception(w) \/ _try_connect(w) \/ _do_recv(w) \/ _do_send(w)

Spec == Init /\ [][Next]_vars

-----------------------------------------------------------------------------
\* However a connection ends, and though several lists may name its socket in one round,
\* there is always one worker that is connected or connects, or one call that will make
\* the next, and never two.
Live == {w \in Worker : ~worker[w].closed /\ worker[w].sock # "failed"}

OneConnection ==
  /\ Cardinality(Live) + Len(later) = 1
  /\ phase = "select" => \A w \in _workers : worker[w].sock # "closed"

\* Each side reads what the other said, in order, with nothing left out or repeated.
Counted(seq) == seq = [i \in DOMAIN seq |-> i]
BytesInOrder ==
  \A w \in Worker :
    /\ Counted(read[w] \o inbound[w])
    /\ Counted(outbound[w] \o worker[w].send_buf) /\ Len(outbound[w] \o worker[w].send_buf) = given[w]
=============================================================================
