--------------------------- MODULE DeferredSender ---------------------------
(***************************************************************************)
(* How of_01.Connection.send and the thread of DeferredSender share the    *)
(* sockets (pox/openflow/of_01.py).  The task that sends writes to the     *)
(* socket itself until a write is cut short; then the rest goes to the     *)
(* thread, and while `sending` is set so does everything, of all           *)
(* connections.                                                            *)
(*                                                                         *)
(* Data is a sequence of pieces <<k, part>>: message k in the two pieces   *)
(* that a write can be cut at.                                             *)
(***************************************************************************)
EXTENDS Integers, Sequences

CONSTANTS
  Conn,       \* connections
  MaxSent     \* bound: messages per connection

VARIABLES
  given,      \* [Conn -> how many messages send() was given]
  checked,    \* the connection whose send() found `sending` set, or none
  wire,       \* [Conn -> pieces written to the socket]
  queue,      \* _dataForConnection: pieces; a connection without any is not in it
  sending,    \* DeferredSender.sending
  failed,     \* [Conn -> its socket gives errors]
  dropped,    \* [Conn -> BOOLEAN]: disconnected
  senderPc, watched \* the thread, and the connections it selects on

senderVars == <<given, checked, wire, queue, sending, failed, dropped, senderPc, watched>>

Nobody == "nobody"
Pieces(k) == <<<<k, 1>>, <<k, 2>>>>

SenderInit ==
  /\ given = [c \in Conn |-> 0] /\ checked = Nobody
  /\ wire = [c \in Conn |-> <<>>] /\ queue = [c \in Conn |-> <<>>]
  /\ sending = FALSE
  /\ failed = [c \in Conn |-> FALSE] /\ dropped = [c \in Conn |-> FALSE]
  /\ senderPc = "look" /\ watched = {}

\* DeferredSender.send, under the lock.
Defer(c, data) ==
  /\ sending' = TRUE
  /\ queue' = [queue EXCEPT ![c] = @ \o data]

\* Connection.send reads `sending` without the lock.
SendDeferred(c) ==
  /\ checked = Nobody /\ ~dropped[c] /\ given[c] < MaxSent
  /\ sending
  /\ given' = [given EXCEPT ![c] = @ + 1]
  /\ checked' = c
  /\ UNCHANGED <<wire, queue, sending, failed, dropped, senderPc, watched>>

\* ... and gives the data to the thread a moment later.
GiveToThread ==
  /\ checked # Nobody
  /\ Defer(checked, Pieces(given[checked]))
  /\ checked' = Nobody
  /\ UNCHANGED <<given, wire, failed, dropped, senderPc, watched>>

\* Otherwise it writes: all, a part or nothing (EAGAIN), or it fails.
SendDirectly(c) ==
  /\ checked = Nobody /\ ~dropped[c] /\ given[c] < MaxSent
  /\ ~sending
  /\ given' = [given EXCEPT ![c] = @ + 1]
  /\ IF failed[c]
     THEN /\ dropped' = [dropped EXCEPT ![c] = TRUE]
          /\ UNCHANGED <<wire, queue, sending>>
     ELSE \E n \in 0..2 :
            LET data == Pieces(given[c] + 1) IN
            /\ wire' = [wire EXCEPT ![c] = @ \o SubSeq(data, 1, n)]
            /\ IF n = 2 THEN UNCHANGED <<queue, sending>>
               ELSE Defer(c, SubSeq(data, n + 1, 2))
            /\ UNCHANGED dropped
  /\ UNCHANGED <<checked, failed, senderPc, watched>>

\* DeferredSender.run: the keys, under the lock.
Look ==
  /\ senderPc = "look"
  /\ watched' = {c \in Conn : queue[c] # <<>>}
  /\ senderPc' = "select"
  /\ UNCHANGED <<given, checked, wire, queue, sending, failed, dropped>>

\* Mutant: the flag is reset when one connection has nothing left.
AllWritten(q, c) == q[c] = <<>>

\* The flag is reset when no connection has anything left.
NothingLeft(q, c) == \A d \in Conn : q[d] = <<>>

\* select() returns with a connection that can be written to; under the lock,
\* as much is written as the socket takes.
WriteSome(c) ==
  /\ senderPc = "select" /\ c \in watched /\ ~failed[c] /\ queue[c] # <<>>
  /\ \E n \in 0..Len(queue[c]) :
       LET rest == SubSeq(queue[c], n + 1, Len(queue[c]))
           q == [queue EXCEPT ![c] = rest]
       IN /\ wire' = [wire EXCEPT ![c] = @ \o SubSeq(queue[c], 1, n)]
          /\ queue' = q
          /\ sending' = IF rest = <<>> /\ NothingLeft(q, c) THEN FALSE ELSE sending
  /\ UNCHANGED <<given, checked, failed, dropped, senderPc, watched>>

\* It is in elist, or the write gives an error: its data goes.  The flag stays.
GiveUp(c) ==
  /\ senderPc = "select" /\ c \in watched /\ failed[c] /\ queue[c] # <<>>
  /\ queue' = [queue EXCEPT ![c] = <<>>]
  /\ dropped' = [dropped EXCEPT ![c] = TRUE]
  /\ UNCHANGED <<given, checked, wire, sending, failed, senderPc, watched>>

\* The next round; the waker or the timeout ends a select() without sockets.
Again ==
  /\ senderPc = "select"
  /\ senderPc' = "look" /\ watched' = {}
  /\ UNCHANGED <<given, checked, wire, queue, sending, failed, dropped>>

Fail(c) ==
  /\ ~failed[c]
  /\ failed' = [failed EXCEPT ![c] = TRUE]
  /\ UNCHANGED <<given, checked, wire, queue, sending, dropped, senderPc, watched>>

SenderNext ==
  \/ GiveToThread
  \/ \E c \in Conn : SendDeferred(c) \/ SendDirectly(c) \/ Fail(c)
  \/ \E c \in Conn : WriteSome(c) \/ GiveUp(c)
  \/ Look \/ Again

SenderSpec == SenderInit /\ [][SenderNext]_senderVars

-----------------------------------------------------------------------------
\* What send() was given: every message in its two pieces, one after the other.
Given(c) == [j \in 1..(2 * given[c]) |-> <<(j + 1) \div 2, IF j % 2 = 1 THEN 1 ELSE 2>>]
Held(c) == IF checked = c THEN Pieces(given[c]) ELSE <<>>

\* The bytes of a connection reach its socket in the order send() got them and
\* without a gap: what is written, then what the thread holds, then what send()
\* is about to give it.  A message that overtook the rest of another one would
\* cut an OpenFlow message in two.
StreamIntact ==
  \A c \in Conn : ~failed[c] => wire[c] \o queue[c] \o Held(c) = Given(c)
=============================================================================
