--------------------------- MODULE DealerGateway ---------------------------
(***************************************************************************)
(* The dealer: the gateway between the primary and the PBFT nodes.         *)
(*                                                                         *)
(* A call of the primary (gRPC), or a transaction that a client sends to   *)
(* the listener, is counted in a WaitGroup and given to a goroutine of its *)
(* own, which puts it into the channel chanMsg of the multiSend.  A loop   *)
(* distributes what is there to the channels of the sockets, one for each  *)
(* node, and a goroutine per socket sends it.  A node that has committed   *)
(* an action connects to the listener and reports it; if the call still    *)
(* waits, it is answered.  SIGINT stops the dealer.                        *)
(*                                                                         *)
(* The WaitGroup is one counter; here it is split by transaction, so that  *)
(* `waiter` says who owes what.  Nodes are their ids; the contacts of      *)
(* listContact are one for each node.  The channel of a socket is given[n] *)
(* without its first taken[n] messages.  A peer of the listener sends one  *)
(* message per connection, as nodes do.  Time does not appear: a call may  *)
(* time out, or be cancelled, at any moment.                               *)
(***************************************************************************)
EXTENDS Integers, Sequences, FiniteSets, SequencesExt

CONSTANTS
  Tx,           \* transactions, each asked for once
  Kind,         \* what a transaction is: "request", "link" (both gRPC) or "client"
  Node,         \* the nodes the bootstrap server named
  nbMessChan,   \* the capacity of the channel of a socket
  MaxConnects   \* bound: connections to the listener

DealerAssumption ==
  /\ Kind \in [Tx -> {"request", "link", "client"}]
  /\ Node # {} /\ Node \subseteq Nat /\ IsFiniteSet(Node)
  /\ nbMessChan \in Nat \ {0}

VARIABLES
  uniform,    \* uniformDistrib: every node gets every transaction (not RandomDistrib)
  call,       \* by transaction: "idle", "waiting", "leaving" (the defer is left) or "done"
  pending,    \* pendingConsensusRequests
  respChan,   \* the calls whose respChan holds an answer
  conn,       \* conn[p][t]: the connection by which peer p tells of t
  spawned,    \* `go send`, not yet run
  waiter,     \* the WaitGroup, by transaction
  chanMsg,    \* the multiSend's channel
  nodeCount,  \* the multiSend's count of its sockets
  sockets,    \* the multiSend's sockets
  running,    \* sockets whose loop runs
  given,      \* what was put into the channel of a socket
  taken,      \* how much of it the socket's loop has taken out
  main,       \* "serving", "stopping", "closed" or "crashed"
  listening   \* the listener accepts

dealerVars == <<uniform, call, pending, respChan, conn, spawned, waiter, chanMsg, nodeCount,
                sockets, running, given, taken, main, listening>>
rpcVars == <<call, pending, respChan>>
loopVars == <<sockets, running, given, taken>>

\* A client's id is -1.
ClientId == -1
Peer == Node \cup {ClientId}

DealerTypeOK ==
  /\ uniform \in BOOLEAN
  /\ call \in [Tx -> {"idle", "waiting", "leaving", "done"}]
  /\ pending \subseteq Tx /\ respChan \subseteq Tx /\ spawned \subseteq Tx
  /\ conn \in [Peer -> [Tx -> {"none", "open", "found", "handled", "lost"}]]
  /\ waiter \in [Tx -> Int] /\ chanMsg \in Seq(Tx) /\ nodeCount \in Nat
  /\ sockets \subseteq Node /\ running \subseteq Node
  /\ given \in [Node -> Seq(Tx)] /\ taken \in [Node -> Nat]
  /\ main \in {"serving", "stopping", "closed", "crashed"}
  /\ listening \in BOOLEAN

\* The loop connects to the nodes and counts its sockets; Dealer sets the count to the
\* number of contacts, at the same time.
DealerInit ==
  /\ uniform \in BOOLEAN
  /\ call = [t \in Tx |-> "idle"]
  /\ pending = {} /\ respChan = {} /\ spawned = {}
  /\ conn = [p \in Peer |-> [t \in Tx |-> "none"]]
  /\ waiter = [t \in Tx |-> 0]
  /\ chanMsg = <<>>
  /\ sockets \in SUBSET Node
  /\ nodeCount \in {Cardinality(sockets), Cardinality(Node)}
  /\ running = sockets
  /\ given = [n \in Node |-> <<>>]
  /\ taken = [n \in Node |-> 0]
  /\ main = "serving" /\ listening = TRUE

-----------------------------------------------------------------------------
(* The calls of the primary.                                               *)

\* Add, before `go send`.
Hands(t, n) ==
  /\ waiter' = [waiter EXCEPT ![t] = @ + n]
  /\ spawned' = spawned \cup {t}

RequestConsensus(t) ==
  /\ main = "serving" /\ Kind[t] = "request" /\ call[t] = "idle"
  /\ pending' = pending \cup {t}
  /\ call' = [call EXCEPT ![t] = "waiting"]
  /\ Hands(t, Cardinality(Node))
  /\ UNCHANGED <<uniform, respChan, conn, chanMsg, nodeCount, loopVars, main, listening>>

\* The select of a call: its answer, the timeout, or the caller has given up.  Nobody looks
\* at the channel again.
Wakes(t) ==
  /\ main # "crashed" /\ call[t] = "waiting"
  /\ respChan' = respChan \ {t}
  /\ call' = [call EXCEPT ![t] = "leaving"]
  /\ UNCHANGED <<uniform, pending, conn, spawned, waiter, chanMsg, nodeCount, loopVars, main,
                 listening>>

Cleanup(t) ==
  /\ main # "crashed" /\ call[t] = "leaving"
  /\ pending' = pending \ {t}
  /\ call' = [call EXCEPT ![t] = "done"]
  /\ UNCHANGED <<uniform, respChan, conn, spawned, waiter, chanMsg, nodeCount, loopVars, main,
                 listening>>

\* Nobody waits for the consensus on a link event.
ReportLinkEvent(t) ==
  /\ main = "serving" /\ Kind[t] = "link" /\ call[t] = "idle"
  /\ call' = [call EXCEPT ![t] = "done"]
  /\ Hands(t, Cardinality(Node))
  /\ UNCHANGED <<uniform, pending, respChan, conn, chanMsg, nodeCount, loopVars, main,
                 listening>>

-----------------------------------------------------------------------------
(* The listener, for clients and results.                                  *)

Moves(p, t, from, to) == conn[p][t] = from /\ conn' = [conn EXCEPT ![p][t] = to]

\* The loop of some node's socket has taken t out, to send it.
TakenOut(t) == \E n \in Node : \E i \in 1..taken[n] : given[n][i] = t

\* A client connects, or a node that has committed t, which another may have told it of.
Connects(p, t) ==
  /\ main # "crashed" /\ listening
  /\ Cardinality({x \in Peer \X Tx : conn[x[1]][x[2]] # "none"}) < MaxConnects
  /\ IF p = ClientId THEN Kind[t] = "client" ELSE Kind[t] = "request" /\ TakenOut(t)
  /\ Moves(p, t, "none", "open")
  /\ UNCHANGED <<uniform, rpcVars, spawned, waiter, chanMsg, nodeCount, loopVars, main, listening>>

\* The peer has closed, or the dealer stops: the select may see that before the message,
\* which the decoder also drops when it cannot hand it over in a second.
MissesMessage(p, t) ==
  /\ main # "crashed"
  /\ Moves(p, t, "open", "lost")
  /\ UNCHANGED <<uniform, rpcVars, spawned, waiter, chanMsg, nodeCount, loopVars, main, listening>>

\* Mutant: one is counted for the message, however many nodes get it.
OneToSignal == 1
\* One is counted for each socket there is, or else for the message.
NodesToSignal == IF uniform /\ nodeCount > 0 THEN nodeCount ELSE 1

HandlesTransaction(t) ==
  /\ main # "crashed"
  /\ Moves(ClientId, t, "open", "handled")
  /\ call' = [call EXCEPT ![t] = "done"]
  /\ Hands(t, NodesToSignal)
  /\ UNCHANGED <<uniform, pending, respChan, chanMsg, nodeCount, loopVars, main, listening>>

\* handleConsensusResult: first the lookup, under the lock, then the answer.
LooksUpCall(p, t) ==
  /\ main # "crashed" /\ p \in Node
  /\ Moves(p, t, "open", IF t \in pending THEN "found" ELSE "handled")
  /\ UNCHANGED <<uniform, rpcVars, spawned, waiter, chanMsg, nodeCount, loopVars, main, listening>>

AnswersCall(p, t) ==
  /\ main # "crashed"
  /\ Moves(p, t, "found", "handled")
  /\ respChan' = respChan \cup {t}
  /\ UNCHANGED <<uniform, call, pending, spawned, waiter, chanMsg, nodeCount, loopVars, main,
                 listening>>

-----------------------------------------------------------------------------
(* The multiSend.                                                          *)

\* The goroutine of t: into the channel, unless it is full; a closed one is a panic.
SendsTx(t) ==
  /\ main # "crashed" /\ t \in spawned
  /\ spawned' = spawned \ {t}
  /\ \/ /\ main # "closed" /\ Len(chanMsg) < nbMessChan * Cardinality(Node)
        /\ chanMsg' = Append(chanMsg, t)
        /\ UNCHANGED <<waiter, main>>
     \/ /\ main # "closed" /\ Len(chanMsg) >= nbMessChan * Cardinality(Node)
        /\ waiter' = [waiter EXCEPT ![t] = @ - 1]
        /\ UNCHANGED <<chanMsg, main>>
     \/ /\ main = "closed" /\ main' = "crashed"
        /\ UNCHANGED <<chanMsg, waiter>>
  /\ UNCHANGED <<uniform, rpcVars, conn, nodeCount, loopVars, listening>>

Full(n) == Len(given[n]) - taken[n] >= nbMessChan

\* The loop gives t to the sockets `to`; it is done with it at each that has no room.
Gives(t, to) ==
  /\ given' = [n \in Node |-> IF n \in to /\ ~Full(n) THEN Append(given[n], t) ELSE given[n]]
  /\ waiter' = [waiter EXCEPT ![t] = @ - Cardinality({n \in to : Full(n)})]

\* Nobody to give it to: the message is dropped.
Drops(t) ==
  /\ waiter' = [waiter EXCEPT ![t] = @ - 1]
  /\ UNCHANGED given

Distributes ==
  /\ main \in {"serving", "stopping"} /\ chanMsg # <<>>
  /\ chanMsg' = Tail(chanMsg)
  /\ \/ nodeCount = 0 /\ Drops(Head(chanMsg))
     \/ nodeCount > 0 /\ uniform /\ Gives(Head(chanMsg), sockets)
     \/ nodeCount > 0 /\ ~uniform /\ \E n \in sockets : Gives(Head(chanMsg), {n})
     \/ nodeCount > 0 /\ ~uniform /\ sockets = {} /\ Drops(Head(chanMsg))
  /\ UNCHANGED <<uniform, rpcVars, conn, spawned, nodeCount, sockets, running, taken, main,
                 listening>>

\* The loop of a socket takes the next message and sends it; when that fails it asks, if
\* the multiSend's loop is there to hear it, for the socket to be removed, and ends.
Takes(n) ==
  /\ main # "crashed" /\ n \in running /\ taken[n] < Len(given[n])
  /\ taken' = [taken EXCEPT ![n] = @ + 1]
  /\ waiter' = [waiter EXCEPT ![given[n][taken[n] + 1]] = @ - 1]

SocketSends(n) ==
  /\ Takes(n)
  /\ UNCHANGED <<uniform, rpcVars, conn, spawned, chanMsg, nodeCount, sockets, running, given,
                 main, listening>>

SocketFails(n) ==
  /\ Takes(n)
  /\ running' = running \ {n}
  /\ \/ UNCHANGED <<sockets, nodeCount>>
     \/ /\ main \in {"serving", "stopping"} /\ n \in sockets
        /\ sockets' = sockets \ {n}
        /\ nodeCount' = Cardinality(sockets')
  /\ UNCHANGED <<uniform, rpcVars, conn, spawned, chanMsg, given, main, listening>>

-----------------------------------------------------------------------------
(* SIGINT.                                                                 *)

\* Two goroutines receive from interruptChan; each signal reaches one of them.
Interrupt ==
  /\ main # "crashed"
  /\ \/ main = "serving" /\ main' = "stopping" /\ UNCHANGED listening
     \/ listening /\ listening' = FALSE /\ UNCHANGED main
  /\ UNCHANGED <<uniform, rpcVars, conn, spawned, waiter, chanMsg, nodeCount, loopVars>>

\* What socket n still has of t.
Holds(n, t) == \E i \in (taken[n] + 1)..Len(given[n]) : given[n][i] = t

\* When no call is left the sender is closed, with what is in its channel.  The sockets that
\* are idle throw away what they have; the others were told nothing.
CloseSender ==
  /\ main = "stopping" /\ \A t \in Tx : call[t] \notin {"waiting", "leaving"}
  /\ main' = "closed"
  /\ \E idle \in SUBSET (sockets \cap running) :
       /\ taken' = [n \in Node |-> IF n \in idle THEN Len(given[n]) ELSE taken[n]]
       /\ waiter' = [t \in Tx |-> waiter[t] - Cardinality({n \in idle : Holds(n, t)})]
       /\ running' = running \ idle
  /\ sockets' = {} /\ nodeCount' = 0
  /\ UNCHANGED <<uniform, rpcVars, conn, spawned, chanMsg, given, listening>>

-----------------------------------------------------------------------------
DealerNext ==
  \/ \E t \in Tx : \/ RequestConsensus(t) \/ Wakes(t) \/ Cleanup(t) \/ ReportLinkEvent(t)
                   \/ HandlesTransaction(t) \/ SendsTx(t)
  \/ \E p \in Peer, t \in Tx : \/ Connects(p, t) \/ MissesMessage(p, t)
                               \/ LooksUpCall(p, t) \/ AnswersCall(p, t)
  \/ Distributes
  \/ \E n \in Node : SocketSends(n) \/ SocketFails(n)
  \/ Interrupt
  \/ CloseSender

DealerSpec == DealerInit /\ [][DealerNext]_dealerVars

-----------------------------------------------------------------------------
\* The counter never goes below zero, where Done would panic: each transaction is done no
\* more often than its Add announced, whatever sockets fail meanwhile.
NeverNegative == \A t \in Tx : waiter[t] >= 0

\* Nodes get what both of them get in the same order, and nothing twice.
SameOrder ==
  \A m, n \in Node : \A i, j \in 1..Len(given[m]), k, l \in 1..Len(given[n]) :
    (given[m][i] = given[n][k] /\ given[m][j] = given[n][l]) => (i < j <=> k < l)

\* A result that came while its call still waits is there for the call to take.
ResultReachesCall ==
  \A p \in Node, t \in Tx : conn[p][t] = "handled" /\ call[t] = "waiting" => t \in respChan

\* A call is registered exactly as long as it lasts.
RegisteredWhileCalled == pending = {t \in Tx : call[t] \in {"waiting", "leaving"}}

DealerSound == NeverNegative /\ SameOrder /\ ResultReachesCall /\ RegisteredWhileCalled
=============================================================================
