---------------------------- MODULE Requests_proofs ----------------------------
(***************************************************************************)
(* Two components with calls that wait for an answer.                      *)
(*                                                                         *)
(* The dealer counts right, keeps one order, and does not lose a result    *)
(* that comes in time: for any transactions, nodes and capacities, whatever*)
(* sockets fail.                                                           *)
(*                                                                         *)
(* The requests of the web service to a switch find what they should, for  *)
(* any requests, each with any flows.  Each message has a rank, its place  *)
(* among those its request sends; what goes to the switch, and what comes  *)
(* back, stays in the order of the ranks (InTurn).  What the switch took,  *)
(* and how many barriers are counted, therefore say exactly which messages *)
(* are still on their way (RestOnTheWay, BarriersOnTheWay).                *)
(***************************************************************************)
EXTENDS DealerGateway, OFRequests, FiniteSetTheorems, SequenceTheorems, TLAPS

-----------------------------------------------------------------------------
(* The dealer.                                                             *)

\* Transactions are on their way to the multiSend's loop, or were given to sockets.
InChan(t) == \E i \in 1..Len(chanMsg) : chanMsg[i] = t
OnItsWay(t) == t \in spawned \/ InChan(t)
IsGiven(t) == \E n \in Node : \E i \in 1..Len(given[n]) : given[n][i] = t

\* The sockets that still have t, and owe a Done for it.
Owing(t) == {n \in Node : Holds(n, t)}

\* The loop's count is that of the sockets, or more.
CountEnough == Cardinality(sockets) <= nodeCount

\* A client's transaction is asked for when its message is handled; what a node reports on
\* was asked for.
AskedFirst ==
  \A t \in Tx :
    /\ Kind[t] = "client" => /\ call[t] \in {"idle", "done"}
                             /\ call[t] = "idle" <=> conn[ClientId][t] # "handled"
    /\ conn[ClientId][t] # "none" => Kind[t] = "client"
    /\ conn[ClientId][t] # "found"
    /\ \A p \in Node : conn[p][t] # "none" => call[t] # "idle"

\* A transaction is at one stage, and there once.
OneStage ==
  /\ \A n \in Node : taken[n] <= Len(given[n])
  /\ \A t \in spawned : ~InChan(t)
  /\ \A i, j \in 1..Len(chanMsg) : chanMsg[i] = chanMsg[j] => i = j
  /\ \A t \in Tx : OnItsWay(t) => ~IsGiven(t)
  /\ \A t \in Tx : call[t] = "idle" => ~OnItsWay(t) /\ ~IsGiven(t)

\* What is on its way has one counted for each socket that it may be given to, what was
\* given one for each that still has it.
CountedEnough ==
  \A t \in Tx :
    /\ waiter[t] >= Cardinality(Owing(t))
    /\ OnItsWay(t) => waiter[t] >= 1 /\ (uniform => waiter[t] >= Cardinality(sockets))

CallsInv == RegisteredWhileCalled /\ ResultReachesCall /\ AskedFirst
StagesInv == OneStage /\ SameOrder
CountsInv == CountEnough /\ CountedEnough

DealerInv == DealerTypeOK /\ CallsInv /\ StagesInv /\ CountsInv

-----------------------------------------------------------------------------
(* Sets of nodes.                                                          *)

LEMMA NodesCount ==
  ASSUME DealerAssumption, NEW S \in SUBSET Node
  PROVE  /\ IsFiniteSet(S) /\ Cardinality(S) \in Nat
         /\ Cardinality(S) <= Cardinality(Node) /\ Cardinality(Node) \in Nat \ {0}
         /\ S # {} => Cardinality(S) >= 1
<1>1. IsFiniteSet(Node) /\ Node # {}
  BY DEF DealerAssumption
<1>2. IsFiniteSet(S) /\ Cardinality(S) <= Cardinality(Node)
  BY <1>1, FS_Subset
<1>3. Cardinality(S) \in Nat /\ Cardinality(Node) \in Nat
  BY <1>1, <1>2, FS_CardinalityType
<1> QED
  BY <1>1, <1>2, <1>3, FS_EmptySet

LEMMA ClientIsNoNode ==
  ASSUME DealerAssumption
  PROVE  ClientId \notin Node /\ ClientId \in Peer /\ Node \subseteq Peer
BY DEF DealerAssumption, ClientId, Peer

-----------------------------------------------------------------------------
(* Types.                                                                  *)

LEMMA InitTypes == ASSUME DealerAssumption PROVE DealerInit => DealerTypeOK
<1> SUFFICES ASSUME DealerInit PROVE DealerTypeOK
  OBVIOUS
<1>1. nodeCount \in Nat
  BY NodesCount DEF DealerInit
<1> QED
  BY <1>1 DEF DealerInit, DealerTypeOK

LEMMA TypesKept ==
  ASSUME DealerAssumption, DealerTypeOK, [DealerNext]_dealerVars PROVE DealerTypeOK'
<1> USE DEF DealerTypeOK
<1> DEFINE Phase == {"none", "open", "found", "handled", "lost"}
<1>c. Cardinality(Node) \in Nat
  BY NodesCount
<1>m. ASSUME NEW p \in Peer, NEW t \in Tx, NEW from, NEW to \in Phase, Moves(p, t, from, to)
      PROVE  conn' \in [Peer -> [Tx -> Phase]]
  BY <1>m DEF Moves
<1>1. ASSUME NEW t \in Tx, RequestConsensus(t) PROVE DealerTypeOK'
  BY <1>c, <1>1 DEF RequestConsensus, Hands, loopVars
<1>2. ASSUME NEW t \in Tx, Wakes(t) PROVE DealerTypeOK'
  BY <1>2 DEF Wakes, loopVars
<1>3. ASSUME NEW t \in Tx, Cleanup(t) PROVE DealerTypeOK'
  BY <1>3 DEF Cleanup, loopVars
<1>4. ASSUME NEW t \in Tx, ReportLinkEvent(t) PROVE DealerTypeOK'
  BY <1>c, <1>4 DEF ReportLinkEvent, Hands, loopVars
<1>5. ASSUME NEW t \in Tx, HandlesTransaction(t) PROVE DealerTypeOK'
  <2>1. conn' \in [Peer -> [Tx -> Phase]]
    BY <1>5, <1>m, ClientIsNoNode DEF HandlesTransaction
  <2>2. NodesToSignal \in Nat
    BY DEF NodesToSignal
  <2> QED
    BY <1>5, <2>1, <2>2 DEF HandlesTransaction, Hands, loopVars
<1>6. ASSUME NEW t \in Tx, SendsTx(t) PROVE DealerTypeOK'
  <2>1. CASE chanMsg' = Append(chanMsg, t) /\ UNCHANGED waiter
    BY <1>6, <2>1 DEF SendsTx, loopVars, rpcVars
  <2>2. CASE waiter' = [waiter EXCEPT ![t] = @ - 1] /\ UNCHANGED chanMsg
    BY <1>6, <2>2 DEF SendsTx, loopVars, rpcVars
  <2>3. CASE UNCHANGED <<chanMsg, waiter>>
    BY <1>6, <2>3 DEF SendsTx, loopVars, rpcVars
  <2> QED
    BY <1>6, <2>1, <2>2, <2>3 DEF SendsTx
<1>7. ASSUME NEW p \in Peer, NEW t \in Tx,
             Connects(p, t) \/ MissesMessage(p, t) \/ LooksUpCall(p, t) \/ AnswersCall(p, t)
      PROVE  DealerTypeOK'
  <2>1. conn' \in [Peer -> [Tx -> Phase]]
    BY <1>7, <1>m DEF Connects, MissesMessage, LooksUpCall, AnswersCall
  <2> QED
    BY <1>7, <2>1 DEF Connects, MissesMessage, LooksUpCall, AnswersCall, loopVars, rpcVars
<1>8. CASE Distributes
  <2>1. chanMsg' \in Seq(Tx) /\ Head(chanMsg) \in Tx
    BY <1>8 DEF Distributes
  <2>2. ASSUME NEW to \in SUBSET Node, Gives(Head(chanMsg), to)
        PROVE  given' \in [Node -> Seq(Tx)] /\ waiter' \in [Tx -> Int]
    <3>1. Cardinality({n \in to : Full(n)}) \in Nat
      BY NodesCount
    <3> QED
      BY <2>1, <2>2, <3>1 DEF Gives
  <2>3. given' \in [Node -> Seq(Tx)] /\ waiter' \in [Tx -> Int]
    <3>1. CASE Drops(Head(chanMsg))
      BY <2>1, <3>1 DEF Drops
    <3>2. CASE \E to \in SUBSET Node : Gives(Head(chanMsg), to)
      BY <2>2, <3>2
    <3> QED
      BY <1>8, <3>1, <3>2 DEF Distributes
  <2> QED
    BY <1>8, <2>1, <2>3 DEF Distributes, rpcVars
<1>9. ASSUME NEW n \in Node, SocketSends(n) \/ SocketFails(n) PROVE DealerTypeOK'
  <2>1. taken' \in [Node -> Nat] /\ waiter' \in [Tx -> Int]
    <3>1. taken' \in [Node -> Nat]
      BY <1>9 DEF SocketSends, SocketFails, Takes
    <3>2. waiter' \in [Tx -> Int]
      BY <1>9 DEF SocketSends, SocketFails, Takes
    <3> QED
      BY <3>1, <3>2
  <2>2. sockets' \subseteq Node /\ nodeCount' \in Nat
    <3>1. Cardinality(sockets \ {n}) \in Nat
      BY NodesCount
    <3> QED
      BY <1>9, <3>1 DEF SocketSends, SocketFails
  <2> QED
    BY <1>9, <2>1, <2>2 DEF SocketSends, SocketFails, rpcVars
<1>10. CASE Interrupt
  BY <1>10 DEF Interrupt, rpcVars, loopVars
<1>11. CASE CloseSender
  <2>1. PICK idle \in SUBSET (sockets \cap running) :
          /\ taken' = [n \in Node |-> IF n \in idle THEN Len(given[n]) ELSE taken[n]]
          /\ waiter' = [t \in Tx |-> waiter[t] - Cardinality({n \in idle : Holds(n, t)})]
          /\ running' = running \ idle
    BY <1>11 DEF CloseSender
  <2>2. \A t \in Tx : Cardinality({n \in idle : Holds(n, t)}) \in Nat
    BY NodesCount
  <2>3. taken' \in [Node -> Nat] /\ running' \subseteq Node
    BY <2>1
  <2>4. waiter' \in [Tx -> Int]
    <3>1. ASSUME NEW t \in Tx PROVE waiter[t] - Cardinality({n \in idle : Holds(n, t)}) \in Int
      <4>1. PICK k \in Nat : k = Cardinality({n \in idle : Holds(n, t)})
        BY <2>2
      <4>2. waiter[t] - k \in Int
        OBVIOUS
      <4> QED
        BY <4>1, <4>2, Zenon
    <3> QED
      BY <2>1, <3>1
  <2> QED
    BY <1>11, <2>3, <2>4 DEF CloseSender, rpcVars
<1>12. CASE UNCHANGED dealerVars
  BY <1>12 DEF dealerVars
<1> QED
  BY <1>1, <1>2, <1>3, <1>4, <1>5, <1>6, <1>7, <1>8, <1>9, <1>10, <1>11, <1>12 DEF DealerNext

-----------------------------------------------------------------------------
(* Calls and results.                                                      *)

\* What a socket's loop took out was given, and so asked for.
LEMMA TakenWasAsked ==
  ASSUME DealerTypeOK, OneStage, NEW t \in Tx, TakenOut(t) PROVE call[t] # "idle"
<1>1. PICK n \in Node : \E i \in 1..taken[n] : given[n][i] = t
  BY DEF TakenOut
<1>2. PICK i \in 1..taken[n] : given[n][i] = t
  BY <1>1
<1>3. taken[n] \in Nat /\ Len(given[n]) \in Nat /\ taken[n] <= Len(given[n])
  BY DEF DealerTypeOK, OneStage
<1>4. i \in 1..Len(given[n])
  BY <1>3
<1> QED
  BY <1>2, <1>4 DEF IsGiven, OneStage

LEMMA CallsKept ==
  ASSUME DealerAssumption, DealerTypeOK, CallsInv, OneStage, [DealerNext]_dealerVars
  PROVE  CallsInv'
<1> USE ClientIsNoNode
<1> DEFINE Phase == {"none", "open", "found", "handled", "lost"}
<1>t. /\ call \in [Tx -> {"idle", "waiting", "leaving", "done"}]
      /\ conn \in [Peer -> [Tx -> Phase]]
      /\ Kind \in [Tx -> {"request", "link", "client"}]
      /\ pending \subseteq Tx
  BY DEF DealerTypeOK, DealerAssumption
<1> USE DEF CallsInv, RegisteredWhileCalled, ResultReachesCall, AskedFirst
<1>1. ASSUME NEW t \in Tx, RequestConsensus(t) PROVE CallsInv'
  <2>1. /\ call' = [call EXCEPT ![t] = "waiting"] /\ pending' = pending \cup {t}
        /\ conn' = conn /\ respChan' = respChan
        /\ call[t] = "idle" /\ Kind[t] = "request"
    BY <1>1 DEF RequestConsensus
  <2> QED
    BY <1>t, <2>1
<1>2. ASSUME NEW t \in Tx, Wakes(t) \/ Cleanup(t) PROVE CallsInv'
  <2>1. CASE Wakes(t)
    <3>1. /\ call' = [call EXCEPT ![t] = "leaving"] /\ pending' = pending
          /\ conn' = conn /\ respChan' = respChan \ {t}
          /\ call[t] = "waiting"
      BY <2>1 DEF Wakes
    <3> QED
      BY <1>t, <3>1
  <2>2. CASE Cleanup(t)
    <3>1. /\ call' = [call EXCEPT ![t] = "done"] /\ pending' = pending \ {t}
          /\ conn' = conn /\ respChan' = respChan
          /\ call[t] = "leaving"
      BY <2>2 DEF Cleanup
    <3> QED
      BY <1>t, <3>1
  <2> QED
    BY <1>2, <2>1, <2>2
<1>3. ASSUME NEW t \in Tx, ReportLinkEvent(t) PROVE CallsInv'
  <2>1. /\ call' = [call EXCEPT ![t] = "done"] /\ pending' = pending
        /\ conn' = conn /\ respChan' = respChan
        /\ call[t] = "idle" /\ Kind[t] = "link"
    BY <1>3 DEF ReportLinkEvent
  <2> QED
    BY <1>t, <2>1
<1>4. ASSUME NEW t \in Tx, HandlesTransaction(t) PROVE CallsInv'
  <2>1. /\ call' = [call EXCEPT ![t] = "done"] /\ pending' = pending
        /\ conn[ClientId][t] = "open"
        /\ conn' = [conn EXCEPT ![ClientId][t] = "handled"] /\ respChan' = respChan
    BY <1>4 DEF HandlesTransaction, Moves
  <2>2. Kind[t] = "client" /\ call[t] = "idle"
    BY <1>t, <2>1
  <2>3. /\ conn'[ClientId] = [conn[ClientId] EXCEPT ![t] = "handled"]
        /\ \A p \in Node : conn'[p] = conn[p]
    BY <1>t, <2>1
  <2>4. \A x \in Tx : call'[x] = IF x = t THEN "done" ELSE call[x]
    BY <1>t, <2>1
  <2>5. \A x \in Tx : conn'[ClientId][x] = IF x = t THEN "handled" ELSE conn[ClientId][x]
    BY <1>t, <2>3
  <2> QED
    BY <1>t, <2>1, <2>2, <2>3, <2>4, <2>5
<1>5. ASSUME NEW p \in Peer, NEW t \in Tx,
             Connects(p, t) \/ MissesMessage(p, t) \/ LooksUpCall(p, t) \/ AnswersCall(p, t)
      PROVE  CallsInv'
  <2>1. PICK to \in Phase : conn' = [conn EXCEPT ![p][t] = to]
    BY <1>5 DEF Connects, MissesMessage, LooksUpCall, AnswersCall, Moves
  <2>2. \A q \in Peer, x \in Tx :
          conn'[q][x] = IF q = p /\ x = t THEN to ELSE conn[q][x]
    BY <1>t, <2>1
  <2>3. UNCHANGED <<call, pending>> /\ respChan \subseteq respChan'
    BY <1>5 DEF Connects, MissesMessage, LooksUpCall, AnswersCall, rpcVars
  <2>4. p = ClientId => /\ Kind[t] = "client" /\ to \notin {"handled", "found"}
                        /\ conn[p][t] # "handled"
    <3>1. CASE Connects(p, t)
      BY <1>t, <2>2, <3>1 DEF Connects, Moves
    <3>2. CASE MissesMessage(p, t)
      BY <1>t, <2>2, <3>2 DEF MissesMessage, Moves
    <3>3. CASE LooksUpCall(p, t)
      BY <3>3 DEF LooksUpCall
    <3>4. CASE AnswersCall(p, t)
      BY <3>4 DEF AnswersCall, Moves
    <3> QED
      BY <1>5, <3>1, <3>2, <3>3, <3>4
  <2>5. p \in Node => /\ call[t] # "idle"
                      /\ to = "handled" => t \in respChan' \/ t \notin pending
    <3>1. CASE Connects(p, t)
      BY <1>t, <2>2, <3>1, TakenWasAsked DEF Connects, Moves
    <3>2. CASE MissesMessage(p, t)
      BY <1>t, <2>2, <3>2 DEF MissesMessage, Moves
    <3>3. CASE LooksUpCall(p, t)
      BY <1>t, <2>2, <3>3 DEF LooksUpCall, Moves
    <3>4. CASE AnswersCall(p, t)
      BY <3>4 DEF AnswersCall, Moves
    <3> QED
      BY <1>5, <3>1, <3>2, <3>3, <3>4
  <2>6. RegisteredWhileCalled' /\ ResultReachesCall'
    BY <1>t, <2>2, <2>3, <2>5
  <2>7. AskedFirst'
    <3>1. ASSUME NEW x \in Tx
          PROVE  \/ conn'[ClientId][x] = conn[ClientId][x]
                 \/ /\ Kind[x] = "client" /\ conn'[ClientId][x] \notin {"handled", "found"}
                    /\ conn[ClientId][x] # "handled"
      <4>1. CASE p = ClientId /\ x = t
        BY <2>2, <2>4, <4>1
      <4>2. CASE ~(p = ClientId /\ x = t)
        BY <2>2, <4>2
      <4> QED
        BY <4>1, <4>2
    <3>2. ASSUME NEW x \in Tx, NEW q \in Node, conn'[q][x] # "none" PROVE call[x] # "idle"
      <4>1. CASE q = p /\ x = t
        BY <2>5, <4>1
      <4>2. CASE ~(q = p /\ x = t)
        <5>1. conn'[q][x] = conn[q][x]
          BY <2>2, <4>2
        <5> QED
          BY <3>2, <5>1
      <4> QED
        BY <4>1, <4>2
    <3> QED
      BY <2>3, <3>1, <3>2
  <2> QED
    BY <2>6, <2>7
<1>6. ASSUME UNCHANGED <<call, pending, respChan, conn>> PROVE CallsInv'
  BY <1>6
<1>7. ASSUME NEW t \in Tx, SendsTx(t) PROVE UNCHANGED <<call, pending, respChan, conn>>
  BY <1>7 DEF SendsTx, rpcVars
<1>8. ASSUME NEW n \in Node, SocketSends(n) \/ SocketFails(n)
      PROVE  UNCHANGED <<call, pending, respChan, conn>>
  BY <1>8 DEF SocketSends, SocketFails, rpcVars
<1>9. CASE Distributes \/ Interrupt \/ CloseSender \/ UNCHANGED dealerVars
  <2>1. UNCHANGED <<call, pending, respChan, conn>>
    BY <1>9 DEF Distributes, Interrupt, CloseSender, rpcVars, dealerVars
  <2> QED
    BY <2>1, <1>6
<1> QED
  BY <1>1, <1>2, <1>3, <1>4, <1>5, <1>6, <1>7, <1>8, <1>9 DEF DealerNext

-----------------------------------------------------------------------------
(* Stages and order.                                                       *)

\* A transaction that was not asked for before is on its way.
LEMMA StartKeepsStages ==
  ASSUME DealerTypeOK, StagesInv, NEW t \in Tx, call[t] = "idle",
         call' \in [Tx -> {"idle", "waiting", "leaving", "done"}],
         \A x \in Tx : call'[x] = "idle" => call[x] = "idle" /\ x # t,
         spawned' = spawned \cup {t}, UNCHANGED <<chanMsg, given, taken>>
  PROVE  StagesInv'
<1> USE DEF StagesInv, OneStage
<1>1. SameOrder'
  BY DEF SameOrder
<1>2. \A x \in Tx : InChan(x)' = InChan(x) /\ IsGiven(x)' = IsGiven(x)
  BY DEF InChan, IsGiven
<1>3. ~InChan(t) /\ ~IsGiven(t)
  BY DEF OnItsWay
<1>4. spawned \subseteq Tx
  BY DEF DealerTypeOK
<1> QED
  BY <1>1, <1>2, <1>3, <1>4 DEF OnItsWay

\* The goroutine's step: what was spawned goes into the channel, or is dropped.
LEMMA SendKeepsStages ==
  ASSUME DealerTypeOK, StagesInv, NEW t \in Tx, SendsTx(t)
  PROVE  /\ StagesInv'
         /\ \A x \in Tx : OnItsWay(x)' => OnItsWay(x)
<1> USE DEF StagesInv, OneStage
<1>1. /\ t \in spawned /\ spawned' = spawned \ {t}
      /\ UNCHANGED <<call, given, taken>>
      /\ chanMsg' \in {chanMsg, Append(chanMsg, t)}
  BY DEF SendsTx, rpcVars, loopVars
<1>2. chanMsg \in Seq(Tx) /\ spawned \subseteq Tx
  BY DEF DealerTypeOK
<1>3. SameOrder' /\ \A x \in Tx : IsGiven(x)' = IsGiven(x)
  BY <1>1 DEF SameOrder, IsGiven
<1>4. ~InChan(t)
  BY <1>1
<1>5. \A x \in Tx : InChan(x)' => InChan(x) \/ x = t
  BY <1>1, <1>2 DEF InChan
<1>6. \A i, j \in 1..Len(chanMsg') : chanMsg'[i] = chanMsg'[j] => i = j
  BY <1>1, <1>2, <1>4 DEF InChan
<1>7. \A x \in spawned' : ~InChan(x)'
  BY <1>1, <1>2, <1>5
<1>8. \A x \in Tx : OnItsWay(x)' => OnItsWay(x)
  BY <1>1, <1>5 DEF OnItsWay
<1> QED
  BY <1>1, <1>3, <1>6, <1>7, <1>8

\* Whoever is given t has it at the end, and nobody had it before.
LEMMA GiveKeepsOrder ==
  ASSUME DealerTypeOK, SameOrder, NEW t \in Tx, ~IsGiven(t),
         NEW to \in SUBSET Node, Gives(t, to)
  PROVE  /\ SameOrder'
         /\ \A n \in Node : /\ Len(given'[n]) \in {Len(given[n]), Len(given[n]) + 1}
                            /\ \A i \in 1..Len(given[n]) : given'[n][i] = given[n][i]
                            /\ Len(given'[n]) > Len(given[n]) =>
                                 given'[n][Len(given[n]) + 1] = t /\ n \in to /\ ~Full(n)
                            /\ n \in to /\ ~Full(n) => Len(given'[n]) > Len(given[n])
         /\ \A x \in Tx : IsGiven(x)' => IsGiven(x) \/ x = t
<1>1. ASSUME NEW n \in Node
      PROVE  /\ given[n] \in Seq(Tx) /\ given'[n] \in Seq(Tx)
             /\ Len(given[n]) \in Nat
             /\ Len(given'[n]) \in {Len(given[n]), Len(given[n]) + 1}
             /\ \A i \in 1..Len(given[n]) : given'[n][i] = given[n][i]
             /\ Len(given'[n]) > Len(given[n]) =>
                  given'[n][Len(given[n]) + 1] = t /\ n \in to /\ ~Full(n)
             /\ n \in to /\ ~Full(n) => Len(given'[n]) > Len(given[n])
  <2>1. given[n] \in Seq(Tx)
    BY DEF DealerTypeOK
  <2>2. given'[n] = IF n \in to /\ ~Full(n) THEN Append(given[n], t) ELSE given[n]
    BY DEF Gives
  <2> QED
    BY <2>1, <2>2
<1>2. \A n \in Node : \A i \in 1..Len(given[n]) : given[n][i] # t
  BY DEF IsGiven
<1>3. ASSUME NEW n \in Node, NEW i \in 1..Len(given'[n])
      PROVE  \/ i \in 1..Len(given[n]) /\ given'[n][i] = given[n][i] /\ given'[n][i] # t
             \/ i = Len(given[n]) + 1 /\ i = Len(given'[n]) /\ given'[n][i] = t
  BY <1>1, <1>2
<1>4. SameOrder'
  <2> SUFFICES ASSUME NEW m \in Node, NEW n \in Node,
                      NEW i \in 1..Len(given'[m]), NEW j \in 1..Len(given'[m]),
                      NEW k \in 1..Len(given'[n]), NEW l \in 1..Len(given'[n]),
                      given'[m][i] = given'[n][k], given'[m][j] = given'[n][l]
               PROVE  i < j <=> k < l
    BY DEF SameOrder
  <2>1. Len(given[m]) \in Nat /\ Len(given[n]) \in Nat
    BY <1>1
  <2>2. CASE given'[m][i] # t /\ given'[m][j] # t
    BY <1>3, <2>2 DEF SameOrder
  <2>a. \/ i \in 1..Len(given[m]) /\ given'[m][i] # t
        \/ i = Len(given[m]) + 1 /\ i = Len(given'[m]) /\ given'[m][i] = t
    BY <1>3
  <2>b. \/ j \in 1..Len(given[m]) /\ given'[m][j] # t
        \/ j = Len(given[m]) + 1 /\ j = Len(given'[m]) /\ given'[m][j] = t
    BY <1>3
  <2>c. \/ k \in 1..Len(given[n]) /\ given'[n][k] # t
        \/ k = Len(given[n]) + 1 /\ k = Len(given'[n]) /\ given'[n][k] = t
    BY <1>3
  <2>d. \/ l \in 1..Len(given[n]) /\ given'[n][l] # t
        \/ l = Len(given[n]) + 1 /\ l = Len(given'[n]) /\ given'[n][l] = t
    BY <1>3
  <2>3. CASE given'[m][i] = t \/ given'[m][j] = t
    BY <2>1, <2>3, <2>a, <2>b, <2>c, <2>d
  <2> QED
    BY <2>2, <2>3
<1>5. ASSUME NEW x \in Tx, IsGiven(x)' PROVE IsGiven(x) \/ x = t
  BY <1>3, <1>5 DEF IsGiven
<1> QED
  BY <1>1, <1>4, <1>5

\* The loop's step.
LEMMA DistributeKeepsStages ==
  ASSUME DealerTypeOK, StagesInv, Distributes PROVE StagesInv'
<1> USE DEF StagesInv, OneStage
<1>0. PICK t \in Tx : t = Head(chanMsg)
  BY DEF Distributes, DealerTypeOK
<1>1. /\ chanMsg # <<>> /\ chanMsg' = Tail(chanMsg)
      /\ UNCHANGED <<call, spawned, taken>>
  BY DEF Distributes, rpcVars
<1>2. /\ chanMsg \in Seq(Tx) /\ Len(chanMsg) \in Nat \ {0}
      /\ t = chanMsg[1] /\ chanMsg' \in Seq(Tx)
      /\ Len(chanMsg') = Len(chanMsg) - 1
      /\ \A i \in 1..Len(chanMsg') : chanMsg'[i] = chanMsg[i + 1]
      /\ spawned \subseteq Tx
  BY <1>0, <1>1 DEF DealerTypeOK
<1>3. InChan(t)
  BY <1>2 DEF InChan
<1>4. ~IsGiven(t)
  BY <1>2, <1>3 DEF OnItsWay
<1>5. ~InChan(t)' /\ \A x \in Tx : InChan(x)' => InChan(x)
  BY <1>2 DEF InChan
<1>6. \A i, j \in 1..Len(chanMsg') : chanMsg'[i] = chanMsg'[j] => i = j
  <2> TAKE i, j \in 1..Len(chanMsg')
  <2>1. /\ i + 1 \in 1..Len(chanMsg) /\ j + 1 \in 1..Len(chanMsg)
        /\ chanMsg'[i] = chanMsg[i + 1] /\ chanMsg'[j] = chanMsg[j + 1]
        /\ i + 1 = j + 1 => i = j
    BY <1>2
  <2> QED
    BY <2>1
<1>7. \A x \in Tx : OnItsWay(x)' => OnItsWay(x) /\ x # t
  BY <1>1, <1>2, <1>3, <1>5 DEF OnItsWay
<1>8. /\ SameOrder' /\ \A x \in Tx : IsGiven(x)' => IsGiven(x) \/ x = t
      /\ \A n \in Node : taken'[n] <= Len(given'[n])
  <2>1. CASE Drops(t)
    BY <1>1, <2>1 DEF Drops, SameOrder, IsGiven
  <2>2. ASSUME NEW to \in SUBSET Node, Gives(t, to)
        PROVE  /\ SameOrder' /\ \A x \in Tx : IsGiven(x)' => IsGiven(x) \/ x = t
               /\ \A n \in Node : taken'[n] <= Len(given'[n])
    <3>1. ASSUME NEW n \in Node PROVE taken'[n] <= Len(given'[n])
      <4>1. Len(given'[n]) \in {Len(given[n]), Len(given[n]) + 1}
        BY <1>2, <1>4, <2>2, GiveKeepsOrder
      <4>2. Len(given[n]) \in Nat /\ taken[n] \in Nat
        BY DEF DealerTypeOK
      <4> QED
        BY <1>1, <4>1, <4>2
    <3> QED
      BY <1>2, <1>4, <2>2, <3>1, GiveKeepsOrder
  <2>3. Drops(t) \/ \E to \in SUBSET Node : Gives(t, to)
    <3>1. sockets \in SUBSET Node
      BY DEF DealerTypeOK
    <3> QED
      BY <1>0, <3>1 DEF Distributes
  <2> QED
    BY <2>1, <2>2, <2>3
<1>9. \A x \in Tx : call'[x] = "idle" => ~OnItsWay(x)' /\ ~IsGiven(x)'
  BY <1>1, <1>2, <1>3, <1>7, <1>8 DEF OnItsWay
<1> QED
  BY <1>1, <1>2, <1>5, <1>6, <1>7, <1>8, <1>9

LEMMA StagesKept ==
  ASSUME DealerAssumption, DealerTypeOK, CallsInv, StagesInv, [DealerNext]_dealerVars
  PROVE  StagesInv'
<1>t. call \in [Tx -> {"idle", "waiting", "leaving", "done"}]
  BY DEF DealerTypeOK
<1>1. ASSUME NEW t \in Tx, RequestConsensus(t) \/ ReportLinkEvent(t) \/ HandlesTransaction(t)
      PROVE  StagesInv'
  <2>1. PICK to \in {"waiting", "done"} : call' = [call EXCEPT ![t] = to]
    BY <1>1 DEF RequestConsensus, ReportLinkEvent, HandlesTransaction
  <2>2. spawned' = spawned \cup {t} /\ UNCHANGED <<chanMsg, given, taken>>
    BY <1>1 DEF RequestConsensus, ReportLinkEvent, HandlesTransaction, Hands, loopVars
  <2>3. call[t] = "idle"
    BY <1>1 DEF RequestConsensus, ReportLinkEvent, HandlesTransaction, Moves, CallsInv, AskedFirst
  <2>4. /\ call' \in [Tx -> {"idle", "waiting", "leaving", "done"}]
        /\ \A x \in Tx : call'[x] = "idle" => call[x] = "idle" /\ x # t
    BY <1>t, <2>1
  <2> QED
    BY <2>2, <2>3, <2>4, StartKeepsStages
<1>2. ASSUME UNCHANGED <<spawned, chanMsg, given, taken>>,
             \A x \in Tx : call'[x] = "idle" => call[x] = "idle"
      PROVE  StagesInv'
  <2>1. SameOrder'
    BY <1>2 DEF StagesInv, SameOrder
  <2>2. \A x \in Tx : OnItsWay(x)' = OnItsWay(x) /\ IsGiven(x)' = IsGiven(x)
    BY <1>2 DEF OnItsWay, InChan, IsGiven
  <2>3. \A x \in spawned' : ~InChan(x)'
    BY <1>2 DEF StagesInv, OneStage, InChan
  <2> QED
    BY <1>2, <2>1, <2>2, <2>3 DEF StagesInv, OneStage
<1>3. ASSUME NEW t \in Tx, Wakes(t) \/ Cleanup(t) PROVE StagesInv'
  <2>1. \A x \in Tx : call'[x] = "idle" => call[x] = "idle"
    BY <1>t, <1>3 DEF Wakes, Cleanup
  <2> QED
    BY <1>2, <1>3, <2>1 DEF Wakes, Cleanup, loopVars
<1>4. ASSUME NEW p \in Peer, NEW t \in Tx,
             Connects(p, t) \/ MissesMessage(p, t) \/ LooksUpCall(p, t) \/ AnswersCall(p, t)
      PROVE  StagesInv'
  <2>1. UNCHANGED <<call, spawned, chanMsg, given, taken>>
    BY <1>4 DEF Connects, MissesMessage, LooksUpCall, AnswersCall, rpcVars, loopVars
  <2> QED
    BY <1>2, <2>1
<1>5. CASE Interrupt \/ UNCHANGED dealerVars
  <2>1. UNCHANGED <<call, spawned, chanMsg, given, taken>>
    BY <1>5 DEF Interrupt, rpcVars, loopVars, dealerVars
  <2> QED
    BY <1>2, <2>1
<1>6. ASSUME UNCHANGED <<call, spawned, chanMsg, given>>,
             \A n \in Node : taken'[n] <= Len(given[n])
      PROVE  StagesInv'
  BY <1>6 DEF StagesInv, OneStage, SameOrder, OnItsWay, InChan, IsGiven
<1>7. ASSUME NEW n \in Node, SocketSends(n) \/ SocketFails(n) PROVE StagesInv'
  <2>1. taken[n] < Len(given[n]) /\ taken' = [taken EXCEPT ![n] = @ + 1]
    BY <1>7 DEF SocketSends, SocketFails, Takes
  <2>2. ASSUME NEW m \in Node PROVE taken'[m] <= Len(given[m])
    <3>1. Len(given[m]) \in Nat /\ taken \in [Node -> Nat] /\ taken[m] <= Len(given[m])
      BY DEF DealerTypeOK, StagesInv, OneStage
    <3> QED
      BY <2>1, <3>1
  <2>3. UNCHANGED <<call, spawned, chanMsg, given>>
    BY <1>7 DEF SocketSends, SocketFails, rpcVars
  <2> QED
    BY <1>6, <2>2, <2>3
<1>8. CASE CloseSender
  <2>1. \A n \in Node : taken'[n] \in {Len(given[n]), taken[n]}
    BY <1>8 DEF CloseSender
  <2>2. ASSUME NEW n \in Node PROVE taken'[n] <= Len(given[n])
    <3>1. Len(given[n]) \in Nat /\ taken[n] <= Len(given[n])
      BY DEF DealerTypeOK, StagesInv, OneStage
    <3> QED
      BY <2>1, <3>1
  <2>3. UNCHANGED <<call, spawned, chanMsg, given>>
    BY <1>8 DEF CloseSender, rpcVars
  <2> QED
    BY <1>6, <2>2, <2>3
<1> QED
  BY <1>1, <1>3, <1>4, <1>5, <1>7, <1>8, SendKeepsStages, DistributeKeepsStages DEF DealerNext

-----------------------------------------------------------------------------
(* The WaitGroup.                                                          *)

\* What one Add announces is enough for every socket there is.
LEMMA StartKeepsCounts ==
  ASSUME DealerAssumption, DealerTypeOK, StagesInv, CountsInv,
         NEW t \in Tx, call[t] = "idle", NEW k \in Nat, Hands(t, k),
         k >= 1, uniform => k >= Cardinality(sockets),
         UNCHANGED <<uniform, chanMsg, sockets, given, taken, nodeCount>>
  PROVE  CountsInv'
<1>1. waiter' = [waiter EXCEPT ![t] = @ + k] /\ spawned' = spawned \cup {t}
  BY DEF Hands
<1>2. waiter \in [Tx -> Int]
  BY DEF DealerTypeOK
<1>3. \A x \in Tx : Owing(x)' = Owing(x)
  BY DEF Owing, Holds
<1>4. \A x \in Tx \ {t} : OnItsWay(x)' = OnItsWay(x)
  BY <1>1 DEF OnItsWay, InChan
<1>5. \A x \in Tx : Cardinality(Owing(x)) \in Nat
  BY NodesCount DEF Owing
<1>6. waiter'[t] = waiter[t] + k /\ \A x \in Tx \ {t} : waiter'[x] = waiter[x]
  BY <1>1, <1>2
<1>7. waiter[t] >= Cardinality(Owing(t)) /\ waiter[t] \in Int
  BY <1>2 DEF CountsInv, CountedEnough
<1>8. Cardinality(sockets) \in Nat
  BY NodesCount DEF DealerTypeOK
<1>9. \A x \in Tx :
        /\ waiter'[x] >= Cardinality(Owing(x))
        /\ OnItsWay(x)' => waiter'[x] >= 1 /\ (uniform => waiter'[x] >= Cardinality(sockets))
  <2> TAKE x \in Tx
  <2>1. CASE x = t
    BY <1>5, <1>6, <1>7, <1>8, <2>1
  <2>2. CASE x # t
    BY <1>4, <1>6, <2>2 DEF CountsInv, CountedEnough
  <2> QED
    BY <2>1, <2>2
<1> QED
  BY <1>3, <1>9 DEF CountsInv, CountedEnough, CountEnough

\* Nobody owes a Done for what was given to nobody.
LEMMA GivenIsOwed ==
  ASSUME DealerTypeOK, NEW t \in Tx, ~IsGiven(t) PROVE Owing(t) = {}
<1>1. ASSUME NEW n \in Node PROVE ~Holds(n, t)
  <2>1. Len(given[n]) \in Nat /\ taken[n] \in Nat
    BY DEF DealerTypeOK
  <2>2. \A i \in (taken[n] + 1)..Len(given[n]) : i \in 1..Len(given[n])
    BY <2>1
  <2> QED
    BY <2>2 DEF Holds, IsGiven
<1> QED
  BY <1>1 DEF Owing

\* A step that counts down no transaction but one which is not with anybody any more.
LEMMA DropKeepsCounts ==
  ASSUME DealerAssumption, DealerTypeOK, CountsInv,
         NEW t \in Tx, OnItsWay(t), ~IsGiven(t), ~OnItsWay(t)',
         waiter' = [waiter EXCEPT ![t] = @ - 1],
         \A x \in Tx : OnItsWay(x)' => OnItsWay(x),
         UNCHANGED <<uniform, sockets, given, taken, nodeCount>>
  PROVE  CountsInv'
<1>1. \A x \in Tx : Owing(x)' = Owing(x)
  BY DEF Owing, Holds
<1>2. Owing(t) = {}
  BY GivenIsOwed
<1>3. Cardinality({}) = 0
  BY FS_EmptySet
<1>4. waiter \in [Tx -> Int]
  BY DEF DealerTypeOK
<1>5. waiter'[t] = waiter[t] - 1 /\ \A x \in Tx \ {t} : waiter'[x] = waiter[x]
  BY <1>4
<1>6. waiter[t] >= 1 /\ waiter[t] \in Int
  BY <1>4 DEF CountsInv, CountedEnough
<1>7. \A x \in Tx :
        /\ waiter'[x] >= Cardinality(Owing(x))
        /\ OnItsWay(x)' => waiter'[x] >= 1 /\ (uniform => waiter'[x] >= Cardinality(sockets))
  <2> TAKE x \in Tx
  <2>1. CASE x = t
    <3>1. Cardinality(Owing(x)) = 0 /\ ~OnItsWay(x)'
      BY <1>2, <1>3, <2>1
    <3>2. waiter'[x] >= 0
      BY <1>5, <1>6, <2>1
    <3> QED
      BY <3>1, <3>2
  <2>2. CASE x # t
    BY <1>5, <2>2 DEF CountsInv, CountedEnough
  <2> QED
    BY <2>1, <2>2
<1> QED
  BY <1>1, <1>7 DEF CountsInv, CountedEnough, CountEnough

\* Those who are given t take the place of what was counted for them.
LEMMA GiveKeepsCounts ==
  ASSUME DealerAssumption, DealerTypeOK, StagesInv, CountsInv,
         NEW t \in Tx, OnItsWay(t), ~OnItsWay(t)',
         \A x \in Tx : OnItsWay(x)' => OnItsWay(x),
         NEW to \in SUBSET sockets, Gives(t, to), uniform \/ Cardinality(to) <= 1,
         UNCHANGED <<uniform, sockets, taken, nodeCount>>
  PROVE  CountsInv'
<1> DEFINE full == {n \in to : Full(n)}
<1>1. to \in SUBSET Node /\ sockets \in SUBSET Node /\ full \in SUBSET Node /\ ~IsGiven(t)
  BY DEF DealerTypeOK, StagesInv, OneStage
<1>2. ASSUME NEW n \in Node
      PROVE  /\ Len(given'[n]) \in {Len(given[n]), Len(given[n]) + 1}
             /\ \A i \in 1..Len(given[n]) : given'[n][i] = given[n][i]
             /\ Len(given'[n]) > Len(given[n]) =>
                  given'[n][Len(given[n]) + 1] = t /\ n \in to /\ ~Full(n)
             /\ n \in to /\ ~Full(n) => Len(given'[n]) > Len(given[n])
             /\ Len(given[n]) \in Nat /\ taken[n] \in Nat /\ taken[n] <= Len(given[n])
             /\ taken'[n] = taken[n]
  <2>1. Len(given[n]) \in Nat /\ taken[n] \in Nat /\ taken[n] <= Len(given[n])
    BY DEF StagesInv, OneStage, DealerTypeOK
  <2>2. given \in [Node -> Seq(Tx)]
    BY DEF DealerTypeOK
  <2>3. given'[n] = IF n \in to /\ ~Full(n) THEN Append(given[n], t) ELSE given[n]
    BY DEF Gives
  <2> QED
    BY <2>1, <2>2, <2>3
<1>3. ASSUME NEW x \in Tx, x # t PROVE Owing(x)' = Owing(x)
  <2>1. ASSUME NEW n \in Node PROVE Holds(n, x)' <=> Holds(n, x)
    <3>1. CASE Len(given'[n]) = Len(given[n])
      BY <1>2, <3>1 DEF Holds
    <3>2. CASE Len(given'[n]) = Len(given[n]) + 1
      <4>1. given'[n][Len(given'[n])] = t /\ Len(given[n]) \in Nat /\ taken[n] \in Nat
        BY <1>2, <3>2
      <4>2. \A i \in (taken[n] + 1)..Len(given'[n]) :
              i = Len(given'[n]) \/ (i \in (taken[n] + 1)..Len(given[n]) /\ i \in 1..Len(given[n]))
        BY <3>2, <4>1
      <4>3. \A i \in (taken[n] + 1)..Len(given[n]) :
              i \in (taken[n] + 1)..Len(given'[n]) /\ i \in 1..Len(given[n])
        BY <3>2, <4>1
      <4> QED
        BY <1>2, <1>3, <4>1, <4>2, <4>3 DEF Holds
    <3> QED
      BY <1>2, <3>1, <3>2
  <2> QED
    BY <2>1 DEF Owing
<1>4. Owing(t)' = to \ full
  <2>1. ASSUME NEW n \in Node PROVE Holds(n, t)' <=> n \in to \ full
    <3>1. \A i \in 1..Len(given[n]) : given[n][i] # t
      BY <1>1 DEF IsGiven
    <3>2. CASE n \in to /\ ~Full(n)
      <4>1. Len(given'[n]) = Len(given[n]) + 1 /\ given'[n][Len(given'[n])] = t
        BY <1>2, <3>2
      <4>2. Len(given'[n]) \in (taken'[n] + 1)..Len(given'[n])
        BY <1>2, <4>1
      <4> QED
        BY <3>2, <4>1, <4>2 DEF Holds
    <3>3. CASE ~(n \in to /\ ~Full(n))
      <4>1. Len(given'[n]) = Len(given[n])
        BY <1>2, <3>3
      <4>2. \A i \in (taken'[n] + 1)..Len(given'[n]) : i \in 1..Len(given[n])
        BY <1>2, <4>1
      <4> QED
        BY <1>2, <3>1, <3>3, <4>2 DEF Holds
    <3> QED
      BY <3>2, <3>3
  <2> QED
    BY <1>1, <2>1 DEF Owing
<1> DEFINE C == Cardinality(to)
           F == Cardinality(full)
<1>5. /\ Cardinality(to \ full) = C - F
      /\ C \in Nat /\ F \in Nat
      /\ C <= Cardinality(sockets) /\ Cardinality(sockets) \in Nat
  <2>1. IsFiniteSet(to) /\ IsFiniteSet(sockets) /\ to \cap full = full
    BY <1>1, NodesCount
  <2>2. Cardinality(to \ full) = Cardinality(to) - Cardinality(to \cap full)
    BY <2>1, FS_Difference
  <2>3. Cardinality(to) <= Cardinality(sockets)
    BY <2>1, FS_Subset
  <2> QED
    BY <1>1, <2>1, <2>2, <2>3, NodesCount
<1>6. waiter \in [Tx -> Int] /\ waiter' = [waiter EXCEPT ![t] = @ - F]
  BY DEF DealerTypeOK, Gives
<1> HIDE DEF C, F, full
<1>7. waiter'[t] = waiter[t] - F /\ \A x \in Tx \ {t} : waiter'[x] = waiter[x]
  BY <1>6
<1>8. waiter[t] >= C /\ waiter[t] \in Int
  <2>1. waiter[t] >= 1 /\ (uniform => waiter[t] >= Cardinality(sockets)) /\ waiter[t] \in Int
    BY <1>6 DEF CountsInv, CountedEnough
  <2> QED
    BY <1>5, <2>1 DEF C
<1>9. waiter'[t] >= Cardinality(Owing(t)')
  BY <1>4, <1>5, <1>7, <1>8
<1>10. ASSUME NEW x \in Tx
       PROVE  /\ waiter'[x] >= Cardinality(Owing(x)')
              /\ OnItsWay(x)' => waiter'[x] >= 1 /\ (uniform => waiter'[x] >= Cardinality(sockets))
  <2>1. CASE x = t
    BY <1>9, <2>1
  <2>2. CASE x # t
    BY <1>3, <1>7, <2>2 DEF CountsInv, CountedEnough
  <2> QED
    BY <2>1, <2>2
<1> QED
  BY <1>10 DEF CountsInv, CountedEnough, CountEnough

\* A message that a socket's loop takes out is done, and there was only one of it.
LEMMA TakeKeepsCounts ==
  ASSUME DealerAssumption, DealerTypeOK, StagesInv, CountsInv, NEW n \in Node, Takes(n),
         UNCHANGED <<uniform, spawned, chanMsg, given>>,
         \/ UNCHANGED <<sockets, nodeCount>>
         \/ sockets' = sockets \ {n} /\ nodeCount' = Cardinality(sockets')
  PROVE  CountsInv'
<1>0. /\ taken \in [Node -> Nat] /\ given \in [Node -> Seq(Tx)]
      /\ waiter \in [Tx -> Int] /\ sockets \subseteq Node
  BY DEF DealerTypeOK
<1>1. PICK j \in 1..Len(given[n]) : j = taken[n] + 1
  BY <1>0 DEF Takes
<1>a. PICK t \in Tx : t = given[n][j]
  BY <1>0, <1>1
<1>2. /\ taken' = [taken EXCEPT ![n] = @ + 1]
      /\ waiter' = [waiter EXCEPT ![t] = @ - 1]
  BY <1>1, <1>a DEF Takes
<1>3. \A i \in 1..Len(given[n]) : given[n][i] = t => i = j
  <2> SUFFICES ASSUME NEW i \in 1..Len(given[n]), given[n][i] = t, i # j PROVE FALSE
    OBVIOUS
  <2>1. \A a, b, k, l \in 1..Len(given[n]) :
          (given[n][a] = given[n][k] /\ given[n][b] = given[n][l]) => (a < b <=> k < l)
    BY DEF StagesInv, SameOrder
  <2>2. i < j \/ j < i
    BY <1>0, <1>1
  <2>3. given[n][i] = given[n][j] /\ i \in Nat /\ j \in Nat
    BY <1>0, <1>1, <1>a
  <2>4. i < j <=> j < j
    BY <2>1, <2>3
  <2>5. j < i <=> j < j
    BY <2>1, <2>3
  <2> QED
    BY <2>2, <2>3, <2>4, <2>5
<1>4. ASSUME NEW x \in Tx, NEW m \in Node
      PROVE  Holds(m, x)' <=> Holds(m, x) /\ ~(m = n /\ x = t)
  <2>1. CASE m # n
    <3>1. taken'[m] = taken[m]
      BY <1>0, <1>2, <2>1
    <3> QED
      BY <2>1, <3>1 DEF Holds
  <2>2. CASE m = n
    <3>1. taken'[n] = taken[n] + 1 /\ taken[n] \in Nat /\ Len(given[n]) \in Nat
      BY <1>0, <1>2
    <3>a. \A i : i \in (taken[n] + 1)..Len(given[n]) <=>
                 i = j \/ i \in (taken'[n] + 1)..Len(given[n])
      BY <1>1, <3>1
    <3>2. CASE x = t
      <4>1. \A i \in (taken'[n] + 1)..Len(given[n]) : i \in 1..Len(given[n]) /\ i # j
        BY <1>1, <3>1
      <4> QED
        BY <1>3, <2>2, <3>2, <4>1 DEF Holds
    <3>3. CASE x # t
      BY <1>a, <2>2, <3>3, <3>a DEF Holds
    <3> QED
      BY <3>2, <3>3
  <2> QED
    BY <2>1, <2>2
<1>5. Holds(n, t)
  <2>1. j \in (taken[n] + 1)..Len(given[n])
    BY <1>0, <1>1
  <2> QED
    BY <1>a, <2>1 DEF Holds
<1>6. \A x \in Tx : Owing(x)' = IF x = t THEN Owing(t) \ {n} ELSE Owing(x)
  BY <1>4 DEF Owing
<1>7. Cardinality(Owing(t) \ {n}) = Cardinality(Owing(t)) - 1
  <2>1. n \in Owing(t) /\ IsFiniteSet(Owing(t))
    BY <1>5, NodesCount DEF Owing
  <2> QED
    BY <2>1, FS_RemoveElement
<1>8. waiter'[t] = waiter[t] - 1 /\ \A x \in Tx \ {t} : waiter'[x] = waiter[x]
  BY <1>0, <1>2
<1>9. \A x \in Tx : waiter[x] \in Int /\ Cardinality(Owing(x)) \in Nat
  BY <1>0, NodesCount DEF Owing
<1>10. \A x \in Tx : waiter'[x] >= Cardinality(Owing(x)')
  <2> TAKE x \in Tx
  <2>1. PICK w \in Int, c \in Nat : w = waiter[x] /\ c = Cardinality(Owing(x)) /\ w >= c
    BY <1>9 DEF CountsInv, CountedEnough
  <2>2. CASE x = t
    <3>1. waiter'[x] = w - 1 /\ Cardinality(Owing(x)') = c - 1
      BY <1>6, <1>7, <1>8, <2>1, <2>2
    <3> QED
      BY <2>1, <3>1
  <2>3. CASE x # t
    <3>1. waiter'[x] = w /\ Cardinality(Owing(x)') = c
      BY <1>6, <1>8, <2>1, <2>3
    <3> QED
      BY <2>1, <3>1
  <2> QED
    BY <2>2, <2>3
<1>11. ~OnItsWay(t)
  BY <1>a DEF StagesInv, OneStage, IsGiven
<1>12. \A x \in Tx : OnItsWay(x)' = OnItsWay(x)
  BY DEF OnItsWay, InChan
<1>13. /\ Cardinality(sockets') <= Cardinality(sockets)
       /\ Cardinality(sockets) \in Nat /\ Cardinality(sockets') \in Nat
       /\ CountEnough'
  <2>1. sockets \in SUBSET Node /\ sockets' \in SUBSET sockets
    BY DEF DealerTypeOK
  <2>2. IsFiniteSet(sockets)
    BY <2>1, NodesCount
  <2>3. Cardinality(sockets') <= Cardinality(sockets)
    BY <2>1, <2>2, FS_Subset
  <2>4. Cardinality(sockets) \in Nat /\ Cardinality(sockets') \in Nat
    BY <2>1, NodesCount
  <2> QED
    BY <2>3, <2>4 DEF CountsInv, CountEnough
<1>14. ASSUME NEW x \in Tx, OnItsWay(x)'
       PROVE  waiter'[x] >= 1 /\ (uniform => waiter'[x] >= Cardinality(sockets'))
  <2>1. x # t /\ OnItsWay(x)
    BY <1>11, <1>12, <1>14
  <2>2. waiter[x] >= 1 /\ (uniform => waiter[x] >= Cardinality(sockets))
    BY <2>1 DEF CountsInv, CountedEnough
  <2> QED
    BY <1>8, <1>9, <1>13, <2>1, <2>2
<1> QED
  BY <1>10, <1>13, <1>14 DEF CountsInv, CountedEnough

\* What idle sockets throw away is done at each of them.
LEMMA CloseKeepsCounts ==
  ASSUME DealerAssumption, DealerTypeOK, StagesInv, CountsInv, CloseSender PROVE CountsInv'
<1>1. PICK idle \in SUBSET (sockets \cap running) :
        /\ taken' = [n \in Node |-> IF n \in idle THEN Len(given[n]) ELSE taken[n]]
        /\ waiter' = [t \in Tx |-> waiter[t] - Cardinality({n \in idle : Holds(n, t)})]
  BY DEF CloseSender
<1>2. UNCHANGED <<uniform, spawned, chanMsg, given>> /\ sockets' = {} /\ nodeCount' = 0
  BY DEF CloseSender
<1>3. idle \in SUBSET Node
  BY DEF DealerTypeOK
<1>4. ASSUME NEW t \in Tx
      PROVE  /\ Owing(t)' = Owing(t) \ idle
             /\ waiter'[t] = waiter[t] - Cardinality(Owing(t) \cap idle)
  <2>1. ASSUME NEW n \in Node PROVE Holds(n, t)' <=> Holds(n, t) /\ n \notin idle
    <3>1. taken'[n] = IF n \in idle THEN Len(given[n]) ELSE taken[n]
      BY <1>1
    <3>2. Len(given[n]) \in Nat
      BY DEF DealerTypeOK
    <3> QED
      BY <1>2, <3>1, <3>2 DEF Holds
  <2>2. {n \in idle : Holds(n, t)} = Owing(t) \cap idle
    BY <1>3 DEF Owing
  <2> QED
    BY <1>1, <2>1, <2>2 DEF Owing
<1>5. ASSUME NEW t \in Tx
      PROVE  /\ Cardinality(Owing(t) \ idle) =
                Cardinality(Owing(t)) - Cardinality(Owing(t) \cap idle)
             /\ Cardinality(Owing(t)) \in Nat /\ Cardinality(Owing(t) \cap idle) \in Nat
             /\ Cardinality(Owing(t) \cap idle) <= Cardinality(sockets)
             /\ Cardinality(Owing(t) \ idle) \in Nat
  <2>1. /\ Owing(t) \in SUBSET Node /\ Owing(t) \cap idle \in SUBSET Node
        /\ Owing(t) \ idle \in SUBSET Node
    BY DEF Owing
  <2>2. IsFiniteSet(Owing(t)) /\ IsFiniteSet(sockets)
    BY <2>1, NodesCount DEF DealerTypeOK
  <2>3. Owing(t) \cap idle \in SUBSET sockets
    OBVIOUS
  <2> QED
    BY <2>1, <2>2, <2>3, NodesCount, FS_Difference, FS_Subset
<1>6. waiter \in [Tx -> Int]
  BY DEF DealerTypeOK
<1>7. ASSUME NEW t \in Tx
      PROVE  /\ waiter'[t] >= Cardinality(Owing(t)')
             /\ OnItsWay(t)' => waiter'[t] >= 1 /\ waiter'[t] >= Cardinality(sockets')
  <2>1. PICK w \in Int, c \in Nat, d \in Nat :
          w = waiter[t] /\ c = Cardinality(Owing(t)) /\ d = Cardinality(Owing(t) \cap idle)
    BY <1>5, <1>6
  <2>2. waiter'[t] = w - d /\ Cardinality(Owing(t)') = c - d /\ w >= c
    BY <1>4, <1>5, <2>1 DEF CountsInv, CountedEnough
  <2>3. waiter'[t] >= Cardinality(Owing(t)') /\ waiter'[t] \in Int
    BY <2>1, <2>2
  <2>4. ASSUME OnItsWay(t)' PROVE waiter'[t] >= 1
    <3>1. OnItsWay(t) /\ ~IsGiven(t)
      BY <1>2, <2>4 DEF OnItsWay, InChan, StagesInv, OneStage
    <3>2. Owing(t) = {}
      BY <3>1, GivenIsOwed
    <3>3. d = 0
      BY <2>1, <3>2, FS_EmptySet
    <3>4. w >= 1
      BY <2>1, <3>1 DEF CountsInv, CountedEnough
    <3> QED
      BY <2>2, <3>3, <3>4
  <2>5. Cardinality(sockets') = 0
    BY <1>2, FS_EmptySet
  <2>6. waiter'[t] >= 1 => waiter'[t] >= 0
    BY <2>3
  <2> QED
    BY <2>3, <2>4, <2>5, <2>6
<1>8. CountEnough'
  BY <1>2, FS_EmptySet DEF CountEnough
<1> QED
  BY <1>7, <1>8 DEF CountsInv, CountedEnough

LEMMA CountsKept ==
  ASSUME DealerAssumption, DealerTypeOK, CallsInv, StagesInv, CountsInv, [DealerNext]_dealerVars
  PROVE  CountsInv'
<1>n. sockets \in SUBSET Node /\ waiter \in [Tx -> Int] /\ chanMsg \in Seq(Tx) /\ nodeCount \in Nat
  BY DEF DealerTypeOK
<1>c. /\ Cardinality(sockets) \in Nat /\ Cardinality(Node) \in Nat \ {0}
      /\ Cardinality(sockets) <= Cardinality(Node) /\ Cardinality(sockets) <= nodeCount
  BY <1>n, NodesCount DEF CountsInv, CountEnough
<1>0. ASSUME UNCHANGED <<uniform, waiter, nodeCount, sockets, given, taken>>,
             \A x \in Tx : OnItsWay(x)' => OnItsWay(x)
      PROVE  CountsInv'
  <2>1. \A x \in Tx : Owing(x)' = Owing(x)
    BY <1>0 DEF Owing, Holds
  <2> QED
    BY <1>0, <2>1 DEF CountsInv, CountedEnough, CountEnough
<1>00. ASSUME UNCHANGED <<uniform, waiter, nodeCount, sockets, given, taken, spawned, chanMsg>>
       PROVE  CountsInv'
  <2>1. \A x \in Tx : OnItsWay(x)' => OnItsWay(x)
    BY <1>00 DEF OnItsWay, InChan
  <2> QED
    BY <1>0, <1>00, <2>1
<1>1. ASSUME NEW t \in Tx, RequestConsensus(t) \/ ReportLinkEvent(t) PROVE CountsInv'
  BY <1>1, <1>c, StartKeepsCounts DEF RequestConsensus, ReportLinkEvent, loopVars
<1>2. ASSUME NEW t \in Tx, HandlesTransaction(t) PROVE CountsInv'
  <2>1. call[t] = "idle"
    BY <1>2 DEF HandlesTransaction, Moves, CallsInv, AskedFirst
  <2>2. PICK k \in Nat : k = NodesToSignal
    BY <1>n DEF NodesToSignal
  <2>3. k >= 1 /\ (uniform => k >= Cardinality(sockets))
    BY <1>n, <1>c, <2>2 DEF NodesToSignal
  <2> QED
    BY <1>2, <2>1, <2>2, <2>3, StartKeepsCounts DEF HandlesTransaction, loopVars
<1>3. ASSUME NEW t \in Tx, SendsTx(t) PROVE CountsInv'
  <2>1. /\ t \in spawned /\ spawned' = spawned \ {t} /\ OnItsWay(t) /\ ~InChan(t) /\ ~IsGiven(t)
        /\ UNCHANGED <<uniform, nodeCount, sockets, given, taken>>
    BY <1>3 DEF SendsTx, loopVars, OnItsWay, StagesInv, OneStage
  <2>2. CASE chanMsg' = Append(chanMsg, t) /\ UNCHANGED waiter
    <3>1. \A i \in 1..Len(chanMsg') :
              chanMsg'[i] = t \/ (i \in 1..Len(chanMsg) /\ chanMsg'[i] = chanMsg[i])
      BY <1>n, <2>2
    <3>2. \A x \in Tx : OnItsWay(x)' => OnItsWay(x)
      BY <2>1, <3>1 DEF OnItsWay, InChan
    <3> QED
      BY <1>0, <2>1, <2>2, <3>2
  <2>3. CASE UNCHANGED chanMsg
    <3>1. \A x \in Tx : InChan(x)' = InChan(x)
      BY <2>3 DEF InChan
    <3>2. ~OnItsWay(t)' /\ \A x \in Tx : OnItsWay(x)' => OnItsWay(x)
      BY <2>1, <3>1 DEF OnItsWay
    <3>3. CASE UNCHANGED waiter
      BY <1>0, <2>1, <3>2, <3>3
    <3>4. CASE waiter' = [waiter EXCEPT ![t] = @ - 1]
      BY <2>1, <3>2, <3>4, DropKeepsCounts
    <3> QED
      BY <1>3, <2>3, <3>3, <3>4 DEF SendsTx
  <2> QED
    BY <1>3, <2>2, <2>3 DEF SendsTx
<1>4. ASSUME NEW p \in Peer, NEW t \in Tx,
             Connects(p, t) \/ MissesMessage(p, t) \/ LooksUpCall(p, t) \/ AnswersCall(p, t)
      PROVE  CountsInv'
  <2>1. UNCHANGED <<uniform, waiter, nodeCount, sockets, given, taken, spawned, chanMsg>>
    BY <1>4 DEF Connects, MissesMessage, LooksUpCall, AnswersCall, rpcVars, loopVars
  <2> QED
    BY <1>00, <2>1
<1>5. ASSUME NEW t \in Tx, Wakes(t) \/ Cleanup(t) PROVE CountsInv'
  BY <1>00, <1>5 DEF Wakes, Cleanup, loopVars
<1>6. CASE Interrupt \/ UNCHANGED dealerVars
  BY <1>00, <1>6 DEF Interrupt, rpcVars, loopVars, dealerVars
<1>7. CASE Distributes
  <2>1. PICK t \in Tx : t = Head(chanMsg)
    BY <1>7, <1>n DEF Distributes
  <2>2. /\ chanMsg # <<>> /\ chanMsg' = Tail(chanMsg)
        /\ UNCHANGED <<uniform, nodeCount, sockets, taken, spawned>>
    BY <1>7 DEF Distributes
  <2>3. Len(chanMsg) \in Nat /\ 1 \in 1..Len(chanMsg) /\ chanMsg[1] = t
    BY <1>n, <2>1, <2>2
  <2>4. \A i \in 1..Len(chanMsg') : /\ i + 1 \in 1..Len(chanMsg) /\ i + 1 # 1
                                    /\ chanMsg'[i] = chanMsg[i + 1]
    BY <1>n, <2>2
  <2>5. InChan(t) /\ OnItsWay(t) /\ t \notin spawned
    BY <2>3 DEF InChan, OnItsWay, StagesInv, OneStage
  <2>6. ~InChan(t)'
    BY <2>3, <2>4 DEF InChan, StagesInv, OneStage
  <2>7. ~OnItsWay(t)' /\ \A x \in Tx : OnItsWay(x)' => OnItsWay(x)
    <3>1. \A x \in Tx : InChan(x)' => InChan(x)
      BY <2>4 DEF InChan
    <3> QED
      BY <2>2, <2>5, <2>6, <3>1 DEF OnItsWay
  <2>8. CASE Drops(t)
    <3>1. ~IsGiven(t)
      BY <2>5 DEF StagesInv, OneStage
    <3>2. waiter' = [waiter EXCEPT ![t] = @ - 1] /\ UNCHANGED given
      BY <2>8 DEF Drops
    <3> QED
      BY <2>2, <2>5, <2>7, <3>1, <3>2, DropKeepsCounts
  <2>9. CASE uniform /\ Gives(t, sockets)
    BY <2>2, <2>5, <2>7, <2>9, GiveKeepsCounts
  <2>10. ASSUME NEW n \in sockets, Gives(t, {n}) PROVE CountsInv'
    <3>1. Cardinality({n}) <= 1
      <4>1. Cardinality({n}) = 1
        BY FS_Singleton
      <4> QED
        BY <4>1
    <3> QED
      BY <2>2, <2>5, <2>7, <2>10, <3>1, GiveKeepsCounts
  <2> QED
    BY <1>7, <2>1, <2>8, <2>9, <2>10 DEF Distributes
<1>8. ASSUME NEW n \in Node, SocketSends(n) \/ SocketFails(n) PROVE CountsInv'
  BY <1>8, TakeKeepsCounts DEF SocketSends, SocketFails, rpcVars
<1> QED
  BY <1>1, <1>2, <1>3, <1>4, <1>5, <1>6, <1>7, <1>8, CloseKeepsCounts DEF DealerNext

-----------------------------------------------------------------------------
(* What the dealer promises.                                               *)

LEMMA InitDealer == ASSUME DealerAssumption, DealerInit PROVE DealerInv
<1>1. DealerTypeOK
  BY InitTypes
<1>2. CallsInv
  BY ClientIsNoNode DEF DealerInit, CallsInv, RegisteredWhileCalled, ResultReachesCall, AskedFirst
<1>3. /\ \A t \in Tx : ~OnItsWay(t) /\ ~IsGiven(t)
      /\ Len(chanMsg) = 0 /\ \A n \in Node : taken[n] = 0 /\ Len(given[n]) = 0
  BY DEF DealerInit, OnItsWay, InChan, IsGiven
<1>4. StagesInv
  BY <1>3 DEF DealerInit, StagesInv, OneStage, SameOrder
<1>5. CountsInv
  <2>1. \A t \in Tx : Cardinality(Owing(t)) = 0
    BY <1>1, <1>3, GivenIsOwed, FS_EmptySet
  <2>2. CountEnough
    BY NodesCount DEF DealerInit, CountEnough
  <2> QED
    BY <1>3, <2>1, <2>2 DEF DealerInit, CountsInv, CountedEnough
<1> QED
  BY <1>1, <1>2, <1>4, <1>5 DEF DealerInv

LEMMA NextDealer == ASSUME DealerAssumption, DealerInv, [DealerNext]_dealerVars PROVE DealerInv'
<1>1. DealerTypeOK /\ CallsInv /\ StagesInv /\ CountsInv
  BY DEF DealerInv
<1>2. DealerTypeOK'
  BY <1>1, TypesKept
<1>3. CallsInv'
  BY <1>1, CallsKept DEF StagesInv
<1>4. StagesInv' /\ CountsInv'
  BY <1>1, StagesKept, CountsKept
<1> QED
  BY <1>2, <1>3, <1>4 DEF DealerInv

LEMMA DealerInvSound == ASSUME DealerAssumption, DealerInv PROVE DealerSound
<1>1. ASSUME NEW t \in Tx PROVE waiter[t] >= 0
  <2>1. PICK c \in Nat : c = Cardinality(Owing(t))
    BY NodesCount DEF Owing
  <2> QED
    BY <2>1 DEF DealerInv, DealerTypeOK, CountsInv, CountedEnough
<1> QED
  BY <1>1 DEF DealerInv, DealerSound, NeverNegative, CallsInv, StagesInv

\* The WaitGroup never goes below zero, the nodes get what they get in one order, a result
\* that comes while its call waits is there for it, and the register holds the calls there
\* are.
THEOREM DealerCorrect == ASSUME DealerAssumption PROVE DealerSpec => []DealerSound
<1>1. DealerInit => DealerInv
  BY InitDealer
<1>2. DealerInv /\ [DealerNext]_dealerVars => DealerInv'
  BY NextDealer
<1>3. DealerInv => DealerSound
  BY DealerInvSound
<1> QED
  BY <1>1, <1>2, <1>3, PTL DEF DealerSpec

-----------------------------------------------------------------------------
(* Requests of the web service to a switch.                                *)

\* No request stands for the xid of what nobody waits for; a request asks for the flows or
\* sets them.
RequestsAssumption ==
  /\ NoRequest \notin Request
  /\ RequestKind \in [Request -> {"set", "stats"}]
  /\ Flows \in [Request -> Seq(Flow)]

Sets(r) == RequestKind[r] = "set"
Wanted(r) == Len(Flows[r])
Barrier(r, k) == Message("barrier", r, k)
In(s, m) == \E i \in 1..Len(s) : s[i] = m

Xid == Request \cup {NoRequest}
Commands == [op : {"clear", "barrier", "add", "stats"}, xid : Xid, arg : Nat]
Answers == [op : {"barrier", "error", "stats"}, xid : Xid, arg : Nat \cup SUBSET Flow]

Responses == {None, Error} \cup {Result(v) : v \in {TRUE} \cup SUBSET Flow}

RequestsTypes ==
  /\ later \in Seq(Request) /\ begun \subseteq Request /\ listeners \subseteq begun
  /\ count \in [Request -> Int]
  /\ _response \in [Request -> Responses]
  /\ outcome \in [Request -> {"none", "answered", "giving up", "timed out"}]
  /\ toSw \in Seq(Commands) /\ toCtl \in Seq(Answers)
  /\ table \subseteq Flow /\ shown \in [Request -> SUBSET Flow] /\ took \in [Request -> Nat]
  /\ open \in BOOLEAN /\ refused \subseteq begun /\ set \in begun \cup {NoRequest}
  /\ late \subseteq Request

\* What a request sends, and the place of each message in it.
MessagesOf(r) ==
  IF Sets(r)
  THEN {Message("clear", r, 0)} \cup {Barrier(r, k) : k \in 0..Wanted(r)}
         \cup {Message("add", r, k) : k \in 1..Wanted(r)}
  ELSE {Message("stats", r, 0)}

Rank(m) ==
  IF m.op \in {"clear", "stats"} THEN 0 ELSE IF m.op = "add" THEN 2 * m.arg ELSE 2 * m.arg + 1

\* What may be on the way to the switch, and from it, when b are begun, f were refused a
\* flow, and s was shown.
Asks(m, b, f) ==
  \/ m.xid \in b /\ m \in MessagesOf(m.xid)
  \/ m \in {Message("clear", NoRequest, 0), Barrier(NoRequest, 0)} /\ f # {}
Tells(m, b, f, s) ==
  \/ m.xid \in b /\ Sets(m.xid) /\ \E k \in 0..Wanted(m.xid) : m = Barrier(m.xid, k)
  \/ m.xid \in b /\ ~Sets(m.xid) /\ m = Message("stats", m.xid, s[m.xid])
  \/ m.xid \in f /\ m = Message("error", m.xid, 0)
  \/ m = Barrier(NoRequest, 0) /\ f # {}

\* A request is begun once, and what is found or refused is of one that was begun.
BegunOnce ==
  /\ \A i, j \in 1..Len(later) : later[i] = later[j] => i = j
  /\ \A i \in 1..Len(later) : later[i] \notin begun
  /\ \A r \in refused : Sets(r)
  /\ set # NoRequest => Sets(set)
  /\ \A r \in Request : _response[r] # None => r \in begun \ listeners
  /\ \A r \in Request \ begun : took[r] = 0

Channels ==
  /\ ~open => toSw = <<>> /\ toCtl = <<>>
  /\ \A i \in 1..Len(toSw) : Asks(toSw[i], begun, refused)
  /\ \A i \in 1..Len(toCtl) : Tells(toCtl[i], begun, refused, shown)

\* The messages of a request to the switch, and what they bring back, keep their order.
Before(m, n) ==
  m.xid = n.xid /\ m.xid # NoRequest /\ m.op # "error" /\ n.op # "error" => Rank(m) < Rank(n)

InTurn ==
  /\ \A i, j \in 1..Len(toSw) : i < j => Before(toSw[i], toSw[j])
  /\ \A i, j \in 1..Len(toCtl) : i < j => Before(toCtl[i], toCtl[j])
  /\ \A i \in 1..Len(toCtl), j \in 1..Len(toSw) : Before(toCtl[i], toSw[j])

\* The flows the switch did not take yet are on the way to it.
RestOnTheWay ==
  open => \A r \in begun \ refused :
    Sets(r) => /\ took[r] <= Wanted(r)
               /\ \A k \in 1..Wanted(r) : In(toSw, Message("add", r, k)) <=> took[r] < k

\* A request that listens waits for the barriers that are on the way ...
BarriersOnTheWay ==
  open => \A r \in listeners :
    Sets(r) => /\ count[r] <= Wanted(r) + 1
               /\ \A k \in 0..Wanted(r) :
                    In(toSw, Barrier(r, k)) \/ In(toCtl, Barrier(r, k))
                      <=> k + count[r] > Wanted(r)

\* ... and hears of a refusal before the last of them.
ErrorComesFirst ==
  open => \A r \in listeners \cap refused :
    \E j \in 1..Len(toCtl) : /\ toCtl[j] = Message("error", r, 0)
                             /\ \A i \in 1..j : toCtl[i] # Barrier(r, Wanted(r))

\* Nothing is on the way to the switch for a request that has its result.
Settled ==
  \A r \in Request : _response[r].is = "result" =>
    /\ \A i \in 1..Len(toSw) : toSw[i].xid # r
    /\ Sets(r) => took[r] = Wanted(r)

\* The last request to set the table is still to clear it, or the table has what the switch
\* took of it; no other touches the table after it.
Leaves(j) == toSw[j].xid = set \/ toSw[j].op = "stats"
LastOneSets ==
  open /\ refused = {} /\ set # NoRequest =>
    \/ /\ took[set] = 0
       /\ \E i \in 1..Len(toSw) : /\ toSw[i] = Message("clear", set, 0)
                                  /\ \A j \in i..Len(toSw) : Leaves(j)
    \/ /\ table = {Flows[set][k] : k \in 1..took[set]}
       /\ \A j \in 1..Len(toSw) : Leaves(j) /\ toSw[j].op # "clear"

ChannelsInv == Channels /\ InTurn
SwitchInv == RestOnTheWay /\ LastOneSets /\ TableSet
AnswersInv == BarriersOnTheWay /\ ErrorComesFirst /\ Settled /\ OwnAnswer /\ NobodyLeft

RequestsInv == RequestsTypes /\ BegunOnce /\ ChannelsInv /\ SwitchInv /\ AnswersInv

-----------------------------------------------------------------------------
(* Channels as sequences.                                                  *)

\* The first element of a sequence is taken.
LEMMA FirstTaken ==
  ASSUME NEW S, NEW s \in Seq(S), s # <<>>
  PROVE  /\ Head(s) = s[1] /\ 1 \in 1..Len(s) /\ s[1] \in S
         /\ Tail(s) \in Seq(S) /\ Len(Tail(s)) = Len(s) - 1
         /\ \A i \in 1..Len(Tail(s)) : i + 1 \in 1..Len(s) /\ Tail(s)[i] = s[i + 1]
         /\ \A i \in 1..Len(s) : i # 1 => i - 1 \in 1..Len(Tail(s)) /\ Tail(s)[i - 1] = s[i]
         /\ \A m : In(s, m) <=> m = s[1] \/ In(Tail(s), m)
<1>1. /\ Head(s) = s[1] /\ Len(s) \in Nat \ {0} /\ s[1] \in S
      /\ Tail(s) \in Seq(S) /\ Len(Tail(s)) = Len(s) - 1
      /\ \A i \in 1..Len(Tail(s)) : Tail(s)[i] = s[i + 1]
  BY HeadTailProperties, EmptySeq, LenProperties, ElementOfSeq
<1>2. \A i \in 1..Len(Tail(s)) : i + 1 \in 1..Len(s) /\ Tail(s)[i] = s[i + 1]
  BY <1>1
<1>3. \A i \in 1..Len(s) : i # 1 => i - 1 \in 1..Len(Tail(s)) /\ Tail(s)[i - 1] = s[i]
  BY <1>1
<1>4. \A m : In(s, m) <=> m = s[1] \/ In(Tail(s), m)
  BY <1>1, <1>2, <1>3 DEF In
<1> QED
  BY <1>1, <1>2, <1>3, <1>4

\* Elements are put behind those that are there.
LEMMA PutBehind ==
  ASSUME NEW S, NEW s \in Seq(S), NEW t \in Seq(S)
  PROVE  /\ s \o t \in Seq(S) /\ Len(s \o t) = Len(s) + Len(t)
         /\ \A i \in 1..Len(s) : i \in 1..Len(s \o t) /\ (s \o t)[i] = s[i]
         /\ \A i \in 1..Len(t) : /\ i + Len(s) \in 1..Len(s \o t)
                                 /\ (s \o t)[i + Len(s)] = t[i]
         /\ \A i \in 1..Len(s \o t) :
              i \notin 1..Len(s) => i - Len(s) \in 1..Len(t) /\ (s \o t)[i] = t[i - Len(s)]
         /\ \A m : In(s \o t, m) <=> In(s, m) \/ In(t, m)
<1>1. /\ s \o t \in Seq(S) /\ Len(s \o t) = Len(s) + Len(t)
      /\ \A i \in 1..(Len(s) + Len(t)) :
           (s \o t)[i] = IF i <= Len(s) THEN s[i] ELSE t[i - Len(s)]
  BY ConcatProperties
<1>2. Len(s) \in Nat /\ Len(t) \in Nat
  BY LenProperties
<1>3. \A i \in 1..Len(s) : i \in 1..Len(s \o t) /\ (s \o t)[i] = s[i]
  BY <1>1, <1>2
<1>4. \A i \in 1..Len(t) : /\ i + Len(s) \in 1..Len(s \o t)
                           /\ (s \o t)[i + Len(s)] = t[i]
  BY <1>1, <1>2
<1>5. \A i \in 1..Len(s \o t) :
        i \notin 1..Len(s) => i - Len(s) \in 1..Len(t) /\ (s \o t)[i] = t[i - Len(s)]
  BY <1>1, <1>2
<1>6. \A m : In(s \o t, m) <=> In(s, m) \/ In(t, m)
  BY <1>3, <1>4, <1>5 DEF In
<1> QED
  BY <1>1, <1>3, <1>4, <1>5, <1>6

LEMMA PutLastOf ==
  ASSUME NEW S, NEW s \in Seq(S), NEW e \in S
  PROVE  /\ Append(s, e) \in Seq(S) /\ Len(Append(s, e)) = Len(s) + 1
         /\ \A i \in 1..Len(s) : i \in 1..Len(Append(s, e)) /\ Append(s, e)[i] = s[i]
         /\ \A i \in 1..Len(Append(s, e)) :
              i \notin 1..Len(s) => i = Len(s) + 1 /\ Append(s, e)[i] = e
         /\ Len(s) + 1 \in 1..Len(Append(s, e)) /\ Append(s, e)[Len(s) + 1] = e
         /\ \A m : In(Append(s, e), m) <=> In(s, m) \/ m = e
<1>1. /\ Append(s, e) \in Seq(S) /\ Len(Append(s, e)) = Len(s) + 1
      /\ \A i \in 1..Len(s) : Append(s, e)[i] = s[i]
      /\ Append(s, e)[Len(s) + 1] = e
  BY AppendProperties
<1>2. Len(s) \in Nat
  BY LenProperties
<1>3. \A i \in 1..Len(s) : i \in 1..Len(Append(s, e))
  BY <1>1, <1>2
<1>4. \A i \in 1..Len(Append(s, e)) :
        i \notin 1..Len(s) => i = Len(s) + 1 /\ Append(s, e)[i] = e
  BY <1>1, <1>2
<1>5. Len(s) + 1 \in 1..Len(Append(s, e))
  BY <1>1, <1>2
<1>6. \A m : In(Append(s, e), m) <=> In(s, m) \/ m = e
  BY <1>1, <1>3, <1>4, <1>5 DEF In
<1> QED
  BY <1>1, <1>3, <1>4, <1>5, <1>6

-----------------------------------------------------------------------------
(* The messages of requests.                                               *)

LEMMA WantedNat == ASSUME RequestsAssumption, NEW r \in Request PROVE Wanted(r) \in Nat
BY LenProperties DEF RequestsAssumption, Wanted

\* Messages of a request are commands that carry its xid; their ranks say what they are.
LEMMA MessagesAre ==
  ASSUME RequestsAssumption, NEW r \in Request, NEW m \in MessagesOf(r)
  PROVE  /\ m \in Commands /\ m.xid = r /\ m.op # "error" /\ Rank(m) \in Nat
         /\ Sets(r) => /\ m.op \in {"clear", "barrier", "add"}
                       /\ Rank(m) <= 2 * Wanted(r) + 1
                       /\ m.op = "clear" => m = Message("clear", r, 0) /\ Rank(m) = 0
                       /\ m.op = "add" => /\ m.arg \in 1..Wanted(r) /\ Rank(m) = 2 * m.arg
                                          /\ m = Message("add", r, m.arg)
                       /\ m.op = "barrier" => /\ m.arg \in 0..Wanted(r)
                                              /\ Rank(m) = 2 * m.arg + 1
                                              /\ m = Barrier(r, m.arg)
         /\ ~Sets(r) => m = Message("stats", r, 0) /\ m.op = "stats" /\ Rank(m) = 0
<1>n. Wanted(r) \in Nat
  BY WantedNat
<1>1. CASE ~Sets(r)
  BY <1>1 DEF MessagesOf, Message, Commands, Xid, Rank
<1>2. CASE Sets(r) /\ m = Message("clear", r, 0)
  BY <1>2, <1>n DEF Message, Commands, Xid, Rank
<1>3. CASE Sets(r) /\ \E k \in 0..Wanted(r) : m = Barrier(r, k)
  <2>1. PICK k \in 0..Wanted(r) : m = Barrier(r, k)
    BY <1>3
  <2>2. m.op = "barrier" /\ m.xid = r /\ m.arg = k /\ k \in Nat /\ k <= Wanted(r)
    BY <2>1, <1>n DEF Barrier, Message
  <2>3. m \in Commands
    BY <2>1, <2>2 DEF Barrier, Message, Commands, Xid
  <2>4. Rank(m) = 2 * k + 1
    BY <2>2 DEF Rank
  <2> QED
    BY <1>3, <2>1, <2>2, <2>3, <2>4, <1>n
<1>4. CASE Sets(r) /\ \E k \in 1..Wanted(r) : m = Message("add", r, k)
  <2>1. PICK k \in 1..Wanted(r) : m = Message("add", r, k)
    BY <1>4
  <2>2. m.op = "add" /\ m.xid = r /\ m.arg = k /\ k \in Nat /\ k <= Wanted(r)
    BY <2>1, <1>n DEF Message
  <2>3. m \in Commands
    BY <2>1, <2>2 DEF Message, Commands, Xid
  <2>4. Rank(m) = 2 * k
    BY <2>2 DEF Rank
  <2> QED
    BY <1>4, <2>1, <2>2, <2>3, <2>4, <1>n
<1> QED
  BY <1>1, <1>2, <1>3, <1>4 DEF MessagesOf

\* A request to set the table sends its messages in the order of their ranks.
LEMMA SetMessagesAre ==
  ASSUME RequestsAssumption, NEW r \in Request, Sets(r)
  PROVE  LET q == SetMessages(r)
         IN  /\ q \in Seq(Commands) /\ Len(q) \in Nat \ {0}
             /\ \A i \in 1..Len(q) : q[i] \in MessagesOf(r) /\ Rank(q[i]) = i - 1
             /\ \A m \in MessagesOf(r) : In(q, m)
             /\ q[1] = Message("clear", r, 0)
<1> DEFINE q == SetMessages(r)  n == Wanted(r)
           tl == [i \in 1..(2 * n) |->
                    Message(IF i % 2 = 1 THEN "add" ELSE "barrier", r, (i + 1) \div 2)]
           hd == clear_table(r)
<1>n. n \in Nat
  BY WantedNat
<1>m. \A m \in MessagesOf(r) : m \in Commands
  BY MessagesAre
<1>1. hd = <<Message("clear", r, 0), Barrier(r, 0)>> /\ Len(hd) = 2
      /\ hd[1] = Message("clear", r, 0) /\ hd[2] = Barrier(r, 0)
  BY DEF clear_table, Barrier
<1>2. hd[1] \in MessagesOf(r) /\ hd[2] \in MessagesOf(r)
  BY <1>1, <1>n DEF MessagesOf
<1>3. hd \in Seq(Commands)
  BY <1>1, <1>2, <1>m
<1>4. \A i \in 1..(2 * n) :
        /\ i % 2 = 1 => (i + 1) \div 2 \in 1..n /\ 2 * ((i + 1) \div 2) = i + 1
        /\ i % 2 # 1 => (i + 1) \div 2 \in 1..n /\ 2 * ((i + 1) \div 2) = i
  BY <1>n
<1>5. \A i \in 1..(2 * n) : tl[i] \in MessagesOf(r) /\ Rank(tl[i]) = i + 1
  <2> SUFFICES ASSUME NEW i \in 1..(2 * n) PROVE tl[i] \in MessagesOf(r) /\ Rank(tl[i]) = i + 1
    OBVIOUS
  <2> DEFINE k == (i + 1) \div 2
  <2>1. CASE i % 2 = 1
    <3>1. tl[i] = Message("add", r, k) /\ k \in 1..n /\ 2 * k = i + 1
      BY <2>1, <1>4
    <3> HIDE DEF k
    <3>2. tl[i] \in MessagesOf(r)
      BY <3>1 DEF MessagesOf
    <3>3. tl[i].op = "add" /\ tl[i].arg = k
      BY <3>1 DEF Message
    <3> QED
      BY <3>1, <3>2, <3>3 DEF Rank
  <2>2. CASE i % 2 # 1
    <3>1. tl[i] = Barrier(r, k) /\ k \in 1..n /\ 2 * k = i
      BY <2>2, <1>4 DEF Barrier
    <3> HIDE DEF k
    <3>2. tl[i] \in MessagesOf(r)
      BY <3>1, <1>n DEF MessagesOf
    <3>3. tl[i].op = "barrier" /\ tl[i].arg = k
      BY <3>1 DEF Message, Barrier
    <3> QED
      BY <3>1, <3>2, <3>3 DEF Rank
  <2> QED
    BY <2>1, <2>2
<1>6. tl \in Seq(Commands) /\ Len(tl) = 2 * n
  <2>1. tl = [i \in 1..(2 * n) |-> tl[i]] /\ 2 * n \in Nat
    BY <1>n
  <2> HIDE DEF tl
  <2>2. tl \in [1..(2 * n) -> Commands]
    BY <2>1, <1>5, <1>m
  <2> QED
    BY <2>1, <2>2
<1>7. q = hd \o tl
  BY DEF SetMessages, Wanted
<1> HIDE DEF q, hd, tl
<1>8. /\ q \in Seq(Commands) /\ Len(q) = 2 + 2 * n
      /\ \A i \in 1..2 : q[i] = hd[i]
      /\ \A i \in 1..(2 * n) : q[i + 2] = tl[i]
      /\ \A i \in 1..Len(q) : i \notin 1..2 => i - 2 \in 1..(2 * n) /\ q[i] = tl[i - 2]
  BY <1>1, <1>3, <1>6, <1>7, PutBehind
<1>9. Rank(hd[1]) = 0 /\ Rank(hd[2]) = 1
  BY <1>1 DEF Rank, Message, Barrier
<1>10. \A i \in 1..Len(q) : q[i] \in MessagesOf(r) /\ Rank(q[i]) = i - 1
  <2> SUFFICES ASSUME NEW i \in 1..Len(q) PROVE q[i] \in MessagesOf(r) /\ Rank(q[i]) = i - 1
    OBVIOUS
  <2>1. CASE i \in 1..2
    BY <2>1, <1>8, <1>9, <1>2
  <2>2. CASE i \notin 1..2
    BY <2>2, <1>8, <1>5
  <2> QED
    BY <2>1, <2>2
<1>11. ASSUME NEW m \in MessagesOf(r) PROVE In(q, m)
  <2>1. CASE m = Message("clear", r, 0)
    BY <2>1, <1>1, <1>8, <1>n DEF In
  <2>2. CASE m = Barrier(r, 0)
    BY <2>2, <1>1, <1>8, <1>n DEF In
  <2>3. ASSUME NEW k \in 1..n, m = Message("add", r, k) PROVE In(q, m)
    <3>1. 2 * k - 1 \in 1..(2 * n) /\ (2 * k - 1) % 2 = 1 /\ (2 * k - 1 + 1) \div 2 = k
      BY <1>n
    <3>2. tl[2 * k - 1] = m
      BY <3>1, <2>3 DEF tl
    <3>3. 2 * k - 1 + 2 \in 1..Len(q) /\ q[2 * k - 1 + 2] = m
      BY <3>1, <3>2, <1>8, <1>n
    <3> QED
      BY <3>3 DEF In
  <2>4. ASSUME NEW k \in 1..n, m = Barrier(r, k) PROVE In(q, m)
    <3>1. 2 * k \in 1..(2 * n) /\ (2 * k) % 2 # 1 /\ (2 * k + 1) \div 2 = k
      BY <1>n
    <3>2. tl[2 * k] = m
      BY <3>1, <2>4 DEF tl, Barrier
    <3>3. 2 * k + 2 \in 1..Len(q) /\ q[2 * k + 2] = m
      BY <3>1, <3>2, <1>8, <1>n
    <3> QED
      BY <3>3 DEF In
  <2> QED
    BY <2>1, <2>2, <2>3, <2>4, <1>n DEF MessagesOf
<1> QED
  BY <1>1, <1>8, <1>10, <1>11, <1>n DEF q

-----------------------------------------------------------------------------
(* The thread of the web server, and a connection that closes.             *)

LEMMA ResponsesApart ==
  /\ Error # None /\ Error.is # "result" /\ None.is # "result"
  /\ \A v : Result(v) # None /\ Result(v).is = "result"
BY DEF Error, None, Result

LEMMA InitAnswers == RequestsAssumption => (Init => RequestsInv)
<1> SUFFICES ASSUME RequestsAssumption, Init PROVE RequestsInv
  OBVIOUS
<1> USE DEF Init
<1>1. RequestsTypes
  BY DEF RequestsTypes, Responses
<1>2. BegunOnce
  BY DEF BegunOnce
<1>3. ChannelsInv
  BY DEF ChannelsInv, Channels, InTurn
<1>4. SwitchInv
  BY DEF SwitchInv, RestOnTheWay, LastOneSets, TableSet
<1>5. AnswersInv
  BY ResponsesApart
  DEF AnswersInv, BarriersOnTheWay, ErrorComesFirst, Settled, OwnAnswer, NobodyLeft
<1> QED
  BY <1>1, <1>2, <1>3, <1>4, <1>5 DEF RequestsInv

\* A step of the thread leaves what goes between POX and the switch alone.
LEMMA ThreadAlone ==
  ASSUME RequestsInv, listeners' \subseteq listeners,
         UNCHANGED <<begun, count, _response, toSw, toCtl, table, open, shown, took, refused, set>>
  PROVE  /\ ChannelsInv' /\ SwitchInv'
         /\ BarriersOnTheWay' /\ ErrorComesFirst' /\ Settled' /\ OwnAnswer'
<1>1. ChannelsInv'
  BY DEF RequestsInv, ChannelsInv, Channels, InTurn, Asks, Tells, Before
<1>2. SwitchInv'
  BY DEF RequestsInv, SwitchInv, RestOnTheWay, LastOneSets, TableSet, Leaves, In
<1>3. BarriersOnTheWay'
  BY DEF RequestsInv, AnswersInv, BarriersOnTheWay, In
<1>4. ErrorComesFirst'
  BY DEF RequestsInv, AnswersInv, ErrorComesFirst
<1>5. Settled' /\ OwnAnswer'
  BY DEF RequestsInv, AnswersInv, Settled, OwnAnswer
<1> QED
  BY <1>1, <1>2, <1>3, <1>4, <1>5

LEMMA ThreadSteps ==
  ASSUME RequestsInv, NEW r \in Request, Make(r) \/ Answered(r) \/ WaitEnds(r) \/ Abort(r)
  PROVE  RequestsInv'
<1>t. RequestsTypes /\ BegunOnce /\ NobodyLeft
  BY DEF RequestsInv, AnswersInv
<1>1. CASE Make(r)
  <2>1. RequestsTypes'
    <3>1. later' \in Seq(Request)
      BY <1>1, <1>t, PutLastOf DEF Make, RequestsTypes
    <3>2. UNCHANGED <<begun, listeners, count, _response, outcome, toSw, toCtl, table, open,
                      shown, took, refused, set, late>>
      BY <1>1 DEF Make
    <3> QED
      BY <3>1, <3>2, <1>t DEF RequestsTypes
  <2>2. BegunOnce'
    <3>1. /\ Len(later') = Len(later) + 1
          /\ \A i \in 1..Len(later) : later'[i] = later[i] /\ later[i] # r
          /\ \A i \in 1..Len(later') : i \notin 1..Len(later) => i = Len(later) + 1 /\ later'[i] = r
          /\ r \notin begun
      <4>1. later \in Seq(Request) /\ later' = Append(later, r) /\ r \notin Made
        BY <1>1, <1>t DEF Make, RequestsTypes
      <4>2. DOMAIN later = 1..Len(later)
        BY <4>1, LenProperties
      <4> QED
        BY <4>1, <4>2, PutLastOf DEF Made
    <3>2. \A i, j \in 1..Len(later') : later'[i] = later'[j] => i = j
      BY <3>1, <1>t DEF BegunOnce
    <3>3. \A i \in 1..Len(later') : later'[i] \notin begun'
      BY <3>1, <1>t, <1>1 DEF BegunOnce, Make
    <3> QED
      BY <3>2, <3>3, <1>t, <1>1 DEF BegunOnce, Make
  <2>3. NobodyLeft'
    BY <1>1, <1>t DEF Make, NobodyLeft
  <2> QED
    BY <1>1, <2>1, <2>2, <2>3, ThreadAlone DEF Make, RequestsInv, AnswersInv
<1>2. CASE Answered(r)
  <2>1. RequestsTypes'
    BY <1>2, <1>t DEF Answered, RequestsTypes
  <2>2. BegunOnce'
    BY <1>2, <1>t DEF Answered, BegunOnce
  <2>3. NobodyLeft'
    BY <1>2, <1>t DEF Answered, Synced, NobodyLeft, BegunOnce, RequestsTypes
  <2> QED
    BY <1>2, <2>1, <2>2, <2>3, ThreadAlone DEF Answered, RequestsInv, AnswersInv
<1>3. CASE WaitEnds(r)
  <2>1. RequestsTypes'
    BY <1>3, <1>t DEF WaitEnds, RequestsTypes
  <2>2. BegunOnce'
    BY <1>3, <1>t DEF WaitEnds, BegunOnce
  <2>3. NobodyLeft'
    BY <1>3, <1>t DEF WaitEnds, NobodyLeft, RequestsTypes
  <2> QED
    BY <1>3, <2>1, <2>2, <2>3, ThreadAlone DEF WaitEnds, RequestsInv, AnswersInv
<1>4. CASE Abort(r)
  <2>1. RequestsTypes'
    BY <1>4, <1>t DEF Abort, RequestsTypes
  <2>2. BegunOnce'
    BY <1>4, <1>t DEF Abort, BegunOnce
  <2>3. NobodyLeft'
    BY <1>4, <1>t DEF Abort, NobodyLeft, RequestsTypes
  <2> QED
    BY <1>4, <2>1, <2>2, <2>3, ThreadAlone DEF Abort, RequestsInv, AnswersInv
<1> QED
  BY <1>1, <1>2, <1>3, <1>4

LEMMA CloseStep == ASSUME RequestsInv, Close PROVE RequestsInv'
<1>t. RequestsTypes /\ BegunOnce /\ SwitchInv /\ Settled /\ OwnAnswer /\ NobodyLeft
  BY DEF RequestsInv, AnswersInv
<1>c. /\ open' = FALSE /\ toSw' = <<>> /\ toCtl' = <<>>
      /\ UNCHANGED <<later, begun, listeners, count, _response, outcome, table, shown, took,
                     refused, set, late>>
  BY DEF Close
<1>1. RequestsTypes'
  <2>1. toSw' \in Seq(Commands) /\ toCtl' \in Seq(Answers) /\ open' \in BOOLEAN
    BY <1>c, EmptySeq
  <2>2. UNCHANGED <<later, begun, listeners, count, _response, outcome, table, shown, took,
                    refused, set, late>>
    BY <1>c
  <2> QED
    BY <1>t, <2>1, <2>2 DEF RequestsTypes
<1>2. BegunOnce'
  BY <1>t, <1>c DEF BegunOnce
<1>3. ChannelsInv'
  BY <1>c DEF ChannelsInv, Channels, InTurn
<1>4. SwitchInv'
  BY <1>t, <1>c DEF SwitchInv, RestOnTheWay, LastOneSets, TableSet
<1>5. BarriersOnTheWay' /\ ErrorComesFirst'
  BY <1>c DEF BarriersOnTheWay, ErrorComesFirst
<1>6. Settled'
  BY <1>t, <1>c DEF Settled
<1>7. OwnAnswer' /\ NobodyLeft'
  BY <1>t, <1>c DEF OwnAnswer, NobodyLeft
<1> QED
  BY <1>1, <1>2, <1>3, <1>4, <1>5, <1>6, <1>7 DEF RequestsInv, AnswersInv

-----------------------------------------------------------------------------
(* The switch.                                                             *)

\* What comes first of a channel to the switch, and what is behind it.
LEMMA FirstToSwitch ==
  ASSUME RequestsAssumption, RequestsInv, toSw # <<>>
  PROVE  LET h == Head(toSw)
         IN  /\ h = toSw[1] /\ 1 \in 1..Len(toSw) /\ h \in Commands /\ Asks(h, begun, refused)
             /\ h.xid # NoRequest => h.xid \in begun /\ h.xid \in Request /\ h \in MessagesOf(h.xid)
             /\ \A i \in 1..Len(Tail(toSw)) : Before(h, Tail(toSw)[i])
             /\ \A i \in 1..Len(toCtl) : Before(toCtl[i], h)
             /\ h.xid # NoRequest => ~In(Tail(toSw), h)
<1> DEFINE h == Head(toSw)
<1>t. /\ toSw \in Seq(Commands) /\ begun \subseteq Request
      /\ \A i \in 1..Len(toSw) : Asks(toSw[i], begun, refused)
      /\ InTurn
  BY DEF RequestsInv, RequestsTypes, ChannelsInv, Channels
<1>1. /\ h = toSw[1] /\ 1 \in 1..Len(toSw) /\ h \in Commands
      /\ \A i \in 1..Len(Tail(toSw)) : i + 1 \in 1..Len(toSw) /\ Tail(toSw)[i] = toSw[i + 1]
  BY <1>t, FirstTaken
<1>2. Asks(h, begun, refused)
  BY <1>t, <1>1
<1>3. h.xid # NoRequest => h.xid \in begun /\ h.xid \in Request /\ h \in MessagesOf(h.xid)
  BY <1>2, <1>t DEF Asks, Message, Barrier
<1>4. \A i \in 1..Len(Tail(toSw)) : Before(h, Tail(toSw)[i])
  <2> SUFFICES ASSUME NEW i \in 1..Len(Tail(toSw)) PROVE Before(h, Tail(toSw)[i])
    OBVIOUS
  <2>1. i + 1 \in 1..Len(toSw) /\ 1 < i + 1
    BY <1>1
  <2> QED
    BY <2>1, <1>1, <1>t DEF InTurn
<1>5. \A i \in 1..Len(toCtl) : Before(toCtl[i], h)
  BY <1>1, <1>t DEF InTurn
<1>6. ASSUME h.xid # NoRequest, In(Tail(toSw), h) PROVE FALSE
  <2>1. PICK i \in 1..Len(Tail(toSw)) : Tail(toSw)[i] = h
    BY <1>6 DEF In
  <2>2. Before(h, h) /\ h.op # "error" /\ Rank(h) \in Nat
    BY <2>1, <1>4, <1>6, <1>3, MessagesAre
  <2> QED
    BY <2>2, <1>6 DEF Before
<1> QED
  BY <1>1, <1>2, <1>3, <1>4, <1>5, <1>6

\* The channels keep their order when the switch takes a message and may answer it.
LEMMA SwitchKeepsTurn ==
  ASSUME RequestsAssumption, RequestsInv, toSw # <<>>, open, open' = open,
         toSw' = Tail(toSw), begun' = begun, refused \subseteq refused',
         \A i \in 1..Len(toCtl) : Tells(toCtl[i], begun', refused', shown'),
         \/ UNCHANGED toCtl
         \/ \E e \in Answers :
              /\ toCtl' = Append(toCtl, e) /\ Tells(e, begun', refused', shown')
              /\ e.op # "error" => e.xid = Head(toSw).xid
              /\ e.op # "error" /\ e.xid # NoRequest => Rank(e) = Rank(Head(toSw))
  PROVE  ChannelsInv' /\ toSw' \in Seq(Commands) /\ toCtl' \in Seq(Answers)
<1> DEFINE h == Head(toSw)
<1>t. /\ toSw \in Seq(Commands) /\ toCtl \in Seq(Answers)
      /\ \A i \in 1..Len(toSw) : Asks(toSw[i], begun, refused)
      /\ InTurn
  BY DEF RequestsInv, RequestsTypes, ChannelsInv, Channels
<1>1. /\ toSw' \in Seq(Commands)
      /\ \A i \in 1..Len(toSw') : i + 1 \in 1..Len(toSw) /\ toSw'[i] = toSw[i + 1]
  BY <1>t, FirstTaken
<1>h. /\ h \in Commands /\ h.op # "error"
      /\ \A i \in 1..Len(toSw') : Before(h, toSw'[i])
      /\ \A i \in 1..Len(toCtl) : Before(toCtl[i], h)
  BY FirstToSwitch DEF Commands
<1> HIDE DEF h
<1>2. \A i \in 1..Len(toSw') : Asks(toSw'[i], begun', refused')
  <2> SUFFICES ASSUME NEW i \in 1..Len(toSw') PROVE Asks(toSw'[i], begun', refused')
    OBVIOUS
  <2>1. Asks(toSw'[i], begun, refused)
    BY <1>1, <1>t
  <2> QED
    BY <2>1 DEF Asks
<1>3. \A i, j \in 1..Len(toSw') : i < j => Before(toSw'[i], toSw'[j])
  <2> SUFFICES ASSUME NEW i \in 1..Len(toSw'), NEW j \in 1..Len(toSw'), i < j
               PROVE  Before(toSw'[i], toSw'[j])
    OBVIOUS
  <2>1. i + 1 \in 1..Len(toSw) /\ j + 1 \in 1..Len(toSw) /\ i + 1 < j + 1
    BY <1>1
  <2> QED
    BY <2>1, <1>1, <1>t DEF InTurn
<1>4. \A i \in 1..Len(toCtl), j \in 1..Len(toSw') : Before(toCtl[i], toSw'[j])
  BY <1>1, <1>t DEF InTurn
<1>5. CASE UNCHANGED toCtl
  <2>1. Channels'
    BY <1>2, <1>5 DEF Channels
  <2>2. InTurn'
    BY <1>3, <1>4, <1>5, <1>t DEF InTurn, Before, Rank
  <2> QED
    BY <2>1, <2>2, <1>1, <1>t, <1>5 DEF ChannelsInv
<1>6. ASSUME NEW e \in Answers, toCtl' = Append(toCtl, e), Tells(e, begun', refused', shown'),
             e.op # "error" => e.xid = h.xid,
             e.op # "error" /\ e.xid # NoRequest => Rank(e) = Rank(h)
      PROVE  ChannelsInv' /\ toSw' \in Seq(Commands) /\ toCtl' \in Seq(Answers)
  <2>1. /\ toCtl' \in Seq(Answers) /\ Len(toCtl) \in Nat
        /\ \A i \in 1..Len(toCtl) : toCtl'[i] = toCtl[i]
        /\ \A i \in 1..Len(toCtl') : i \notin 1..Len(toCtl) => i = Len(toCtl) + 1 /\ toCtl'[i] = e
    BY <1>6, <1>t, PutLastOf, LenProperties
  <2>2. \A i \in 1..Len(toCtl') : Tells(toCtl'[i], begun', refused', shown')
    BY <2>1, <1>6
  <2>3. \A i \in 1..Len(toCtl) : Before(toCtl[i], e)
    BY <1>h, <1>6 DEF Before
  <2>4. \A i \in 1..Len(toSw') : Before(e, toSw'[i])
    BY <1>h, <1>6 DEF Before
  <2>5. \A i, j \in 1..Len(toCtl') : i < j => Before(toCtl'[i], toCtl'[j])
    <3> SUFFICES ASSUME NEW i \in 1..Len(toCtl'), NEW j \in 1..Len(toCtl'), i < j
                 PROVE  Before(toCtl'[i], toCtl'[j])
      OBVIOUS
    <3>1. i \in 1..Len(toCtl)
      BY <2>1
    <3>2. CASE j \in 1..Len(toCtl)
      BY <3>1, <3>2, <2>1, <1>t DEF InTurn
    <3>3. CASE j \notin 1..Len(toCtl)
      BY <3>1, <3>3, <2>1, <2>3
    <3> QED
      BY <3>2, <3>3
  <2>6. \A i \in 1..Len(toCtl'), j \in 1..Len(toSw') : Before(toCtl'[i], toSw'[j])
    BY <2>1, <2>4, <1>4
  <2>7. InTurn'
    BY <2>5, <2>6, <1>3 DEF InTurn, Before, Rank
  <2>8. Channels'
    BY <2>2, <1>2 DEF Channels
  <2> QED
    BY <2>1, <2>7, <2>8, <1>1 DEF ChannelsInv
<1> QED
  BY <1>5, <1>6 DEF h

\* Only a request to set the table clears it or adds flows; only one for flows asks for them.
LEMMA FirstKinds ==
  ASSUME RequestsAssumption, RequestsInv, toSw # <<>>
  PROVE  LET h == Head(toSw)
         IN  /\ h.op = "add" =>
                  /\ h.xid \in Request /\ Sets(h.xid) /\ h.arg \in 1..Wanted(h.xid)
                  /\ h = Message("add", h.xid, h.arg) /\ Rank(h) = 2 * h.arg
             /\ h.op = "stats" =>
                  h.xid \in Request /\ ~Sets(h.xid) /\ h = Message("stats", h.xid, 0)
             /\ h.op = "barrier" /\ h.xid # NoRequest =>
                  /\ Sets(h.xid) /\ h.arg \in 0..Wanted(h.xid) /\ h = Barrier(h.xid, h.arg)
             /\ h.op = "clear" /\ h.xid # NoRequest =>
                  Sets(h.xid) /\ h = Message("clear", h.xid, 0)
             /\ h.xid = NoRequest => /\ refused # {} /\ h.op \in {"clear", "barrier"}
                                     /\ h.op = "barrier" => h.arg = 0
<1> DEFINE h == Head(toSw)
<1>t. begun \subseteq Request
  BY DEF RequestsInv, RequestsTypes
<1>1. CASE h.xid = NoRequest
  <2>1. refused # {} /\ h \in {Message("clear", NoRequest, 0), Barrier(NoRequest, 0)}
    BY <1>1, FirstToSwitch, <1>t DEF Asks, RequestsAssumption, RequestsTypes
  <2> QED
    BY <2>1, <1>1 DEF Message, Barrier
<1>2. CASE h.xid # NoRequest
  <2>1. h \in MessagesOf(h.xid) /\ h.xid \in Request
    BY <1>2, FirstToSwitch
  <2> QED
    BY <2>1, <1>2, MessagesAre
<1> QED
  BY <1>1, <1>2

LEMMA SwitchTurn ==
  ASSUME RequestsAssumption, RequestsInv, SwitchTakes
  PROVE  ChannelsInv' /\ RequestsTypes'
<1> DEFINE h == Head(toSw)
<1>s. /\ open /\ toSw # <<>> /\ toSw' = Tail(toSw) /\ SwitchHandles(h)
      /\ UNCHANGED <<later, begun, listeners, count, _response, outcome, open, set, late>>
  BY DEF SwitchTakes
<1>h. /\ h \in Commands /\ Asks(h, begun, refused)
      /\ h.xid # NoRequest => h.xid \in begun /\ h.xid \in Request /\ h \in MessagesOf(h.xid)
      /\ \A i \in 1..Len(toCtl) : Before(toCtl[i], h)
      /\ 1 \in 1..Len(toSw) /\ h = toSw[1]
  BY <1>s, FirstToSwitch
<1>t. /\ RequestsTypes /\ BegunOnce
      /\ \A i \in 1..Len(toCtl) : Tells(toCtl[i], begun, refused, shown)
  BY DEF RequestsInv, ChannelsInv, Channels
<1> HIDE DEF h
<1>k. /\ h.op = "add" => h.xid \in Request /\ Sets(h.xid) /\ h.arg \in 1..Wanted(h.xid)
      /\ h.op = "stats" => h.xid \in Request /\ ~Sets(h.xid) /\ h = Message("stats", h.xid, 0)
      /\ h.op = "barrier" /\ h.xid # NoRequest =>
           /\ Sets(h.xid) /\ h.arg \in 0..Wanted(h.xid) /\ h = Barrier(h.xid, h.arg)
      /\ h.xid = NoRequest => /\ refused # {} /\ h.op \in {"clear", "barrier"}
                              /\ h.op = "barrier" => h.arg = 0
  BY <1>s, FirstKinds DEF h
<1>r. ASSUME UNCHANGED <<refused, shown>>
      PROVE  \A i \in 1..Len(toCtl) : Tells(toCtl[i], begun', refused', shown')
  BY <1>r, <1>t, <1>s
<1>o. ASSUME UNCHANGED <<toCtl, refused, shown>>
      PROVE  ChannelsInv' /\ toSw' \in Seq(Commands) /\ toCtl' \in Seq(Answers)
  BY <1>o, <1>r, <1>s, SwitchKeepsTurn
<1>1. CASE h.op = "clear" /\ table' = {} /\ UNCHANGED <<toCtl, shown, took, refused>>
  <2>1. ChannelsInv' /\ toSw' \in Seq(Commands) /\ toCtl' \in Seq(Answers)
    BY <1>1, <1>o
  <2> QED
    BY <2>1, <1>1, <1>s, <1>t DEF RequestsTypes
<1>2. CASE /\ h.op = "add" /\ table' = table \cup {Flows[h.xid][h.arg]}
           /\ took' = [took EXCEPT ![h.xid] = @ + 1] /\ UNCHANGED <<toCtl, shown, refused>>
  <2>1. ChannelsInv' /\ toSw' \in Seq(Commands) /\ toCtl' \in Seq(Answers)
    BY <1>2, <1>o
  <2>2. Flows[h.xid][h.arg] \in Flow
    BY <1>2, <1>k, ElementOfSeq DEF RequestsAssumption, Wanted
  <2>3. took' \in [Request -> Nat]
    <3>0. took \in [Request -> Nat]
      BY <1>t DEF RequestsTypes
    <3>1. h.xid \in Request /\ took[h.xid] + 1 \in Nat
      BY <3>0, <1>2, <1>k
    <3>2. took' = [took EXCEPT ![h.xid] = took[h.xid] + 1]
      BY <1>2
    <3> QED
      BY <3>0, <3>1, <3>2
  <2>4. table' \subseteq Flow
    BY <2>2, <1>2, <1>t DEF RequestsTypes
  <2> QED
    BY <2>1, <2>3, <2>4, <1>2, <1>s, <1>t DEF RequestsTypes
<1>3. CASE /\ h.op = "add" /\ Replies("error", h, 0) /\ refused' = refused \cup {h.xid}
           /\ UNCHANGED <<table, shown, took>>
  <2> DEFINE e == Message("error", h.xid, 0)
  <2>1. e \in Answers /\ e.op = "error" /\ e.xid = h.xid /\ toCtl' = Append(toCtl, e)
    BY <1>3, <1>h DEF Replies, Message, Answers, Commands
  <2>2. Tells(e, begun', refused', shown')
    BY <2>1, <1>3 DEF Tells
  <2>3. \A i \in 1..Len(toCtl) : Tells(toCtl[i], begun', refused', shown')
    <3> SUFFICES ASSUME NEW i \in 1..Len(toCtl) PROVE Tells(toCtl[i], begun', refused', shown')
      OBVIOUS
    <3>1. Tells(toCtl[i], begun, refused, shown)
      BY <1>t
    <3> QED
      BY <3>1, <1>3, <1>s DEF Tells
  <2> HIDE DEF e
  <2>4. ChannelsInv' /\ toSw' \in Seq(Commands) /\ toCtl' \in Seq(Answers)
    BY <2>1, <2>2, <2>3, <1>3, <1>s, SwitchKeepsTurn
  <2>5. refused' \subseteq begun'
    BY <1>3, <1>k, <1>h, <1>s, <1>t DEF RequestsTypes, RequestsAssumption
  <2> QED
    BY <2>4, <2>5, <1>3, <1>s, <1>t DEF RequestsTypes
<1>4. CASE /\ h.op = "barrier" /\ Replies("barrier", h, h.arg)
           /\ UNCHANGED <<table, shown, took, refused>>
  <2> DEFINE e == Message("barrier", h.xid, h.arg)
  <2>1. e \in Answers /\ e.op = "barrier" /\ e.xid = h.xid /\ toCtl' = Append(toCtl, e)
        /\ e = Barrier(h.xid, h.arg)
    BY <1>4, <1>h DEF Replies, Message, Answers, Commands, Barrier
  <2>2. Rank(e) = Rank(h)
    BY <1>4 DEF Rank, Message
  <2>3. Tells(e, begun', refused', shown')
    <3>1. CASE h.xid = NoRequest
      BY <3>1, <2>1, <1>k, <1>4 DEF Tells
    <3>2. CASE h.xid # NoRequest
      BY <3>2, <2>1, <1>k, <1>h, <1>4, <1>s DEF Tells
    <3> QED
      BY <3>1, <3>2
  <2> HIDE DEF e
  <2>4. ChannelsInv' /\ toSw' \in Seq(Commands) /\ toCtl' \in Seq(Answers)
    BY <2>1, <2>2, <2>3, <1>r, <1>4, <1>s, SwitchKeepsTurn DEF h
  <2> QED
    BY <2>4, <1>4, <1>s, <1>t DEF RequestsTypes
<1>5. CASE /\ h.op = "stats" /\ Replies("stats", h, flow_stats)
           /\ shown' = [shown EXCEPT ![h.xid] = flow_stats] /\ UNCHANGED <<table, took, refused>>
  <2> DEFINE e == Message("stats", h.xid, flow_stats)
  <2>s. shown' \in [Request -> SUBSET Flow] /\ shown'[h.xid] = flow_stats
        /\ \A r \in Request : r # h.xid => shown'[r] = shown[r]
    BY <1>5, <1>k, <1>t DEF RequestsTypes, flow_stats
  <2>1. e \in Answers /\ e.op = "stats" /\ e.xid = h.xid /\ toCtl' = Append(toCtl, e)
    BY <1>5, <1>h, <1>t DEF Replies, Message, Answers, Commands, flow_stats, RequestsTypes
  <2>2. Rank(e) = Rank(h)
    BY <2>1, <1>5 DEF Rank
  <2>n. h.xid # NoRequest
    BY <1>5, <1>k DEF RequestsAssumption
  <2>3. Tells(e, begun', refused', shown')
    BY <2>1, <2>s, <2>n, <1>k, <1>h, <1>5, <1>s DEF Tells
  <2>4. \A i \in 1..Len(toCtl) : Tells(toCtl[i], begun', refused', shown')
    <3> SUFFICES ASSUME NEW i \in 1..Len(toCtl) PROVE Tells(toCtl[i], begun', refused', shown')
      OBVIOUS
    <3>1. Tells(toCtl[i], begun, refused, shown) /\ Before(toCtl[i], h)
      BY <1>t, <1>h
    <3>2. CASE toCtl[i].xid = h.xid
      <4>1. toCtl[i].op # "stats"
        <5>1. SUFFICES ASSUME toCtl[i].op = "stats" PROVE FALSE
          OBVIOUS
        <5>2. Rank(toCtl[i]) = 0 /\ Rank(h) = 0
          BY <5>1, <1>5 DEF Rank
        <5> QED
          BY <5>1, <5>2, <3>1, <3>2, <2>n, <1>5 DEF Before
      <4> QED
        BY <4>1, <3>1, <1>5, <1>s DEF Tells, Message
    <3>3. CASE toCtl[i].xid # h.xid
      BY <3>1, <3>3, <2>s, <1>5, <1>s, <1>t DEF Tells, RequestsTypes
    <3> QED
      BY <3>2, <3>3
  <2> HIDE DEF e
  <2>5. ChannelsInv' /\ toSw' \in Seq(Commands) /\ toCtl' \in Seq(Answers)
    BY <2>1, <2>2, <2>3, <2>4, <1>5, <1>s, SwitchKeepsTurn DEF h
  <2> QED
    BY <2>5, <2>s, <1>5, <1>s, <1>t DEF RequestsTypes
<1> QED
  BY <1>1, <1>2, <1>3, <1>4, <1>5, <1>s DEF SwitchHandles

LEMMA SwitchRest ==
  ASSUME RequestsAssumption, RequestsInv, SwitchTakes
  PROVE  RestOnTheWay' /\ BegunOnce'
<1> DEFINE h == Head(toSw)
<1>s. /\ open /\ toSw # <<>> /\ toSw' = Tail(toSw) /\ SwitchHandles(h)
      /\ UNCHANGED <<later, begun, listeners, _response, open, set>>
  BY DEF SwitchTakes
<1>h. /\ h.xid # NoRequest => h.xid \in begun /\ h.xid \in Request
      /\ \A i \in 1..Len(toSw') : Before(h, toSw'[i])
      /\ h.xid # NoRequest => ~In(toSw', h)
      /\ 1 \in 1..Len(toSw) /\ h = toSw[1]
  BY <1>s, FirstToSwitch
<1>k. h.op = "add" => /\ h.xid \in Request /\ Sets(h.xid) /\ h.arg \in 1..Wanted(h.xid)
                      /\ h = Message("add", h.xid, h.arg) /\ Rank(h) = 2 * h.arg
  BY <1>s, FirstKinds
<1>i. \A m : In(toSw, m) <=> m = h \/ In(toSw', m)
  BY <1>s, <1>h, FirstTaken DEF RequestsInv, RequestsTypes
<1>t. /\ begun \subseteq Request /\ took \in [Request -> Nat] /\ BegunOnce /\ RestOnTheWay
      /\ NoRequest \notin Request
  BY DEF RequestsInv, RequestsTypes, SwitchInv, RequestsAssumption
<1> HIDE DEF h
\* took and refused change for one request at most.
<1>c. \/ UNCHANGED <<took, refused>> /\ h.op # "add"
      \/ /\ h.op = "add" /\ refused' = refused
         /\ took' = [took EXCEPT ![h.xid] = took[h.xid] + 1]
      \/ h.op = "add" /\ refused' = refused \cup {h.xid} /\ took' = took
  BY <1>s DEF SwitchHandles
<1>1. BegunOnce'
  <2>1. \A r \in refused' : Sets(r)
    BY <1>c, <1>k, <1>t DEF BegunOnce
  <2>2. \A r \in Request \ begun' : took'[r] = 0
    BY <1>c, <1>k, <1>h, <1>t, <1>s DEF BegunOnce
  <2> QED
    BY <2>1, <2>2, <1>s, <1>t DEF BegunOnce
<1>2. RestOnTheWay'
  <2> SUFFICES ASSUME NEW q \in begun' \ refused', Sets(q)
               PROVE  /\ took'[q] <= Wanted(q)
                      /\ \A k \in 1..Wanted(q) : In(toSw', Message("add", q, k)) <=> took'[q] < k
    BY DEF RestOnTheWay
  <2>1. /\ q \in begun \ refused /\ q \in Request /\ took[q] \in Nat /\ Wanted(q) \in Nat
        /\ took[q] <= Wanted(q)
        /\ \A k \in 1..Wanted(q) : In(toSw, Message("add", q, k)) <=> took[q] < k
    BY <1>c, <1>s, <1>t, WantedNat DEF RestOnTheWay
  <2>2. CASE h.op = "add" /\ h.xid = q
    <3>1. took' = [took EXCEPT ![q] = took[q] + 1]
      BY <2>2, <1>c
    <3>2. took'[q] = took[q] + 1
      BY <3>1, <2>1, <1>t
    <3>3. took[q] < h.arg /\ h.arg \in 1..Wanted(q)
      BY <2>1, <2>2, <1>k, <1>i
    <3>4. h.arg = took[q] + 1
      <4> SUFFICES ASSUME took[q] + 1 < h.arg PROVE FALSE
        BY <3>3, <2>1
      <4> DEFINE m == Message("add", q, took[q] + 1)
      <4>1. took[q] + 1 \in 1..Wanted(q)
        BY <3>3, <2>1
      <4>2. In(toSw, m)
        BY <4>1, <2>1
      <4>3. m.arg = took[q] + 1 /\ m.xid = q /\ m.op = "add"
        BY DEF Message
      <4> HIDE DEF m
      <4>4. In(toSw', m)
        BY <4>2, <4>3, <3>3, <2>1, <1>i
      <4>5. PICK i \in 1..Len(toSw') : toSw'[i] = m
        BY <4>4 DEF In
      <4>6. Rank(m) = 2 * (took[q] + 1)
        BY <4>3 DEF Rank
      <4>7. Rank(h) < Rank(m)
        BY <4>5, <4>3, <1>h, <2>2, <2>1, <1>t DEF Before
      <4> QED
        BY <4>6, <4>7, <2>2, <1>k, <3>3, <2>1
    <3>5. ASSUME NEW k \in 1..Wanted(q)
          PROVE  In(toSw', Message("add", q, k)) <=> took'[q] < k
      <4>1. CASE k = h.arg
        <5>1. Message("add", q, k) = h
          BY <4>1, <2>2, <1>k
        <5>2. ~In(toSw', h)
          BY <1>h, <2>2, <2>1, <1>t
        <5> QED
          BY <5>1, <5>2, <4>1, <3>2, <3>4, <2>1
      <4>2. CASE k # h.arg
        <5>1. Message("add", q, k) # h
          BY <4>2 DEF Message
        <5> QED
          BY <5>1, <4>2, <3>2, <3>4, <2>1, <1>i
      <4> QED
        BY <4>1, <4>2
    <3> QED
      BY <3>2, <3>3, <3>4, <3>5, <2>1
  <2>3. CASE ~(h.op = "add" /\ h.xid = q)
    <3>1. took'[q] = took[q]
      BY <2>3, <2>1, <1>c, <1>t
    <3>2. \A k \in 1..Wanted(q) : Message("add", q, k) # h
      BY <2>3 DEF Message
    <3> QED
      BY <3>1, <3>2, <2>1, <1>i
  <2> QED
    BY <2>2, <2>3
<1> QED
  BY <1>1, <1>2

LEMMA SwitchSettled ==
  ASSUME RequestsAssumption, RequestsInv, SwitchTakes
  PROVE  Settled' /\ OwnAnswer' /\ NobodyLeft'
<1> DEFINE h == Head(toSw)
<1>s. /\ open /\ toSw # <<>> /\ toSw' = Tail(toSw) /\ SwitchHandles(h)
      /\ UNCHANGED <<outcome, listeners, _response, late>>
  BY DEF SwitchTakes
<1>h. /\ 1 \in 1..Len(toSw) /\ h = toSw[1]
      /\ \A i \in 1..Len(toSw') : i + 1 \in 1..Len(toSw) /\ toSw'[i] = toSw[i + 1]
  BY <1>s, FirstToSwitch, FirstTaken DEF RequestsInv, RequestsTypes
<1>t. /\ shown \in [Request -> SUBSET Flow] /\ took \in [Request -> Nat]
      /\ Settled /\ OwnAnswer /\ NobodyLeft
  BY DEF RequestsInv, RequestsTypes, AnswersInv
<1> HIDE DEF h
<1>c. \A r \in Request : r # h.xid => took'[r] = took[r] /\ shown'[r] = shown[r]
  BY <1>s, <1>t DEF SwitchHandles
<1>n. \A r \in Request : _response[r].is = "result" => r # h.xid
  BY <1>t, <1>h DEF Settled
<1>1. Settled'
  <2> SUFFICES ASSUME NEW r \in Request, _response'[r].is = "result"
               PROVE  /\ \A i \in 1..Len(toSw') : toSw'[i].xid # r
                      /\ Sets(r) => took'[r] = Wanted(r)
    BY DEF Settled
  <2>1. _response[r].is = "result"
    BY <1>s
  <2> QED
    BY <2>1, <1>c, <1>n, <1>h, <1>t DEF Settled
<1>2. OwnAnswer'
  <2> SUFFICES ASSUME NEW r \in Request, RequestKind[r] = "stats"
               PROVE  _response'[r] \in {None, Error, Result(shown'[r])}
    BY DEF OwnAnswer
  <2>1. _response[r] \in {None, Error, Result(shown[r])}
    BY <1>t DEF OwnAnswer
  <2>2. CASE _response[r].is = "result"
    BY <2>1, <2>2, <1>n, <1>c, <1>s
  <2>3. CASE _response[r].is # "result"
    BY <2>1, <2>3, <1>s, ResponsesApart
  <2> QED
    BY <2>2, <2>3
<1>3. NobodyLeft'
  BY <1>s, <1>t DEF NobodyLeft
<1> QED
  BY <1>1, <1>2, <1>3

LEMMA SwitchAnswers ==
  ASSUME RequestsAssumption, RequestsInv, SwitchTakes
  PROVE  BarriersOnTheWay' /\ ErrorComesFirst'
<1> DEFINE h == Head(toSw)
<1>s. /\ open /\ toSw # <<>> /\ toSw' = Tail(toSw) /\ SwitchHandles(h)
      /\ UNCHANGED <<begun, count, listeners, open>>
  BY DEF SwitchTakes
<1>h. /\ h.xid # NoRequest => h.xid \in Request
      /\ \A i \in 1..Len(toCtl) : Before(toCtl[i], h)
      /\ 1 \in 1..Len(toSw) /\ h = toSw[1] /\ h \in Commands
  BY <1>s, FirstToSwitch
<1>k. /\ h.op = "add" => /\ h.xid \in Request /\ h.arg \in 1..Wanted(h.xid)
                         /\ Rank(h) = 2 * h.arg
      /\ h.op = "barrier" /\ h.xid # NoRequest => h = Barrier(h.xid, h.arg)
  BY <1>s, FirstKinds
<1>i. \A m : In(toSw, m) <=> m = h \/ In(toSw', m)
  BY <1>s, <1>h, FirstTaken DEF RequestsInv, RequestsTypes
<1>t. /\ toCtl \in Seq(Answers) /\ begun \subseteq Request /\ listeners \subseteq begun
      /\ BarriersOnTheWay /\ ErrorComesFirst /\ NoRequest \notin Request
  BY DEF RequestsInv, RequestsTypes, AnswersInv, RequestsAssumption
<1> HIDE DEF h
<1> DEFINE e == Message("error", h.xid, 0)
<1>e. /\ e \in Answers /\ e.op = "error"
      /\ \A x, k : e # Barrier(x, k)
      /\ \A v \in Nat \cup SUBSET Flow : Message("stats", h.xid, v) \in Answers
      /\ \A v \in Nat \cup SUBSET Flow : \A x, k : Message("stats", h.xid, v) # Barrier(x, k)
      /\ Message("barrier", h.xid, h.arg) \in Answers
  BY <1>h DEF Message, Barrier, Answers, Commands
\* What the channel to the controller gets.
<1>c. \/ UNCHANGED <<toCtl, refused>> /\ h.op # "barrier"
      \/ h.op = "add" /\ toCtl' = Append(toCtl, e) /\ refused' = refused \cup {h.xid}
      \/ /\ h.op = "barrier" /\ toCtl' = Append(toCtl, Message("barrier", h.xid, h.arg))
         /\ refused' = refused
      \/ /\ h.op = "stats" /\ toCtl' = Append(toCtl, Message("stats", h.xid, table))
         /\ refused' = refused
  BY <1>s DEF SwitchHandles, Replies, flow_stats
<1>f. table \in Nat \cup SUBSET Flow
  BY DEF RequestsInv, RequestsTypes
<1> HIDE DEF e
<1>a. /\ Len(toCtl) \in Nat
      /\ UNCHANGED toCtl \/ Len(toCtl') = Len(toCtl) + 1
      /\ \A i \in 1..Len(toCtl) : i \in 1..Len(toCtl') /\ toCtl'[i] = toCtl[i]
  BY <1>c, <1>t, <1>e, <1>f, PutLastOf, LenProperties
<1>1. BarriersOnTheWay'
  <2> SUFFICES ASSUME NEW q \in listeners', Sets(q)
               PROVE  /\ count'[q] <= Wanted(q) + 1
                      /\ \A k \in 0..Wanted(q) :
                           In(toSw', Barrier(q, k)) \/ In(toCtl', Barrier(q, k))
                             <=> k + count'[q] > Wanted(q)
    BY DEF BarriersOnTheWay
  <2>1. q \in Request /\ q # NoRequest
    BY <1>t, <1>s
  <2>2. ASSUME NEW k \in 0..Wanted(q)
        PROVE  In(toSw', Barrier(q, k)) \/ In(toCtl', Barrier(q, k))
                 <=> In(toSw, Barrier(q, k)) \/ In(toCtl, Barrier(q, k))
    <3> DEFINE b == Barrier(q, k)
    <3>0. b.op = "barrier" /\ b.xid = q
      BY DEF Barrier, Message
    <3>1. CASE UNCHANGED toCtl /\ h.op # "barrier"
      BY <3>0, <3>1, <1>i DEF In
    <3>2. CASE h.op = "add" /\ toCtl' = Append(toCtl, e)
      <4>1. In(toCtl', b) <=> In(toCtl, b)
        BY <3>2, <1>e, <1>t, PutLastOf
      <4> QED
        BY <4>1, <3>0, <3>2, <1>i
    <3>3. CASE h.op = "stats" /\ toCtl' = Append(toCtl, Message("stats", h.xid, table))
      <4> DEFINE a == Message("stats", h.xid, table)
      <4>0. a \in Answers /\ b # a
        BY <1>e, <1>f
      <4> HIDE DEF a, b
      <4>a. toCtl' = Append(toCtl, a)
        BY <3>3 DEF a
      <4>1. In(toCtl', b) <=> In(toCtl, b)
        BY <4>0, <4>a, <1>t, PutLastOf
      <4> USE DEF b
      <4> QED
        BY <4>1, <3>0, <3>3, <1>i
    <3>4. CASE h.op = "barrier" /\ toCtl' = Append(toCtl, Message("barrier", h.xid, h.arg))
      <4>1. In(toCtl', b) <=> In(toCtl, b) \/ b = Message("barrier", h.xid, h.arg)
        BY <3>4, <1>e, <1>t, PutLastOf
      <4>2. b = Message("barrier", h.xid, h.arg) <=> b = h
        <5>1. CASE h.xid = NoRequest
          BY <5>1, <3>0, <2>1 DEF Message
        <5>2. CASE h.xid # NoRequest
          BY <5>2, <3>4, <1>k DEF Barrier
        <5> QED
          BY <5>1, <5>2
      <4> QED
        BY <4>1, <4>2, <1>i
    <3> QED
      BY <3>1, <3>2, <3>3, <3>4, <1>c
  <2> QED
    BY <2>2, <1>s, <1>t DEF BarriersOnTheWay
<1>2. ErrorComesFirst'
  <2> SUFFICES ASSUME NEW q \in listeners' \cap refused'
               PROVE  \E j \in 1..Len(toCtl') :
                        /\ toCtl'[j] = Message("error", q, 0)
                        /\ \A i \in 1..j : toCtl'[i] # Barrier(q, Wanted(q))
    BY DEF ErrorComesFirst
  <2>1. CASE q \in refused
    <3>1. PICK j \in 1..Len(toCtl) : /\ toCtl[j] = Message("error", q, 0)
                                     /\ \A i \in 1..j : toCtl[i] # Barrier(q, Wanted(q))
      BY <2>1, <1>s, <1>t DEF ErrorComesFirst
    <3>2. \A i \in 1..j : i \in 1..Len(toCtl)
      BY <1>a
    <3> QED
      BY <3>1, <3>2, <1>a
  <2>2. CASE q \notin refused
    <3>1. h.op = "add" /\ toCtl' = Append(toCtl, e) /\ q = h.xid
      BY <2>2, <1>c
    <3>2. /\ Len(toCtl) + 1 \in 1..Len(toCtl') /\ toCtl'[Len(toCtl) + 1] = e
          /\ \A i \in 1..(Len(toCtl) + 1) : i \in 1..Len(toCtl) \/ i = Len(toCtl) + 1
      BY <3>1, <1>a, <1>e, <1>t, PutLastOf
    <3>3. ASSUME NEW i \in 1..Len(toCtl), toCtl[i] = Barrier(q, Wanted(q)) PROVE FALSE
      <4>1. toCtl[i].op = "barrier" /\ toCtl[i].xid = q /\ toCtl[i].arg = Wanted(q)
        BY <3>3 DEF Barrier, Message
      <4>2. q \in Request /\ q # NoRequest /\ Wanted(q) \in Nat
        BY <3>1, <1>k, <1>t, WantedNat
      <4>3. Rank(toCtl[i]) < Rank(h)
        BY <4>1, <4>2, <3>1, <1>h DEF Before
      <4>4. Rank(toCtl[i]) = 2 * Wanted(q) + 1
        BY <4>1 DEF Rank
      <4> QED
        BY <4>2, <4>3, <4>4, <3>1, <1>k
    <3>4. \A i \in 1..(Len(toCtl) + 1) : toCtl'[i] # Barrier(q, Wanted(q))
      BY <3>2, <3>3, <1>a, <1>e
    <3> QED
      BY <3>1, <3>2, <3>4 DEF e
  <2> QED
    BY <2>1, <2>2
<1> QED
  BY <1>1, <1>2

LEMMA SwitchTable ==
  ASSUME RequestsAssumption, RequestsInv, SwitchTakes
  PROVE  LastOneSets'
<1> DEFINE h == Head(toSw)
<1>s. /\ open /\ toSw # <<>> /\ toSw' = Tail(toSw) /\ SwitchHandles(h)
      /\ UNCHANGED <<begun, set, open>>
  BY DEF SwitchTakes
<1>h. /\ h.xid # NoRequest => h.xid \in begun /\ h.xid \in Request
      /\ \A i \in 1..Len(toSw') : Before(h, toSw'[i])
      /\ 1 \in 1..Len(toSw) /\ h = toSw[1] /\ h \in Commands
  BY <1>s, FirstToSwitch
<1>k. /\ h.op = "add" => /\ h.xid \in Request /\ Sets(h.xid) /\ h.arg \in 1..Wanted(h.xid)
                         /\ h = Message("add", h.xid, h.arg) /\ Rank(h) = 2 * h.arg
      /\ h.op = "clear" /\ h.xid # NoRequest => h = Message("clear", h.xid, 0)
      /\ h.xid = NoRequest => refused # {}
  BY <1>s, FirstKinds
<1>b. /\ Len(toSw') = Len(toSw) - 1 /\ Len(toSw) \in Nat
      /\ \A i \in 1..Len(toSw') : i + 1 \in 1..Len(toSw) /\ toSw'[i] = toSw[i + 1]
      /\ \A i \in 1..Len(toSw) : i # 1 => i - 1 \in 1..Len(toSw') /\ toSw'[i - 1] = toSw[i]
      /\ \A m : In(toSw, m) <=> m = h \/ In(toSw', m)
  BY <1>s, <1>h, FirstTaken, LenProperties DEF RequestsInv, RequestsTypes
<1>t. /\ begun \subseteq Request /\ took \in [Request -> Nat] /\ LastOneSets /\ RestOnTheWay
      /\ RestOnTheWay' /\ BegunOnce /\ NoRequest \notin Request /\ set \in begun \cup {NoRequest}
  BY SwitchRest DEF RequestsInv, RequestsTypes, SwitchInv, RequestsAssumption
<1> HIDE DEF h
<1> DEFINE Flowing(n) == {Flows[set][k] : k \in 1..n}
<1> SUFFICES ASSUME refused' = {}, set # NoRequest
             PROVE  \/ /\ took'[set] = 0
                       /\ \E i \in 1..Len(toSw') :
                            /\ toSw'[i] = Message("clear", set, 0)
                            /\ \A j \in i..Len(toSw') : toSw'[j].xid = set \/ toSw'[j].op = "stats"
                    \/ /\ table' = Flowing(took'[set])
                       /\ \A j \in 1..Len(toSw') :
                            /\ toSw'[j].xid = set \/ toSw'[j].op = "stats"
                            /\ toSw'[j].op # "clear"
  BY <1>s DEF LastOneSets, Leaves
<1>c. /\ refused = {} /\ h.xid # NoRequest
      /\ \/ h.op = "clear" /\ table' = {} /\ took' = took
         \/ /\ h.op = "add" /\ table' = table \cup {Flows[h.xid][h.arg]}
            /\ took' = [took EXCEPT ![h.xid] = took[h.xid] + 1]
         \/ h.op \in {"barrier", "stats"} /\ table' = table /\ took' = took
  BY <1>s, <1>k DEF SwitchHandles
<1>n. set \in Request /\ set \in begun /\ Sets(set) /\ took[set] \in Nat /\ Wanted(set) \in Nat
  BY <1>t, WantedNat DEF BegunOnce
<1>1. ASSUME took[set] = 0, NEW i \in 1..Len(toSw), toSw[i] = Message("clear", set, 0),
             \A j \in i..Len(toSw) : toSw[j].xid = set \/ toSw[j].op = "stats", i # 1
      PROVE  /\ took'[set] = 0
             /\ \E p \in 1..Len(toSw') :
                  /\ toSw'[p] = Message("clear", set, 0)
                  /\ \A j \in p..Len(toSw') : toSw'[j].xid = set \/ toSw'[j].op = "stats"
  <2>1. i - 1 \in 1..Len(toSw') /\ toSw'[i - 1] = toSw[i]
    BY <1>1, <1>b
  <2>2. \A j \in (i - 1)..Len(toSw') : toSw'[j].xid = set \/ toSw'[j].op = "stats"
    <3> SUFFICES ASSUME NEW j \in (i - 1)..Len(toSw')
                 PROVE  toSw'[j].xid = set \/ toSw'[j].op = "stats"
      OBVIOUS
    <3>1. j \in 1..Len(toSw') /\ j + 1 \in i..Len(toSw)
      BY <2>1, <1>b
    <3> QED
      BY <3>1, <1>1, <1>b
  <2>3. ~(h.op = "add" /\ h.xid = set)
    <3> SUFFICES ASSUME h.op = "add", h.xid = set PROVE FALSE
      OBVIOUS
    <3>1. toSw'[i - 1].op = "clear" /\ toSw'[i - 1].xid = set
      BY <2>1, <1>1 DEF Message
    <3>2. Rank(h) < Rank(toSw'[i - 1])
      BY <3>1, <2>1, <1>h DEF Before
    <3>3. Rank(toSw'[i - 1]) = 0
      BY <3>1 DEF Rank
    <3> QED
      BY <3>2, <3>3, <1>k, <1>n
  <2>4. took'[set] = 0
    BY <2>3, <1>c, <1>1, <1>t, <1>n
  <2> QED
    BY <2>1, <2>2, <2>4, <1>1
<1>2. ASSUME took[set] = 0, toSw[1] = Message("clear", set, 0),
             \A j \in 1..Len(toSw) : toSw[j].xid = set \/ toSw[j].op = "stats"
      PROVE  /\ table' = Flowing(took'[set])
             /\ \A j \in 1..Len(toSw') : /\ toSw'[j].xid = set \/ toSw'[j].op = "stats"
                                         /\ toSw'[j].op # "clear"
  <2>1. h.op = "clear" /\ h.xid = set /\ Rank(h) = 0
    BY <1>2, <1>h DEF Message, Rank
  <2>2. table' = {} /\ took'[set] = 0
    BY <2>1, <1>c, <1>2
  <2>3. \A j \in 1..Len(toSw') : toSw'[j].xid = set \/ toSw'[j].op = "stats"
    BY <1>2, <1>b
  <2>4. ASSUME NEW j \in 1..Len(toSw'), toSw'[j].op = "clear" PROVE FALSE
    <3>1. Rank(h) < Rank(toSw'[j])
      BY <2>1, <2>3, <2>4, <1>h, <1>n DEF Before
    <3>2. Rank(toSw'[j]) = 0
      BY <2>4 DEF Rank
    <3> QED
      BY <3>1, <3>2, <2>1
  <2> QED
    BY <2>2, <2>3, <2>4
<1>3. ASSUME table = Flowing(took[set]),
             \A j \in 1..Len(toSw) : /\ toSw[j].xid = set \/ toSw[j].op = "stats"
                                     /\ toSw[j].op # "clear"
      PROVE  /\ table' = Flowing(took'[set])
             /\ \A j \in 1..Len(toSw') : /\ toSw'[j].xid = set \/ toSw'[j].op = "stats"
                                         /\ toSw'[j].op # "clear"
  <2>1. \A j \in 1..Len(toSw') : /\ toSw'[j].xid = set \/ toSw'[j].op = "stats"
                                 /\ toSw'[j].op # "clear"
    BY <1>3, <1>b
  <2>2. CASE h.op = "add"
    <3>1. h.xid = set /\ h.arg \in 1..Wanted(set)
      BY <2>2, <1>3, <1>h, <1>k
    <3>2. took'[set] = took[set] + 1
      BY <3>1, <2>2, <1>c, <1>t, <1>n
    <3>3. In(toSw, Message("add", set, h.arg)) /\ ~In(toSw', Message("add", set, h.arg))
      <4>1. h = Message("add", set, h.arg)
        BY <3>1, <2>2, <1>k
      <4>2. ~In(toSw', h)
        BY <1>s, <1>c, FirstToSwitch DEF h
      <4> QED
        BY <4>1, <4>2, <1>b
    <3>4. took[set] < h.arg /\ ~(took[set] + 1 < h.arg)
      BY <3>1, <3>2, <3>3, <1>t, <1>n, <1>c, <1>s DEF RestOnTheWay
    <3>5. h.arg = took[set] + 1
      BY <3>1, <3>4, <1>n
    <3>6. table' = Flowing(took[set]) \cup {Flows[set][took[set] + 1]}
      BY <3>1, <3>5, <2>2, <1>3, <1>c
    <3>7. 1..(took[set] + 1) = 1..took[set] \cup {took[set] + 1}
      BY <1>n
    <3>8. Flowing(took[set] + 1) = Flowing(took[set]) \cup {Flows[set][took[set] + 1]}
      BY <3>7
    <3> QED
      BY <2>1, <3>2, <3>6, <3>8
  <2>3. CASE h.op # "add"
    <3>1. h.op # "clear"
      BY <1>3, <1>h
    <3>2. table' = table /\ took' = took
      BY <3>1, <2>3, <1>c
    <3> QED
      BY <3>2, <2>1, <1>3
  <2> QED
    BY <2>2, <2>3
<1> HIDE DEF Flowing
<1>4. \/ /\ took[set] = 0
         /\ \E i \in 1..Len(toSw) :
              /\ toSw[i] = Message("clear", set, 0)
              /\ \A j \in i..Len(toSw) : toSw[j].xid = set \/ toSw[j].op = "stats"
      \/ /\ table = Flowing(took[set])
         /\ \A j \in 1..Len(toSw) : /\ toSw[j].xid = set \/ toSw[j].op = "stats"
                                    /\ toSw[j].op # "clear"
  BY <1>t, <1>c, <1>s DEF LastOneSets, Leaves, Flowing
<1> QED
  BY <1>1, <1>2, <1>3, <1>4

\* The table is as the last request wanted it when that one is told so.
LEMMA TableFollows ==
  ASSUME RequestsTypes', BegunOnce', Settled', LastOneSets', open', RequestsAssumption
  PROVE  TableSet'
<1> SUFFICES ASSUME set' # NoRequest, _response'[set'].is = "result", refused' = {}
             PROVE  table' = {Flows[set'][k] : k \in DOMAIN Flows[set']}
  BY DEF TableSet
<1>1. set' \in Request /\ Sets(set')
  BY DEF RequestsTypes, BegunOnce
<1>2. /\ took'[set'] = Wanted(set') /\ \A i \in 1..Len(toSw') : toSw'[i].xid # set'
  BY <1>1 DEF Settled
<1>3. table' = {Flows[set'][k] : k \in 1..took'[set']}
  BY <1>2 DEF LastOneSets, Message
<1>4. DOMAIN Flows[set'] = 1..Wanted(set')
  BY <1>1, LenProperties DEF RequestsAssumption, Wanted
<1> QED
  BY <1>2, <1>3, <1>4

LEMMA SwitchStep == ASSUME RequestsAssumption, RequestsInv, SwitchTakes PROVE RequestsInv'
<1>1. open' /\ ChannelsInv' /\ RequestsTypes'
  BY SwitchTurn DEF SwitchTakes
<1>2. RestOnTheWay' /\ BegunOnce' /\ LastOneSets'
  BY SwitchRest, SwitchTable
<1>3. Settled' /\ OwnAnswer' /\ NobodyLeft' /\ BarriersOnTheWay' /\ ErrorComesFirst'
  BY SwitchSettled, SwitchAnswers
<1>4. TableSet'
  BY <1>1, <1>2, <1>3, TableFollows
<1> QED
  BY <1>1, <1>2, <1>3, <1>4 DEF RequestsInv, SwitchInv, AnswersInv

-----------------------------------------------------------------------------
(* A request is begun.                                                     *)

LEMMA RequestedAre ==
  ASSUME RequestsAssumption, NEW r \in Request
  PROVE  LET q == Requested(r)
         IN  /\ q \in Seq(Commands) /\ 1 \in 1..Len(q)
             /\ \A i \in 1..Len(q) : q[i] \in MessagesOf(r) /\ Rank(q[i]) = i - 1
             /\ \A m \in MessagesOf(r) : In(q, m)
             /\ Sets(r) => q[1] = Message("clear", r, 0)
<1>1. CASE Sets(r)
  BY <1>1, SetMessagesAre DEF Requested, Sets
<1>2. CASE ~Sets(r)
  <2> DEFINE m == Message("stats", r, 0)
  <2>1. m \in MessagesOf(r) /\ MessagesOf(r) = {m} /\ Requested(r) = <<m>>
    BY <1>2 DEF MessagesOf, Requested, Sets
  <2>2. m \in Commands /\ Rank(m) = 0
    BY <2>1, <1>2, MessagesAre
  <2> HIDE DEF m
  <2>3. <<m>> \in Seq(Commands) /\ Len(<<m>>) = 1 /\ <<m>>[1] = m
    BY <2>2
  <2> QED
    BY <2>1, <2>2, <2>3, <1>2 DEF In
<1> QED
  BY <1>1, <1>2

\* The first request in line has not been begun, nor has anything happened to it.
LEMMA NextInLine ==
  ASSUME RequestsAssumption, RequestsInv, Begin
  PROVE  LET r == Head(later)
         IN  /\ r \in Request /\ r \notin begun /\ r \notin refused /\ took[r] = 0
             /\ _response[r] = None /\ outcome[r] # "answered" /\ r # NoRequest
             /\ later' \in Seq(Request)
             /\ \A i, j \in 1..Len(later') : later'[i] = later'[j] => i = j
             /\ \A i \in 1..Len(later') : later'[i] \notin begun'
<1> DEFINE r == Head(later)
<1>1. /\ later # <<>> /\ later \in Seq(Request) /\ refused \subseteq begun
      /\ later' = Tail(later) /\ begun' = begun \cup {r} /\ BegunOnce /\ NobodyLeft
  BY DEF Begin, RequestsInv, RequestsTypes, AnswersInv
<1>2. /\ r = later[1] /\ r \in Request /\ 1 \in 1..Len(later) /\ later' \in Seq(Request)
      /\ \A i \in 1..Len(later') : i + 1 \in 1..Len(later) /\ later'[i] = later[i + 1]
  BY <1>1, FirstTaken
<1>3. r \notin begun /\ r \notin refused /\ took[r] = 0 /\ _response[r] = None
  BY <1>1, <1>2 DEF BegunOnce
<1>4. \A i, j \in 1..Len(later') : later'[i] = later'[j] => i = j
  <2> SUFFICES ASSUME NEW i \in 1..Len(later'), NEW j \in 1..Len(later'), later'[i] = later'[j]
               PROVE  i = j
    OBVIOUS
  <2>1. i + 1 = j + 1
    BY <1>1, <1>2 DEF BegunOnce
  <2> QED
    BY <2>1
<1>5. \A i \in 1..Len(later') : later'[i] \notin begun'
  <2> SUFFICES ASSUME NEW i \in 1..Len(later'), later'[i] = r PROVE FALSE
    BY <1>1, <1>2 DEF BegunOnce
  <2>1. i + 1 = 1
    BY <1>1, <1>2 DEF BegunOnce
  <2> QED
    BY <2>1
<1>6. outcome[r] # "answered" /\ r # NoRequest
  BY <1>1, <1>2, <1>3 DEF NobodyLeft, RequestsAssumption
<1> QED
  BY <1>2, <1>3, <1>4, <1>5, <1>6

\* The channel to the switch gets the messages of the request.
LEMMA BeginSends ==
  ASSUME RequestsAssumption, RequestsInv, Begin, open
  PROVE  LET r == Head(later)  q == Requested(r)
         IN  /\ toSw' \in Seq(Commands) /\ Len(toSw') = Len(toSw) + Len(q)
             /\ \A i \in 1..Len(toSw) : i \in 1..Len(toSw') /\ toSw'[i] = toSw[i]
             /\ \A i \in 1..Len(q) : i + Len(toSw) \in 1..Len(toSw') /\ toSw'[i + Len(toSw)] = q[i]
             /\ \A i \in 1..Len(toSw') : i \notin 1..Len(toSw) =>
                  /\ i - Len(toSw) \in 1..Len(q) /\ toSw'[i] = q[i - Len(toSw)]
                  /\ toSw'[i] \in MessagesOf(r) /\ toSw'[i].xid = r
                  /\ Rank(toSw'[i]) = i - Len(toSw) - 1
             /\ \A m : In(toSw', m) <=> In(toSw, m) \/ m \in MessagesOf(r)
<1> DEFINE r == Head(later)  q == Requested(r)
<1>1. r \in Request /\ toSw \in Seq(Commands) /\ toSw' = toSw \o q
  BY NextInLine DEF Begin, Sent, RequestsInv, RequestsTypes
<1> HIDE DEF r
<1>2. /\ q \in Seq(Commands) /\ \A m \in MessagesOf(r) : In(q, m)
      /\ \A i \in 1..Len(q) : q[i] \in MessagesOf(r) /\ Rank(q[i]) = i - 1
  BY <1>1, RequestedAre
<1> HIDE DEF q
<1>3. /\ toSw' \in Seq(Commands) /\ Len(toSw') = Len(toSw) + Len(q)
      /\ \A i \in 1..Len(toSw) : i \in 1..Len(toSw') /\ toSw'[i] = toSw[i]
      /\ \A i \in 1..Len(q) : i + Len(toSw) \in 1..Len(toSw') /\ toSw'[i + Len(toSw)] = q[i]
      /\ \A i \in 1..Len(toSw') : i \notin 1..Len(toSw) =>
           i - Len(toSw) \in 1..Len(q) /\ toSw'[i] = q[i - Len(toSw)]
      /\ \A m : In(toSw', m) <=> In(toSw, m) \/ In(q, m)
  BY <1>1, <1>2, PutBehind
<1>4. \A m : In(q, m) <=> m \in MessagesOf(r)
  BY <1>2 DEF In
<1>5. \A m \in MessagesOf(r) : m.xid = r
  BY <1>1, MessagesAre
<1> QED
  BY <1>2, <1>3, <1>4, <1>5 DEF q, r

LEMMA BeginTypes ==
  ASSUME RequestsAssumption, RequestsInv, Begin
  PROVE  RequestsTypes' /\ BegunOnce' /\ NobodyLeft' /\ OwnAnswer'
<1> DEFINE r == Head(later)
<1>r. /\ r \in Request /\ r \notin begun /\ r \notin refused /\ took[r] = 0
      /\ _response[r] = None /\ outcome[r] # "answered" /\ r # NoRequest
      /\ later' \in Seq(Request)
      /\ \A i, j \in 1..Len(later') : later'[i] = later'[j] => i = j
      /\ \A i \in 1..Len(later') : later'[i] \notin begun'
  BY NextInLine
<1>s. /\ begun' = begun \cup {r} /\ listeners' = listeners \cup {r}
      /\ IF Sets(r) THEN count' = [count EXCEPT ![r] = Barriers(r)] /\ set' = r
                    ELSE count' = count /\ set' = set
      /\ late' = IF outcome[r] = "timed out" THEN late \cup {r} ELSE late
      /\ UNCHANGED <<_response, outcome, toCtl, table, open, shown, took, refused>>
  BY DEF Begin, Sets
<1>w. toSw' = toSw \/ open
  BY DEF Begin, Sent
<1>t. RequestsTypes /\ BegunOnce /\ NobodyLeft /\ OwnAnswer
  BY DEF RequestsInv, AnswersInv
<1> HIDE DEF r
<1>1. RequestsTypes'
  <2>1. toSw' \in Seq(Commands)
    BY <1>w, <1>t, BeginSends DEF RequestsTypes
  <2>2. Barriers(r) \in Int
    BY <1>r, WantedNat DEF Barriers, Wanted
  <2>3. count' \in [Request -> Int]
    BY <2>2, <1>s, <1>t DEF RequestsTypes
  <2>4. /\ begun' \subseteq Request /\ listeners' \subseteq begun' /\ refused' \subseteq begun'
        /\ set' \in begun' \cup {NoRequest} /\ late' \subseteq Request
    BY <1>s, <1>r, <1>t DEF RequestsTypes
  <2> QED
    BY <2>1, <2>3, <2>4, <1>s, <1>r, <1>t DEF RequestsTypes
<1>2. BegunOnce'
  BY <1>s, <1>r, <1>t DEF BegunOnce
<1>3. NobodyLeft'
  BY <1>s, <1>r, <1>t DEF NobodyLeft
<1>4. OwnAnswer'
  BY <1>s, <1>t DEF OwnAnswer
<1> QED
  BY <1>1, <1>2, <1>3, <1>4

LEMMA BeginTurn ==
  ASSUME RequestsAssumption, RequestsInv, Begin, open
  PROVE  ChannelsInv'
<1> DEFINE r == Head(later)
<1>r. /\ r \in Request /\ r \notin begun /\ r \notin refused /\ r # NoRequest
  BY NextInLine
<1>s. begun' = begun \cup {r} /\ UNCHANGED <<toCtl, open, shown, refused>>
  BY DEF Begin
<1>w. /\ Len(toSw) \in Nat /\ Len(toSw') \in Nat
      /\ \A i \in 1..Len(toSw) : i \in 1..Len(toSw') /\ toSw'[i] = toSw[i]
      /\ \A i \in 1..Len(toSw') : i \notin 1..Len(toSw) =>
           toSw'[i] \in MessagesOf(r) /\ toSw'[i].xid = r /\ Rank(toSw'[i]) = i - Len(toSw) - 1
  BY BeginSends, LenProperties DEF RequestsInv, RequestsTypes
<1>t. /\ \A i \in 1..Len(toSw) : Asks(toSw[i], begun, refused)
      /\ \A i \in 1..Len(toCtl) : Tells(toCtl[i], begun, refused, shown)
      /\ InTurn /\ refused \subseteq begun
  BY DEF RequestsInv, RequestsTypes, ChannelsInv, Channels
<1> HIDE DEF r
<1>1. \A i \in 1..Len(toSw) : toSw[i].xid # r
  <2> SUFFICES ASSUME NEW i \in 1..Len(toSw) PROVE toSw[i].xid # r
    OBVIOUS
  <2>1. Asks(toSw[i], begun, refused)
    BY <1>t
  <2> QED
    BY <2>1, <1>r DEF Asks, Message, Barrier
<1>2. \A i \in 1..Len(toCtl) : toCtl[i].xid # r
  <2> SUFFICES ASSUME NEW i \in 1..Len(toCtl) PROVE toCtl[i].xid # r
    OBVIOUS
  <2>1. Tells(toCtl[i], begun, refused, shown)
    BY <1>t
  <2> QED
    BY <2>1, <1>r, <1>t DEF Tells, Message, Barrier
<1>3. \A i \in 1..Len(toSw') : Asks(toSw'[i], begun', refused')
  <2> SUFFICES ASSUME NEW i \in 1..Len(toSw') PROVE Asks(toSw'[i], begun', refused')
    OBVIOUS
  <2>1. CASE i \in 1..Len(toSw)
    <3>1. Asks(toSw[i], begun, refused) /\ toSw'[i] = toSw[i]
      BY <2>1, <1>t, <1>w
    <3> QED
      BY <3>1, <1>s DEF Asks
  <2>2. CASE i \notin 1..Len(toSw)
    BY <2>2, <1>w, <1>s DEF Asks
  <2> QED
    BY <2>1, <2>2
<1>4. \A i \in 1..Len(toCtl) : Tells(toCtl[i], begun', refused', shown')
  <2> SUFFICES ASSUME NEW i \in 1..Len(toCtl) PROVE Tells(toCtl[i], begun', refused', shown')
    OBVIOUS
  <2>1. Tells(toCtl[i], begun, refused, shown)
    BY <1>t
  <2> QED
    BY <2>1, <1>s DEF Tells
<1>5. \A i, j \in 1..Len(toSw') : i < j => Before(toSw'[i], toSw'[j])
  <2> SUFFICES ASSUME NEW i \in 1..Len(toSw'), NEW j \in 1..Len(toSw'), i < j
               PROVE  Before(toSw'[i], toSw'[j])
    OBVIOUS
  <2>1. CASE j \in 1..Len(toSw)
    <3>1. i \in 1..Len(toSw)
      BY <2>1, <1>w
    <3> QED
      BY <3>1, <2>1, <1>w, <1>t DEF InTurn
  <2>2. CASE j \notin 1..Len(toSw) /\ i \in 1..Len(toSw)
    BY <2>2, <1>1, <1>w DEF Before
  <2>3. CASE j \notin 1..Len(toSw) /\ i \notin 1..Len(toSw)
    BY <2>3, <1>w DEF Before
  <2> QED
    BY <2>1, <2>2, <2>3
<1>6. \A i \in 1..Len(toCtl), j \in 1..Len(toSw') : Before(toCtl[i], toSw'[j])
  <2> SUFFICES ASSUME NEW i \in 1..Len(toCtl), NEW j \in 1..Len(toSw')
               PROVE  Before(toCtl[i], toSw'[j])
    OBVIOUS
  <2>1. CASE j \in 1..Len(toSw)
    BY <2>1, <1>w, <1>t DEF InTurn
  <2>2. CASE j \notin 1..Len(toSw)
    BY <2>2, <1>2, <1>w DEF Before
  <2> QED
    BY <2>1, <2>2
<1>7. Channels'
  BY <1>3, <1>4, <1>s DEF Channels
<1>8. InTurn'
  BY <1>5, <1>6, <1>s, <1>t DEF InTurn, Before, Rank
<1> QED
  BY <1>7, <1>8 DEF ChannelsInv

LEMMA BeginTable ==
  ASSUME RequestsAssumption, RequestsInv, Begin, open
  PROVE  RestOnTheWay' /\ LastOneSets' /\ Settled'
<1> DEFINE r == Head(later)  q == Requested(r)
<1>r. /\ r \in Request /\ r \notin begun /\ r \notin refused /\ took[r] = 0
      /\ _response[r] = None /\ r # NoRequest
  BY NextInLine
<1>s. /\ begun' = begun \cup {r}
      /\ IF Sets(r) THEN set' = r ELSE set' = set
      /\ UNCHANGED <<_response, table, open, took, refused>>
  BY DEF Begin, Sets
<1>q. 1 \in 1..Len(q) /\ (Sets(r) => q[1] = Message("clear", r, 0))
  BY <1>r, RequestedAre
<1>w. /\ Len(toSw) \in Nat /\ Len(toSw') \in Nat
      /\ \A i \in 1..Len(toSw) : i \in 1..Len(toSw') /\ toSw'[i] = toSw[i]
      /\ \A i \in 1..Len(q) : i + Len(toSw) \in 1..Len(toSw') /\ toSw'[i + Len(toSw)] = q[i]
      /\ \A i \in 1..Len(toSw') : i \notin 1..Len(toSw) =>
           toSw'[i] \in MessagesOf(r) /\ toSw'[i].xid = r
      /\ \A m : In(toSw', m) <=> In(toSw, m) \/ m \in MessagesOf(r)
  BY BeginSends, LenProperties DEF RequestsInv, RequestsTypes
<1>t. /\ begun \subseteq Request /\ RestOnTheWay /\ LastOneSets /\ Settled /\ BegunOnce
  BY DEF RequestsInv, RequestsTypes, SwitchInv, AnswersInv
<1> HIDE DEF r, q
<1>1. RestOnTheWay'
  <2> SUFFICES ASSUME NEW x \in begun' \ refused', Sets(x)
               PROVE  /\ took'[x] <= Wanted(x)
                      /\ \A k \in 1..Wanted(x) : In(toSw', Message("add", x, k)) <=> took'[x] < k
    BY DEF RestOnTheWay
  <2>1. CASE x = r
    <3>1. Wanted(r) \in Nat
      BY <1>r, WantedNat
    <3>2. \A k \in 1..Wanted(r) : Message("add", r, k) \in MessagesOf(r)
      BY <2>1 DEF MessagesOf
    <3> QED
      BY <3>1, <3>2, <2>1, <1>r, <1>s, <1>w
  <2>2. CASE x # r
    <3>1. \A k : Message("add", x, k) \notin MessagesOf(r)
      BY <2>2, <1>r, MessagesAre DEF Message
    <3>2. x \in begun \ refused /\ took'[x] = took[x]
      BY <2>2, <1>s
    <3> QED
      BY <3>1, <3>2, <1>w, <1>s, <1>t DEF RestOnTheWay
  <2> QED
    BY <2>1, <2>2
<1>2. Settled'
  <2> SUFFICES ASSUME NEW x \in Request, _response'[x].is = "result"
               PROVE  /\ \A i \in 1..Len(toSw') : toSw'[i].xid # x
                      /\ Sets(x) => took'[x] = Wanted(x)
    BY DEF Settled
  <2>1. x # r /\ _response[x].is = "result"
    BY <1>r, <1>s, ResponsesApart
  <2>2. ASSUME NEW i \in 1..Len(toSw') PROVE toSw'[i].xid # x
    BY <2>1, <1>w, <1>t DEF Settled
  <2> QED
    BY <2>1, <2>2, <1>s, <1>t DEF Settled
<1>3. LastOneSets'
  <2> SUFFICES ASSUME refused' = {}, set' # NoRequest
               PROVE  \/ /\ took'[set'] = 0
                         /\ \E i \in 1..Len(toSw') :
                              /\ toSw'[i] = Message("clear", set', 0)
                              /\ \A j \in i..Len(toSw') : Leaves(j)'
                      \/ /\ table' = {Flows[set'][k] : k \in 1..took'[set']}
                         /\ \A j \in 1..Len(toSw') : Leaves(j)' /\ toSw'[j].op # "clear"
    BY DEF LastOneSets
  <2>1. CASE Sets(r)
    <3>1. /\ Len(toSw) + 1 \in 1..Len(toSw') /\ toSw'[Len(toSw) + 1] = Message("clear", r, 0)
          /\ \A j \in (Len(toSw) + 1)..Len(toSw') : j \in 1..Len(toSw') /\ j \notin 1..Len(toSw)
      BY <2>1, <1>q, <1>w
    <3>2. \A j \in (Len(toSw) + 1)..Len(toSw') : Leaves(j)'
      BY <3>1, <2>1, <1>w, <1>s DEF Leaves
    <3> QED
      BY <3>1, <3>2, <2>1, <1>s, <1>r
  <2>2. CASE ~Sets(r)
    <3>1. set' = set /\ refused = {} /\ set # NoRequest
      BY <2>2, <1>s
    <3>2. \A j \in 1..Len(toSw') : j \notin 1..Len(toSw) => toSw'[j].op = "stats"
      BY <2>2, <1>w, <1>r, MessagesAre
    <3>3. CASE /\ took[set] = 0
               /\ \E i \in 1..Len(toSw) : /\ toSw[i] = Message("clear", set, 0)
                                          /\ \A j \in i..Len(toSw) : Leaves(j)
      <4>1. PICK i \in 1..Len(toSw) : /\ toSw[i] = Message("clear", set, 0)
                                      /\ \A j \in i..Len(toSw) : Leaves(j)
        BY <3>3
      <4>2. ASSUME NEW j \in i..Len(toSw') PROVE Leaves(j)'
        <5>1. CASE j \in 1..Len(toSw)
          BY <5>1, <4>1, <3>1, <1>w DEF Leaves
        <5>2. CASE j \notin 1..Len(toSw)
          BY <5>2, <3>2, <1>w DEF Leaves
        <5> QED
          BY <5>1, <5>2
      <4> QED
        BY <4>1, <4>2, <3>1, <3>3, <1>w, <1>s
    <3>4. CASE /\ table = {Flows[set][k] : k \in 1..took[set]}
               /\ \A j \in 1..Len(toSw) : Leaves(j) /\ toSw[j].op # "clear"
      <4>1. \A j \in 1..Len(toSw') : Leaves(j)' /\ toSw'[j].op # "clear"
        BY <3>1, <3>2, <3>4, <1>w DEF Leaves
      <4>2. table' = {Flows[set'][k] : k \in 1..took'[set']}
        BY <3>1, <3>4, <1>s
      <4> QED
        BY <4>1, <4>2
    <3> QED
      BY <3>1, <3>3, <3>4, <1>t DEF LastOneSets
  <2> QED
    BY <2>1, <2>2
<1> QED
  BY <1>1, <1>2, <1>3

LEMMA BeginAnswers ==
  ASSUME RequestsAssumption, RequestsInv, Begin, open
  PROVE  BarriersOnTheWay' /\ ErrorComesFirst'
<1> DEFINE r == Head(later)
<1>r. r \in Request /\ r \notin begun /\ r \notin refused
  BY NextInLine
<1>s. /\ listeners' = listeners \cup {r}
      /\ IF Sets(r) THEN count' = [count EXCEPT ![r] = Barriers(r)] ELSE count' = count
      /\ UNCHANGED <<toCtl, open, refused>>
  BY DEF Begin, Sets
<1>w. \A m : In(toSw', m) <=> In(toSw, m) \/ m \in MessagesOf(r)
  BY BeginSends
<1>t. /\ listeners \subseteq Request /\ count \in [Request -> Int] /\ listeners \subseteq begun
      /\ BarriersOnTheWay /\ ErrorComesFirst
  BY DEF RequestsInv, RequestsTypes, AnswersInv
<1> HIDE DEF r
<1>1. BarriersOnTheWay'
  <2> SUFFICES ASSUME NEW x \in listeners', Sets(x)
               PROVE  /\ count'[x] <= Wanted(x) + 1
                      /\ \A k \in 0..Wanted(x) :
                           In(toSw', Barrier(x, k)) \/ In(toCtl', Barrier(x, k))
                             <=> k + count'[x] > Wanted(x)
    BY DEF BarriersOnTheWay
  <2>1. CASE x = r
    <3>1. Wanted(r) \in Nat /\ count'[r] = 1 + Wanted(r)
      BY <2>1, <1>r, <1>s, <1>t, WantedNat DEF Barriers, Wanted
    <3>2. \A k \in 0..Wanted(r) : Barrier(r, k) \in MessagesOf(r)
      BY <2>1 DEF MessagesOf
    <3> QED
      BY <3>1, <3>2, <2>1, <1>w
  <2>2. CASE x # r
    <3>1. \A k : Barrier(x, k) \notin MessagesOf(r)
      BY <2>2, <1>r, MessagesAre DEF Message, Barrier
    <3>2. x \in listeners /\ count'[x] = count[x]
      BY <2>2, <1>s, <1>t
    <3> QED
      BY <3>1, <3>2, <1>w, <1>s, <1>t DEF BarriersOnTheWay
  <2> QED
    BY <2>1, <2>2
<1>2. ErrorComesFirst'
  BY <1>s, <1>r, <1>t DEF ErrorComesFirst
<1> QED
  BY <1>1, <1>2

LEMMA BeginStep == ASSUME RequestsAssumption, RequestsInv, Begin PROVE RequestsInv'
<1>1. RequestsTypes' /\ BegunOnce' /\ NobodyLeft' /\ OwnAnswer'
  BY BeginTypes
<1>s. /\ \/ Sets(Head(later)) /\ set' = Head(later) /\ _response[set'] = None
         \/ set' = set
      /\ UNCHANGED <<_response, table, open, toCtl, took, refused>>
  BY NextInLine DEF Begin, Sets
<1>2. TableSet'
  BY <1>s, ResponsesApart DEF RequestsInv, SwitchInv, TableSet
<1>3. CASE open
  BY <1>3, <1>1, <1>2, BeginTurn, BeginTable, BeginAnswers DEF RequestsInv, SwitchInv, AnswersInv
<1>4. CASE ~open
  <2>1. toSw' = <<>> /\ toCtl' = <<>> /\ ~open'
    <3>1. toSw = <<>> /\ toCtl = <<>>
      BY <1>4 DEF RequestsInv, ChannelsInv, Channels
    <3>2. toSw' = toSw
      BY <1>4 DEF Begin, Sent
    <3> QED
      BY <3>1, <3>2, <1>4, <1>s
  <2>2. ChannelsInv'
    BY <2>1 DEF ChannelsInv, Channels, InTurn
  <2>3. RestOnTheWay' /\ LastOneSets' /\ BarriersOnTheWay' /\ ErrorComesFirst'
    BY <2>1 DEF RestOnTheWay, LastOneSets, BarriersOnTheWay, ErrorComesFirst
  <2>4. Settled'
    BY <2>1, <1>s DEF RequestsInv, AnswersInv, Settled
  <2> QED
    BY <1>1, <1>2, <2>2, <2>3, <2>4 DEF RequestsInv, SwitchInv, AnswersInv
<1> QED
  BY <1>3, <1>4

-----------------------------------------------------------------------------
(* A message arrives at POX.                                               *)

\* What comes first of a channel to the controller, and what is behind it.
LEMMA FirstToController ==
  ASSUME RequestsAssumption, RequestsInv, Receive
  PROVE  LET m == Head(toCtl)
         IN  /\ m = toCtl[1] /\ 1 \in 1..Len(toCtl) /\ m \in Answers
             /\ Tells(m, begun, refused, shown)
             /\ toCtl' \in Seq(Answers) /\ Len(toCtl') = Len(toCtl) - 1 /\ Len(toCtl) \in Nat
             /\ \A i \in 1..Len(toCtl') : i + 1 \in 1..Len(toCtl) /\ toCtl'[i] = toCtl[i + 1]
             /\ \A i \in 1..Len(toCtl) :
                  i # 1 => i - 1 \in 1..Len(toCtl') /\ toCtl'[i - 1] = toCtl[i]
             /\ \A i \in 1..Len(toCtl') : Before(m, toCtl'[i])
             /\ \A i \in 1..Len(toSw) : Before(m, toSw[i])
             /\ \A x : In(toCtl, x) <=> x = m \/ In(toCtl', x)
<1> DEFINE m == Head(toCtl)
<1>t. /\ toCtl \in Seq(Answers) /\ toCtl # <<>> /\ toCtl' = Tail(toCtl)
      /\ \A i \in 1..Len(toCtl) : Tells(toCtl[i], begun, refused, shown)
      /\ InTurn
  BY DEF Receive, RequestsInv, RequestsTypes, ChannelsInv, Channels
<1>1. /\ m = toCtl[1] /\ 1 \in 1..Len(toCtl) /\ m \in Answers
      /\ toCtl' \in Seq(Answers) /\ Len(toCtl') = Len(toCtl) - 1 /\ Len(toCtl) \in Nat
      /\ \A i \in 1..Len(toCtl') : i + 1 \in 1..Len(toCtl) /\ toCtl'[i] = toCtl[i + 1]
      /\ \A i \in 1..Len(toCtl) : i # 1 => i - 1 \in 1..Len(toCtl') /\ toCtl'[i - 1] = toCtl[i]
      /\ \A x : In(toCtl, x) <=> x = m \/ In(toCtl', x)
  BY <1>t, FirstTaken, LenProperties
<1>2. \A i \in 1..Len(toCtl') : Before(m, toCtl'[i])
  <2> SUFFICES ASSUME NEW i \in 1..Len(toCtl') PROVE Before(m, toCtl'[i])
    OBVIOUS
  <2>1. i + 1 \in 1..Len(toCtl) /\ 1 < i + 1
    BY <1>1
  <2> QED
    BY <2>1, <1>1, <1>t DEF InTurn
<1>3. \A i \in 1..Len(toSw) : Before(m, toSw[i])
  BY <1>1, <1>t DEF InTurn
<1> QED
  BY <1>1, <1>2, <1>3, <1>t

\* What a message does, by what it is, to the request r that has its xid.
LEMMA ReceiveDoes ==
  ASSUME RequestsAssumption, RequestsInv, Receive
  PROVE  LET m == Head(toCtl)  r == m.xid
         IN  /\ open /\ UNCHANGED <<later, begun, outcome, table, open, shown, took, refused,
                                    set, late>>
             /\ \/ m.xid \notin listeners /\ UNCHANGED <<_response, listeners, count, toSw>>
                \/ /\ r \in listeners /\ r \in Request /\ r \in begun /\ _response[r] = None
                   /\ \/ /\ m = Message("stats", r, shown[r]) /\ m.op = "stats" /\ ~Sets(r)
                         /\ _response' = [_response EXCEPT ![r] = Result(shown[r])]
                         /\ listeners' = listeners \ {r} /\ UNCHANGED <<count, toSw>>
                      \/ /\ m = Barrier(r, m.arg) /\ m.op = "barrier" /\ Sets(r)
                         /\ m.arg \in 0..Wanted(r) /\ count' = [count EXCEPT ![r] = count[r] - 1]
                         /\ UNCHANGED toSw
                         /\ \/ /\ count[r] - 1 <= 0
                               /\ _response' = [_response EXCEPT ![r] = Result(TRUE)]
                               /\ listeners' = listeners \ {r}
                            \/ count[r] - 1 > 0 /\ UNCHANGED <<_response, listeners>>
                      \/ /\ m = Message("error", r, 0) /\ m.op = "error" /\ refused # {}
                         /\ _response' = [_response EXCEPT ![r] = Error]
                         /\ listeners' = listeners \ {r} /\ UNCHANGED count
                         /\ toSw' = toSw \o clear_table(NoRequest)
<1> DEFINE m == Head(toCtl)  r == m.xid
<1>1. /\ open /\ UNCHANGED <<later, begun, outcome, table, open, shown, took, refused, set, late>>
      /\ IF r \notin listeners
         THEN UNCHANGED <<_response, listeners, count, toSw>>
         ELSE \/ m.op = "stats" /\ _handle_StatsReceived(r, m)
              \/ m.op = "barrier" /\ _handle_BarrierIn(r)
              \/ m.op = "error" /\ _handle_ErrorIn(r)
  BY DEF Receive
<1>2. Tells(m, begun, refused, shown)
  BY FirstToController
<1>t. /\ listeners \subseteq begun /\ begun \subseteq Request /\ refused \subseteq begun
      /\ _response \in [Request -> Responses] /\ count \in [Request -> Int]
      /\ NobodyLeft /\ BegunOnce /\ NoRequest \notin Request
  BY DEF RequestsInv, RequestsTypes, AnswersInv, RequestsAssumption
<1> HIDE DEF m
<1>3. CASE r \notin listeners
  BY <1>1, <1>3 DEF m
<1>4. CASE r \in listeners
  <2>1. r \in begun /\ r \in Request /\ _response[r] = None /\ r # NoRequest
    BY <1>4, <1>t DEF NobodyLeft
  <2>2. CASE m.op = "stats" /\ _handle_StatsReceived(r, m)
    <3>1. m = Message("stats", r, shown[r]) /\ ~Sets(r) /\ m.arg = shown[r]
      BY <2>2, <2>1, <1>2 DEF Tells, Message, Barrier
    <3> QED
      BY <3>1, <2>1, <2>2, <1>1, <1>4 DEF _handle_StatsReceived, _finish, m
  <2>3. CASE m.op = "barrier" /\ _handle_BarrierIn(r)
    <3>1. /\ Sets(r) /\ m.arg \in 0..Wanted(r) /\ m = Barrier(r, m.arg)
      BY <2>3, <2>1, <1>2 DEF Tells, Message, Barrier
    <3>2. count[r] - 1 <= 0 \/ count[r] - 1 > 0
      BY <2>1, <1>t
    <3> QED
      BY <3>1, <3>2, <2>1, <2>3, <1>1, <1>4 DEF _handle_BarrierIn, _finish, m
  <2>4. CASE m.op = "error" /\ _handle_ErrorIn(r)
    <3>1. r \in refused /\ m = Message("error", r, 0) /\ Sets(r)
      BY <2>4, <2>1, <1>2, <1>t DEF Tells, Message, Barrier, BegunOnce
    <3> QED
      BY <3>1, <2>1, <2>4, <1>1, <1>4 DEF _handle_ErrorIn, _finish, Sent, Sets, m
  <2> QED
    BY <2>2, <2>3, <2>4, <1>1, <1>4
<1> QED
  BY <1>3, <1>4

\* POX sends nothing, or clears the table for nobody.
LEMMA ReceiveSends ==
  ASSUME RequestsAssumption, RequestsInv, Receive
  PROVE  /\ toSw' \in Seq(Commands) /\ Len(toSw) \in Nat /\ Len(toSw') \in Nat
         /\ \A i \in 1..Len(toSw) : i \in 1..Len(toSw') /\ toSw'[i] = toSw[i]
         /\ \A i \in 1..Len(toSw') : i \notin 1..Len(toSw) =>
              /\ refused # {} /\ toSw'[i].xid = NoRequest
              /\ toSw'[i] \in {Message("clear", NoRequest, 0), Barrier(NoRequest, 0)}
         /\ \A x : x.xid # NoRequest => (In(toSw', x) <=> In(toSw, x))
<1> DEFINE c == clear_table(NoRequest)
<1>1. toSw' = toSw \/ (toSw' = toSw \o c /\ refused # {})
  BY ReceiveDoes
<1>2. toSw \in Seq(Commands) /\ Len(toSw) \in Nat
  BY LenProperties DEF RequestsInv, RequestsTypes
<1>3. /\ c \in Seq(Commands) /\ Len(c) = 2
      /\ \A i \in 1..Len(c) : /\ c[i].xid = NoRequest
                              /\ c[i] \in {Message("clear", NoRequest, 0), Barrier(NoRequest, 0)}
  BY DEF clear_table, Message, Barrier, Commands, Xid
<1> HIDE DEF c
<1>4. CASE toSw' = toSw
  BY <1>2, <1>4 DEF In
<1>5. CASE toSw' = toSw \o c /\ refused # {}
  <2>1. /\ toSw' \in Seq(Commands) /\ Len(toSw') = Len(toSw) + Len(c)
        /\ \A i \in 1..Len(toSw) : i \in 1..Len(toSw') /\ toSw'[i] = toSw[i]
        /\ \A i \in 1..Len(toSw') :
             i \notin 1..Len(toSw) => i - Len(toSw) \in 1..Len(c) /\ toSw'[i] = c[i - Len(toSw)]
        /\ \A x : In(toSw', x) <=> In(toSw, x) \/ In(c, x)
    <3>1. toSw' = toSw \o c
      BY <1>5
    <3>2. /\ toSw \o c \in Seq(Commands) /\ Len(toSw \o c) = Len(toSw) + Len(c)
          /\ \A i \in 1..Len(toSw) : i \in 1..Len(toSw \o c) /\ (toSw \o c)[i] = toSw[i]
          /\ \A i \in 1..Len(toSw \o c) : i \notin 1..Len(toSw) =>
               i - Len(toSw) \in 1..Len(c) /\ (toSw \o c)[i] = c[i - Len(toSw)]
          /\ \A x : In(toSw \o c, x) <=> In(toSw, x) \/ In(c, x)
      <4>1. toSw \in Seq(Commands) /\ c \in Seq(Commands)
        BY <1>2, <1>3
      <4> QED
        BY <4>1, PutBehind
    <3> QED
      BY <3>1, <3>2
  <2>2. \A x : In(c, x) => x.xid = NoRequest
    BY <1>3 DEF In
  <2> QED
    BY <2>1, <2>2, <1>2, <1>3, <1>5
<1> QED
  BY <1>1, <1>4, <1>5

LEMMA ReceiveTypes ==
  ASSUME RequestsAssumption, RequestsInv, Receive
  PROVE  RequestsTypes' /\ BegunOnce' /\ NobodyLeft' /\ OwnAnswer'
<1> DEFINE m == Head(toCtl)  r == m.xid
<1>t. RequestsTypes /\ BegunOnce /\ NobodyLeft /\ OwnAnswer
  BY DEF RequestsInv, AnswersInv
<1>s. UNCHANGED <<later, begun, outcome, table, open, shown, took, refused, set, late>>
  BY ReceiveDoes
<1>c. \/ UNCHANGED <<_response, listeners>> /\ count' \in [Request -> Int]
      \/ /\ r \in listeners /\ r \in Request /\ listeners' = listeners \ {r}
         /\ _response[r] = None /\ count' \in [Request -> Int]
         /\ \/ ~Sets(r) /\ _response' = [_response EXCEPT ![r] = Result(shown[r])]
            \/ Sets(r) /\ _response' = [_response EXCEPT ![r] = Result(TRUE)]
            \/ _response' = [_response EXCEPT ![r] = Error]
  <2>1. count \in [Request -> Int]
    BY <1>t DEF RequestsTypes
  <2>2. count' \in [Request -> Int]
    <3>1. count' = count \/ \E x \in Request : count' = [count EXCEPT ![x] = count[x] - 1]
      BY ReceiveDoes
    <3>2. \A x \in Request : count[x] - 1 \in Int
      BY <2>1
    <3> QED
      BY <3>1, <3>2, <2>1
  <2> QED
    BY <2>2, ReceiveDoes
<1> HIDE DEF m
<1>1. RequestsTypes'
  <2>1. toSw' \in Seq(Commands) /\ toCtl' \in Seq(Answers)
    BY ReceiveSends, FirstToController
  <2>2. _response' \in [Request -> Responses]
    <3>1. _response \in [Request -> Responses] /\ shown \in [Request -> SUBSET Flow]
      BY <1>t DEF RequestsTypes
    <3>2. r \in Request => Result(shown[r]) \in Responses
      BY <3>1 DEF Responses
    <3>3. Result(TRUE) \in Responses /\ Error \in Responses
      BY DEF Responses
    <3> QED
      BY <3>1, <3>2, <3>3, <1>c
  <2>3. listeners' \subseteq begun'
    BY <1>c, <1>s, <1>t DEF RequestsTypes
  <2>4. count' \in [Request -> Int]
    BY <1>c
  <2> QED
    BY <2>1, <2>2, <2>3, <2>4, <1>s, <1>t DEF RequestsTypes
<1>d. \A x \in Request :
        \/ _response'[x] = _response[x] /\ (x \in listeners' => x \in listeners)
        \/ /\ x = r /\ x \in listeners /\ x \notin listeners' /\ _response[x] = None
           /\ \/ ~Sets(x) /\ _response'[x] = Result(shown[x])
              \/ Sets(x) /\ _response'[x] = Result(TRUE)
              \/ _response'[x] = Error
  BY <1>c, <1>t DEF RequestsTypes
<1>l. listeners' \subseteq listeners /\ listeners \subseteq begun
  BY <1>c, <1>t DEF RequestsTypes
<1>2. BegunOnce'
  <2>1. \A x \in Request : _response'[x] # None => x \in begun' \ listeners'
    BY <1>d, <1>l, <1>s, <1>t DEF BegunOnce
  <2> QED
    BY <2>1, <1>s, <1>t DEF BegunOnce
<1>3. NobodyLeft'
  <2> SUFFICES ASSUME NEW x \in Request
               PROVE  /\ outcome[x] = "answered" => _response'[x] # None
                      /\ x \in listeners' => /\ outcome[x] # "answered" /\ _response'[x] = None
                                             /\ outcome[x] = "timed out" => x \in late
    BY <1>s DEF NobodyLeft
  <2> QED
    BY <1>d, <1>t, ResponsesApart DEF NobodyLeft
<1>4. OwnAnswer'
  <2> SUFFICES ASSUME NEW x \in Request, RequestKind[x] = "stats"
               PROVE  _response'[x] \in {None, Error, Result(shown[x])}
    BY <1>s DEF OwnAnswer
  <2>1. ~Sets(x)
    BY DEF Sets
  <2> QED
    BY <2>1, <1>d, <1>t DEF OwnAnswer
<1> QED
  BY <1>1, <1>2, <1>3, <1>4

LEMMA ReceiveTurn ==
  ASSUME RequestsAssumption, RequestsInv, Receive
  PROVE  ChannelsInv'
<1>s. open /\ UNCHANGED <<begun, open, shown, refused>>
  BY ReceiveDoes
<1>w. /\ Len(toSw) \in Nat /\ Len(toSw') \in Nat
      /\ \A i \in 1..Len(toSw) : i \in 1..Len(toSw') /\ toSw'[i] = toSw[i]
      /\ \A i \in 1..Len(toSw') : i \notin 1..Len(toSw) =>
           /\ refused # {} /\ toSw'[i].xid = NoRequest
           /\ toSw'[i] \in {Message("clear", NoRequest, 0), Barrier(NoRequest, 0)}
  BY ReceiveSends
<1>m. /\ Len(toCtl') \in Nat
      /\ \A i \in 1..Len(toCtl') : i + 1 \in 1..Len(toCtl) /\ toCtl'[i] = toCtl[i + 1]
  BY FirstToController, LenProperties
<1>t. /\ \A i \in 1..Len(toSw) : Asks(toSw[i], begun, refused)
      /\ \A i \in 1..Len(toCtl) : Tells(toCtl[i], begun, refused, shown)
      /\ InTurn
  BY DEF RequestsInv, ChannelsInv, Channels
<1>1. \A i \in 1..Len(toSw') : Asks(toSw'[i], begun, refused)
  <2> SUFFICES ASSUME NEW i \in 1..Len(toSw') PROVE Asks(toSw'[i], begun, refused)
    OBVIOUS
  <2>1. CASE i \in 1..Len(toSw)
    BY <2>1, <1>w, <1>t
  <2>2. CASE i \notin 1..Len(toSw)
    BY <2>2, <1>w DEF Asks
  <2> QED
    BY <2>1, <2>2
<1>2. \A i \in 1..Len(toCtl') : Tells(toCtl'[i], begun, refused, shown)
  BY <1>m, <1>t
<1>3. \A i, j \in 1..Len(toSw') : i < j => Before(toSw'[i], toSw'[j])
  <2> SUFFICES ASSUME NEW i \in 1..Len(toSw'), NEW j \in 1..Len(toSw'), i < j
               PROVE  Before(toSw'[i], toSw'[j])
    OBVIOUS
  <2>1. CASE j \in 1..Len(toSw)
    <3>1. i \in 1..Len(toSw)
      BY <2>1, <1>w
    <3> QED
      BY <3>1, <2>1, <1>w, <1>t DEF InTurn
  <2>2. CASE j \notin 1..Len(toSw)
    BY <2>2, <1>w DEF Before
  <2> QED
    BY <2>1, <2>2
<1>4. \A i, j \in 1..Len(toCtl') : i < j => Before(toCtl'[i], toCtl'[j])
  <2> SUFFICES ASSUME NEW i \in 1..Len(toCtl'), NEW j \in 1..Len(toCtl'), i < j
               PROVE  Before(toCtl'[i], toCtl'[j])
    OBVIOUS
  <2>1. i + 1 \in 1..Len(toCtl) /\ j + 1 \in 1..Len(toCtl) /\ i + 1 < j + 1
    BY <1>m
  <2> QED
    BY <2>1, <1>m, <1>t DEF InTurn
<1>5. \A i \in 1..Len(toCtl'), j \in 1..Len(toSw') : Before(toCtl'[i], toSw'[j])
  <2> SUFFICES ASSUME NEW i \in 1..Len(toCtl'), NEW j \in 1..Len(toSw')
               PROVE  Before(toCtl'[i], toSw'[j])
    OBVIOUS
  <2>1. CASE j \in 1..Len(toSw)
    BY <2>1, <1>m, <1>w, <1>t DEF InTurn
  <2>2. CASE j \notin 1..Len(toSw)
    BY <2>2, <1>w DEF Before
  <2> QED
    BY <2>1, <2>2
<1>6. Channels'
  BY <1>1, <1>2, <1>s DEF Channels
<1>7. InTurn'
  BY <1>3, <1>4, <1>5 DEF InTurn, Before, Rank
<1> QED
  BY <1>6, <1>7 DEF ChannelsInv

LEMMA ReceiveTable ==
  ASSUME RequestsAssumption, RequestsInv, Receive
  PROVE  RestOnTheWay' /\ LastOneSets'
<1>s. UNCHANGED <<begun, table, open, took, refused, set>>
  BY ReceiveDoes
<1>t. begun \subseteq Request /\ RestOnTheWay /\ LastOneSets /\ NoRequest \notin Request
  BY DEF RequestsInv, RequestsTypes, SwitchInv, RequestsAssumption
<1>1. RestOnTheWay'
  <2> SUFFICES ASSUME open, NEW x \in begun \ refused, Sets(x)
               PROVE  /\ took[x] <= Wanted(x)
                      /\ \A k \in 1..Wanted(x) : In(toSw', Message("add", x, k)) <=> took[x] < k
    BY <1>s DEF RestOnTheWay
  <2>1. \A k : In(toSw', Message("add", x, k)) <=> In(toSw, Message("add", x, k))
    BY ReceiveSends, <1>t DEF Message
  <2> QED
    BY <2>1, <1>t DEF RestOnTheWay
<1>2. LastOneSets'
  <2>1. CASE refused # {}
    BY <2>1, <1>s DEF LastOneSets
  <2>2. CASE refused = {}
    <3>1. toSw' = toSw
      BY <2>2, ReceiveDoes
    <3> QED
      BY <3>1, <1>s, <1>t DEF LastOneSets, Leaves
  <2> QED
    BY <2>1, <2>2
<1> QED
  BY <1>1, <1>2

\* A request that takes a barrier takes the least of those it waits for.
LEMMA TakesLeast ==
  ASSUME RequestsAssumption, RequestsInv, Receive, NEW r \in listeners, Sets(r),
         NEW k \in 0..Wanted(r), Head(toCtl) = Barrier(r, k)
  PROVE  k + count[r] = Wanted(r) + 1 /\ ~In(toSw, Barrier(r, k)) /\ ~In(toCtl', Barrier(r, k))
<1> DEFINE m == Head(toCtl)
<1>t. /\ open /\ r \in Request /\ r # NoRequest /\ count[r] \in Int /\ Wanted(r) \in Nat
      /\ BarriersOnTheWay
  BY ReceiveDoes, WantedNat DEF RequestsInv, RequestsTypes, AnswersInv, RequestsAssumption
<1>b. \A j \in 0..Wanted(r) : /\ Barrier(r, j).op = "barrier" /\ Barrier(r, j).xid = r
                              /\ Rank(Barrier(r, j)) = 2 * j + 1
  BY DEF Barrier, Message, Rank
<1>m. /\ \A i \in 1..Len(toCtl') : Before(m, toCtl'[i])
      /\ \A i \in 1..Len(toSw) : Before(m, toSw[i])
      /\ \A x : In(toCtl, x) <=> x = m \/ In(toCtl', x)
  BY FirstToController
<1> HIDE DEF m
<1>1. ASSUME NEW j \in 0..Wanted(r), In(toSw, Barrier(r, j)) \/ In(toCtl', Barrier(r, j))
      PROVE  k < j
  <2>1. Before(m, Barrier(r, j))
    BY <1>1, <1>m DEF In
  <2>2. Rank(m) < Rank(Barrier(r, j))
    BY <2>1, <1>b, <1>t DEF Before, m
  <2> QED
    BY <2>2, <1>b DEF m
<1>2. ~In(toSw, Barrier(r, k)) /\ ~In(toCtl', Barrier(r, k))
  BY <1>1
<1>3. /\ count[r] <= Wanted(r) + 1
      /\ \A j \in 0..Wanted(r) :
           In(toSw, Barrier(r, j)) \/ In(toCtl, Barrier(r, j)) <=> j + count[r] > Wanted(r)
  BY <1>t DEF BarriersOnTheWay
<1>4. k + count[r] > Wanted(r)
  BY <1>3, <1>m DEF m
<1>5. ASSUME k + count[r] > Wanted(r) + 1 PROVE FALSE
  <2> DEFINE j == Wanted(r) + 1 - count[r]
  <2>1. j \in 0..Wanted(r) /\ j < k /\ j + count[r] > Wanted(r)
    BY <1>3, <1>4, <1>5, <1>t
  <2> HIDE DEF j
  <2>2. In(toSw, Barrier(r, j)) \/ In(toCtl, Barrier(r, j))
    BY <2>1, <1>3
  <2>3. Barrier(r, j) # m
    BY <2>1 DEF Barrier, Message, m
  <2>4. k < j
    BY <2>1, <2>2, <2>3, <1>1, <1>m
  <2> QED
    BY <2>1, <2>4
<1> QED
  BY <1>2, <1>4, <1>5, <1>t

LEMMA ReceiveAnswers ==
  ASSUME RequestsAssumption, RequestsInv, Receive
  PROVE  BarriersOnTheWay' /\ ErrorComesFirst'
<1> DEFINE m == Head(toCtl)  r == m.xid
<1>t. /\ open /\ listeners \subseteq Request /\ count \in [Request -> Int]
      /\ BarriersOnTheWay /\ ErrorComesFirst /\ NoRequest \notin Request
  BY ReceiveDoes DEF RequestsInv, RequestsTypes, AnswersInv, RequestsAssumption
<1>s. UNCHANGED <<open, refused>> /\ listeners' \subseteq listeners
  BY ReceiveDoes
<1>m. /\ m = toCtl[1] /\ Len(toCtl) \in Nat /\ Len(toCtl') = Len(toCtl) - 1
      /\ \A i \in 1..Len(toCtl') : i + 1 \in 1..Len(toCtl) /\ toCtl'[i] = toCtl[i + 1]
      /\ \A i \in 1..Len(toCtl) : i # 1 => i - 1 \in 1..Len(toCtl') /\ toCtl'[i - 1] = toCtl[i]
      /\ \A x : In(toCtl, x) <=> x = m \/ In(toCtl', x)
  BY FirstToController
<1>1. BarriersOnTheWay'
  <2> SUFFICES ASSUME NEW x \in listeners', Sets(x)
               PROVE  /\ count'[x] <= Wanted(x) + 1
                      /\ \A k \in 0..Wanted(x) :
                           In(toSw', Barrier(x, k)) \/ In(toCtl', Barrier(x, k))
                             <=> k + count'[x] > Wanted(x)
    BY DEF BarriersOnTheWay
  <2>1. /\ x \in listeners /\ x \in Request /\ x # NoRequest /\ Wanted(x) \in Nat
        /\ count[x] \in Int /\ count[x] <= Wanted(x) + 1
        /\ \A k \in 0..Wanted(x) :
             In(toSw, Barrier(x, k)) \/ In(toCtl, Barrier(x, k)) <=> k + count[x] > Wanted(x)
    BY <1>s, <1>t, WantedNat DEF BarriersOnTheWay
  <2>2. \A k : In(toSw', Barrier(x, k)) <=> In(toSw, Barrier(x, k))
    BY <2>1, ReceiveSends DEF Barrier, Message
  <2>3. CASE r = x /\ m.op = "barrier"
    <3>1. /\ m = Barrier(x, m.arg) /\ m.arg \in 0..Wanted(x)
          /\ count' = [count EXCEPT ![x] = count[x] - 1]
      BY <2>1, <2>3, ReceiveDoes DEF Message
    <3>2. count'[x] = count[x] - 1
      BY <3>1, <2>1, <1>t
    <3>3. /\ m.arg + count[x] = Wanted(x) + 1
          /\ ~In(toSw, Barrier(x, m.arg)) /\ ~In(toCtl', Barrier(x, m.arg))
      BY <3>1, <2>1, TakesLeast
    <3>4. ASSUME NEW k \in 0..Wanted(x)
          PROVE  In(toSw', Barrier(x, k)) \/ In(toCtl', Barrier(x, k))
                   <=> k + count'[x] > Wanted(x)
      <4>1. CASE k = m.arg
        BY <4>1, <3>2, <3>3, <2>1, <2>2
      <4>2. CASE k # m.arg
        <5>1. Barrier(x, k) # m
          BY <4>2 DEF Barrier, Message
        <5>2. In(toSw', Barrier(x, k)) \/ In(toCtl', Barrier(x, k)) <=> k + count[x] > Wanted(x)
          BY <5>1, <2>1, <2>2, <1>m
        <5> QED
          BY <5>2, <4>2, <3>1, <3>2, <3>3, <2>1
      <4> QED
        BY <4>1, <4>2
    <3> QED
      BY <3>2, <3>4, <2>1
  <2>4. CASE ~(r = x /\ m.op = "barrier")
    <3>1. \A k : Barrier(x, k) # m
      BY <2>4 DEF Barrier, Message
    <3>2. count'[x] = count[x]
      <4>1. count' = count \/ (r # x /\ count' = [count EXCEPT ![r] = count[r] - 1])
        BY <2>4, ReceiveDoes
      <4> QED
        BY <4>1, <2>1, <1>t
    <3> QED
      BY <3>1, <3>2, <2>1, <2>2, <1>m
  <2> QED
    BY <2>3, <2>4
<1>2. ErrorComesFirst'
  <2> SUFFICES ASSUME NEW x \in listeners' \cap refused
               PROVE  \E j \in 1..Len(toCtl') :
                        /\ toCtl'[j] = Message("error", x, 0)
                        /\ \A i \in 1..j : toCtl'[i] # Barrier(x, Wanted(x))
    BY <1>s DEF ErrorComesFirst
  <2>1. PICK j \in 1..Len(toCtl) : /\ toCtl[j] = Message("error", x, 0)
                                   /\ \A i \in 1..j : toCtl[i] # Barrier(x, Wanted(x))
    BY <1>s, <1>t DEF ErrorComesFirst
  <2>2. j # 1
    <3>1. SUFFICES ASSUME j = 1 PROVE FALSE
      OBVIOUS
    <3>2. m.op = "error" /\ r = x
      BY <3>1, <2>1, <1>m DEF Message
    <3>3. x \in listeners /\ x \notin listeners'
      BY <3>2, <1>s, ReceiveDoes
    <3> QED
      BY <3>3
  <2>3. j - 1 \in 1..Len(toCtl') /\ toCtl'[j - 1] = Message("error", x, 0)
    BY <2>1, <2>2, <1>m
  <2>4. \A i \in 1..(j - 1) : i \in 1..Len(toCtl') /\ i + 1 \in 1..j
    BY <2>1, <2>3, <1>m
  <2>5. \A i \in 1..(j - 1) : toCtl'[i] # Barrier(x, Wanted(x))
    BY <2>1, <2>4, <1>m
  <2> QED
    BY <2>3, <2>5
<1> QED
  BY <1>1, <1>2

LEMMA ReceiveSettled ==
  ASSUME RequestsAssumption, RequestsInv, Receive
  PROVE  Settled'
<1> DEFINE m == Head(toCtl)  r == m.xid
<1>t. /\ open /\ listeners \subseteq begun /\ begun \subseteq Request
      /\ _response \in [Request -> Responses] /\ count \in [Request -> Int]
      /\ toSw \in Seq(Commands) /\ took \in [Request -> Nat]
      /\ \A i \in 1..Len(toSw) : Asks(toSw[i], begun, refused)
      /\ Settled /\ BegunOnce /\ RestOnTheWay /\ ErrorComesFirst /\ NoRequest \notin Request
  BY ReceiveDoes DEF RequestsInv, RequestsTypes, ChannelsInv, Channels, SwitchInv, AnswersInv,
     RequestsAssumption
<1>s. UNCHANGED took
  BY ReceiveDoes
<1>w. \A i \in 1..Len(toSw') :
        \/ i \in 1..Len(toSw) /\ toSw'[i] = toSw[i]
        \/ toSw'[i].xid = NoRequest
  BY ReceiveSends
<1>m. /\ m = toCtl[1] /\ \A i \in 1..Len(toSw) : Before(m, toSw[i])
  BY FirstToController
<1> SUFFICES ASSUME NEW x \in Request, _response'[x].is = "result"
             PROVE  /\ \A i \in 1..Len(toSw) : toSw[i].xid # x
                    /\ Sets(x) => took[x] = Wanted(x)
  BY <1>s, <1>w, <1>t DEF Settled
<1>1. CASE _response'[x] = _response[x]
  BY <1>1, <1>t DEF Settled
<1>2. CASE _response'[x] # _response[x]
  <2>1. /\ x = r /\ x \in listeners /\ x # NoRequest
        /\ \/ /\ m.op = "stats" /\ ~Sets(x)
           \/ /\ m = Barrier(x, m.arg) /\ m.op = "barrier" /\ Sets(x) /\ m.arg \in 0..Wanted(x)
              /\ count[x] - 1 <= 0
    <3>1. \/ UNCHANGED _response
          \/ /\ r \in listeners /\ r \in Request /\ m.op = "stats" /\ ~Sets(r)
             /\ _response' = [_response EXCEPT ![r] = Result(shown[r])]
          \/ /\ r \in listeners /\ r \in Request /\ m = Barrier(r, m.arg) /\ m.op = "barrier"
             /\ Sets(r) /\ m.arg \in 0..Wanted(r) /\ count[r] - 1 <= 0
             /\ _response' = [_response EXCEPT ![r] = Result(TRUE)]
          \/ r \in Request /\ _response' = [_response EXCEPT ![r] = Error]
      BY ReceiveDoes
    <3> HIDE DEF m
    <3>2. x = r
      BY <3>1, <1>2, <1>t
    <3>3. _response'[x] # Error
      BY ResponsesApart
    <3> QED
      BY <3>1, <3>2, <3>3, <1>2, <1>t
  <2> HIDE DEF m
  <2>2. ASSUME NEW i \in 1..Len(toSw), toSw[i].xid = x
        PROVE  /\ toSw[i] \in MessagesOf(x) /\ Rank(m) < Rank(toSw[i])
    <3>1. Asks(toSw[i], begun, refused)
      BY <1>t
    <3>2. toSw[i] \in MessagesOf(x)
      BY <3>1, <2>1, <2>2, <1>t DEF Asks, Message, Barrier
    <3>3. toSw[i].op # "error"
      BY <3>2, MessagesAre
    <3> QED
      BY <3>2, <3>3, <2>1, <2>2, <1>m DEF Before
  <2>3. CASE m.op = "stats" /\ ~Sets(x)
    <3>1. Rank(m) = 0
      BY <2>3 DEF Rank
    <3>2. \A i \in 1..Len(toSw) : toSw[i].xid # x
      <4> SUFFICES ASSUME NEW i \in 1..Len(toSw), toSw[i].xid = x PROVE FALSE
        OBVIOUS
      <4>1. Rank(toSw[i]) = 0
        BY <2>2, <2>3, MessagesAre
      <4> QED
        BY <4>1, <3>1, <2>2
    <3> QED
      BY <3>2, <2>3
  <2>4. CASE /\ m = Barrier(x, m.arg) /\ m.op = "barrier" /\ Sets(x) /\ m.arg \in 0..Wanted(x)
             /\ count[x] - 1 <= 0
    <3>1. Wanted(x) \in Nat /\ count[x] \in Int
      BY <1>t, WantedNat
    <3>2. m.arg + count[x] = Wanted(x) + 1
      BY <2>1, <2>4, TakesLeast DEF m
    <3>3. m.arg = Wanted(x)
      BY <3>1, <3>2, <2>4
    <3>4. Rank(m) = 2 * Wanted(x) + 1
      BY <3>3, <2>4 DEF Rank
    <3>5. \A i \in 1..Len(toSw) : toSw[i].xid # x
      <4> SUFFICES ASSUME NEW i \in 1..Len(toSw), toSw[i].xid = x PROVE FALSE
        OBVIOUS
      <4>1. Rank(toSw[i]) <= 2 * Wanted(x) + 1 /\ Rank(toSw[i]) \in Nat
        BY <2>2, <2>4, MessagesAre
      <4> QED
        BY <4>1, <3>1, <3>4, <2>2
    <3>6. x \notin refused
      <4> SUFFICES ASSUME x \in refused PROVE FALSE
        OBVIOUS
      <4>1. PICK j \in 1..Len(toCtl) : \A i \in 1..j : toCtl[i] # Barrier(x, Wanted(x))
        BY <2>1, <1>t DEF ErrorComesFirst
      <4>2. 1 \in 1..j
        BY <4>1
      <4> QED
        BY <4>1, <4>2, <3>3, <2>4, <1>m
    <3>7. /\ took[x] \in Nat /\ took[x] <= Wanted(x)
          /\ \A k \in 1..Wanted(x) : In(toSw, Message("add", x, k)) <=> took[x] < k
      BY <3>6, <2>1, <2>4, <1>t DEF RestOnTheWay
    <3>8. \A k : ~In(toSw, Message("add", x, k))
      BY <3>5 DEF In, Message
    <3>9. took[x] = Wanted(x)
      <4> SUFFICES ASSUME took[x] < Wanted(x) PROVE FALSE
        BY <3>1, <3>7
      <4>1. Wanted(x) \in 1..Wanted(x)
        BY <3>1, <3>7
      <4> QED
        BY <4>1, <3>7, <3>8
    <3> QED
      BY <3>5, <3>9
  <2> QED
    BY <2>1, <2>3, <2>4
<1> QED
  BY <1>1, <1>2

LEMMA ReceiveStep == ASSUME RequestsAssumption, RequestsInv, Receive PROVE RequestsInv'
<1>1. open' /\ RequestsTypes' /\ BegunOnce' /\ NobodyLeft' /\ OwnAnswer' /\ ChannelsInv'
  BY ReceiveDoes, ReceiveTypes, ReceiveTurn
<1>2. RestOnTheWay' /\ LastOneSets' /\ Settled' /\ BarriersOnTheWay' /\ ErrorComesFirst'
  BY ReceiveTable, ReceiveSettled, ReceiveAnswers
<1>3. TableSet'
  BY <1>1, <1>2, TableFollows
<1> QED
  BY <1>1, <1>2, <1>3 DEF RequestsInv, SwitchInv, AnswersInv

-----------------------------------------------------------------------------
LEMMA NextAnswers == ASSUME RequestsAssumption PROVE RequestsInv /\ [Next]_vars => RequestsInv'
<1> SUFFICES ASSUME RequestsInv, [Next]_vars PROVE RequestsInv'
  OBVIOUS
<1>1. CASE UNCHANGED vars
  <2>1. UNCHANGED <<later, begun, listeners, count, _response, outcome, toSw, toCtl, table, open,
                    shown, took, refused, set, late>>
    BY <1>1 DEF vars
  <2>2. RequestsTypes' /\ BegunOnce' /\ NobodyLeft'
    BY <2>1 DEF RequestsInv, AnswersInv, RequestsTypes, BegunOnce, NobodyLeft
  <2> QED
    BY <2>1, <2>2, ThreadAlone DEF RequestsInv, AnswersInv
<1>2. CASE \E r \in Request : Make(r) \/ Answered(r) \/ WaitEnds(r) \/ Abort(r)
  BY <1>2, ThreadSteps
<1>3. CASE Begin
  BY <1>3, BeginStep
<1>4. CASE Receive
  BY <1>4, ReceiveStep
<1>5. CASE SwitchTakes
  BY <1>5, SwitchStep
<1>6. CASE Close
  BY <1>6, CloseStep
<1> QED
  BY <1>1, <1>2, <1>3, <1>4, <1>5, <1>6 DEF Next

\* The switch took every flow of a request that has its result.
LEMMA AnswersSound == RequestsInv => AllTaken /\ OwnAnswer /\ NobodyLeft /\ TableSet
BY DEF RequestsInv, SwitchInv, AnswersInv, Settled, AllTaken, Sets, Wanted

\* For any requests, flows and tables: a request to set the table that is told all is well had
\* each of its flows taken, one for the flows gets those the switch showed it, the table is what
\* the last one wanted unless a flow was refused, and nobody is left listening (webservice.py,
\* OFSetTableRequest, OFFlowStatsRequest, OFConRequest).
THEOREM RequestsCorrect ==
  ASSUME RequestsAssumption
  PROVE  Spec => [](AllTaken /\ OwnAnswer /\ NobodyLeft /\ TableSet)
<1>1. Init => RequestsInv
  BY InitAnswers
<1>2. RequestsInv /\ [Next]_vars => RequestsInv'
  BY NextAnswers
<1> QED
  BY <1>1, <1>2, AnswersSound, PTL DEF Spec
=============================================================================
