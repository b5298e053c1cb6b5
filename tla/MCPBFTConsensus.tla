-------------------------- MODULE MCPBFTConsensus --------------------------
(***************************************************************************)
(* Instances of PBFTConsensus for TLC, and a reduced next-state relation   *)
(* that leaves out orders of steps which no property can tell apart.       *)
(***************************************************************************)
EXTENDS PBFTConsensus, TLC

CONSTANTS n1, n2, n3, n4,   \* nodes
          x1, x2,           \* transactions
          LeaderOrder,      \* the proposer of each height
          Receivers         \* the nodes that transactions are sent to

ThreeNodes == {n1, n2, n3}
FourNodes == {n1, n2, n3, n4}
Rotation == <<n1, n2, n1>>
LeavingNodeSecond == <<n1, n4, n1>>

\* The proposer is fixed for each height, another validator when that node is
\* not in force: hash[0] may choose any of them.
LeaderOfHeight(c, vs) ==
  LET p == LeaderOrder[Len(c) + 1]
  IN IF p \in vs THEN p ELSE CHOOSE v \in vs : v = n1 \/ n1 \notin vs

NoCommands == <<>>
\* Two commands for the runs with a changing validator set: n1 asks for
\* {n1, n2, n3}, and n4, which that leaves out, for {n2, n3, n4}.
TwoSets == (x1 :> {n1, n2, n3}) @@ (x2 :> {n2, n3, n4})
TwoSenders == (x1 :> n1) @@ (x2 :> n4)

SymmetricTransactions == Permutations({x1, x2})
SymmetricFollowers == Permutations({n3, n4}) \cup SymmetricTransactions

-----------------------------------------------------------------------------
(* The reduction.  A step of a node's state machine reads its own state and *)
(* adds to the sets of sent messages, so it commutes with every step of     *)
(* another node: it may be taken at once.  A vote that is handled before    *)
(* it can count has the same effect handled when it first counts, and one   *)
(* that can no longer count has none.                                       *)

HandleCountedVote(n) ==
  \/ /\ state[n] = "Prepared"
     /\ \E v \in Node : ReceivePrepare(n, v, currentHash[n])
  \/ /\ state[n] = "Committed"
     /\ \E v \in Node : ReceiveCommit(n, v, currentHash[n])

\* A PrePrepare of a block the node holds changes nothing either.
HandleNewPrePrepare(n) ==
  \E msg \in ReachingBlocks(n) :
    /\ msg[1] \notin blockPool[n]
    /\ AcceptPrePrepare(n, msg[1], msg[2]) \/ DropPrePrepare(n, msg[1], msg[2])

AllSettled == \A n \in Correct : Settled(n)

ReducedNext ==
  \/ \E n \in Correct : ~Settled(n) /\ Step(n)
  \/ \E n \in Receivers \ Faulty : HandleTransaction(n)
  \/ /\ AllSettled
     /\ \E n \in Correct :
          \/ Propose(n)
          \/ HandleNewPrePrepare(n)
          \/ HandleCountedVote(n)
ReducedSpec == Init /\ [][ReducedNext]_vars

\* The state without the votes and messages that no step will read again.
Counted(n) ==
  {w \in IF state[n] = "Prepared" THEN preparePool[n]
         ELSE IF state[n] = "Committed" THEN commitPool[n] ELSE {} :
     w[2] = currentHash[n]}
ReducedView ==
  <<ledgerVars, roundVars, blockPool, [n \in Correct |-> Counted(n)],
    txVars, {m \in preprepares : m.block \notin blockPool[m.to]},
    prepares, commits>>

\* As ReducedNext, where a PrePrepare waits until its parent is finalized at
\* its receiver: only a failing replica still drops one.
DropByReplica(n) ==
  \E msg \in ReachingBlocks(n) :
    IsValidNewBlock(n, msg[1], msg[2]) /\ DropPrePrepare(n, msg[1], msg[2])
AcceptSome(n) ==
  \E msg \in ReachingBlocks(n) : AcceptPrePrepare(n, msg[1], msg[2])
InOrderNext ==
  \/ \E n \in Correct : ~Settled(n) /\ Step(n)
  \/ /\ AllSettled
     /\ \E n \in Correct :
          \/ Propose(n)
          \/ n \in Receivers /\ HandleTransaction(n)
          \/ AcceptSome(n)
          \/ DropByReplica(n)
          \/ HandleCountedVote(n)

\* Goroutines run while they have something to do, the network delivers, and
\* the dealer sends every transaction to every node.
InOrderSpec ==
  /\ Init /\ [][InOrderNext]_vars
  /\ \A n \in Correct :
       /\ WF_vars(Step(n))
       /\ WF_vars(AcceptSome(n) \/ DropByReplica(n))
       /\ WF_vars(HandleCountedVote(n))
       /\ \A x \in Tx : WF_vars(ReceiveDealerTransaction(n, x))
=============================================================================
