--------------------------- MODULE PBFTConsensus ---------------------------
(***************************************************************************)
(* The replicated consensus of the control plane: what every PBFT node of  *)
(* Sabine_ODL_Fork/source/Blockchain/Consensus does with transactions,     *)
(* PrePrepare, Prepare and Commit messages, and the block chain, proposer  *)
(* and validator set it derives from them.                                 *)
(*                                                                         *)
(* A block's hash covers its transactions, its timestamp and the hash of   *)
(* its parent (block.go, hashBlock), and SHA-256 has no collisions, so a   *)
(* block is the sequence of payloads from the first block to itself: a     *)
(* block and the chain that ends in it are the same value, genesis is the  *)
(* empty sequence, and the parent of b is Front(b).                        *)
(*                                                                         *)
(* Two goroutines of a node touch this state.  MsgHandlerGoroutine handles *)
(* one message and then runs the state machine until no step is left       *)
(* (updateStatusWithMsg); transactionHandler, concurrently, checks a       *)
(* client's transaction and then adds it to the pool.                      *)
(*                                                                         *)
(* Configuration modelled: PoANV = FALSE and RamOpt = FALSE (the defaults  *)
(* of cmd/node.go); control feedback is off (its default, FCB = FALSE).    *)
(***************************************************************************)
EXTENDS Integers, FiniteSets, Sequences, SequencesExt

CONSTANTS
  Node,             \* every node of the network, numberOfNode of them
  Faulty,           \* those that do not run this code; silent or not
  Tx,               \* transactions
  Command,          \* those whose input is a Commande
  VarieValid,       \* commands that replace the validator set
  NewValidatorSet,  \* [VarieValid -> SUBSET Node]
  CommandSender,    \* [Command -> Node], TransaCore.From
  Sdn,              \* transactions that carry an SdnControlInput
  Link,             \* transactions that carry a LinkEventInput
  Stamp,            \* what else the hash covers: the block's Timestamp
  NoTx,             \* "transactionHandler is idle"
  BlockSize,        \* config.BlockSize
  TransactionThreshold, \* config.TransactionThreshold
  MinValidators,    \* the 4 of Validators.IsSizeValid
  Pick(_, _),       \* Pick(c, vs): member hash(c)[0] % |vs| of the sorted vs
  ReplicaMayFail,   \* nodes whose CalculateAction may fail or time out
  Broadcast,        \* consensus.Broadcast: receivers send messages on
  MaxHeight         \* bound of the model on the length of a chain

Correct == Node \ Faulty
DealerTx == Sdn \cup Link

\* What one block adds to its parent.  getTxForBloc puts a command into a
\* block of its own; that no block holds two is assumed of faulty proposers.
Payload == {d \in [txs : SUBSET Tx, stamp : Stamp] :
              \A c1, c2 \in d.txs \cap Command : c1 = c2}
Block == UNION {[1..k -> Payload] : k \in 0..MaxHeight}

IsSizeValid(size) == MinValidators <= size /\ size <= Cardinality(Node)

\* The validator sets a command can bring into force.
LegalSets == {Node} \cup
  {NewValidatorSet[c] : c \in {x \in VarieValid :
                                 IsSizeValid(Cardinality(NewValidatorSet[x]))}}

ASSUME NodeAssumption == IsFiniteSet(Node) /\ Faulty \subseteq Node
ASSUME TxAssumption ==
  /\ IsFiniteSet(Tx)
  /\ Command \subseteq Tx /\ Sdn \subseteq Tx /\ Link \subseteq Tx
  /\ VarieValid \subseteq Command
  /\ Command \cap (Sdn \cup Link) = {}
  /\ NewValidatorSet \in [VarieValid -> SUBSET Node]
  /\ CommandSender \in [Command -> Node]
  /\ NoTx \notin Tx
ASSUME BoundAssumption ==
  /\ BlockSize \in Nat \ {0} /\ TransactionThreshold \in Nat
  /\ MinValidators \in Nat \ {0} /\ MaxHeight \in Nat
  /\ ReplicaMayFail \subseteq Node /\ Broadcast \in BOOLEAN
\* Fewer than a third of the validators in force are faulty.
ASSUME FaultAssumption ==
  \A vs \in LegalSets : 3 * Cardinality(vs \cap Faulty) < Cardinality(vs)
ASSUME PickAssumption ==
  \A c \in Block, vs \in LegalSets : Pick(c, vs) \in vs

VARIABLES
  \* the state of each correct node
  state,       \* consensus.state, of the four that PoANV = FALSE reaches
  currentHash, \* consensus.currentHash; the empty block before the first
  chain,       \* BlockChain
  validators,  \* Validators.isActiveValidatorMap
  proposer,    \* BlockChain.proposer
  blockPool,   \* BlockPool
  preparePool, \* PreparePool, a set of <<voter, block>>
  commitPool,  \* CommitPool
  txPool,      \* TransactionPool, commands included
  intake,      \* the transaction transactionHandler has checked, not yet added
  effects,     \* <<x, h>>: the goroutine started for SDN or link transaction x
               \* when block h was finalized
  \* the network
  preprepares, \* PrePrepare messages sent by correct nodes and not handled yet
  prepares,    \* Prepare votes sent by correct nodes
  commits      \* Commit votes sent by correct nodes

ledgerVars == <<chain, validators, proposer, effects>>
roundVars == <<state, currentHash>>
poolVars == <<blockPool, preparePool, commitPool>>
txVars == <<txPool, intake>>
netVars == <<preprepares, prepares, commits>>
vars == <<ledgerVars, roundVars, poolVars, txVars, netVars>>

TypeOK ==
  /\ state \in [Correct ->
                  {"NewRound", "NewRoundProposer", "Prepared", "Committed"}]
  /\ currentHash \in [Correct -> Block]
  /\ chain \in [Correct -> Block]
  /\ validators \in [Correct -> LegalSets]
  /\ proposer \in [Correct -> Node]
  /\ blockPool \in [Correct -> SUBSET Block]
  /\ preparePool \in [Correct -> SUBSET (Node \X Block)]
  /\ commitPool \in [Correct -> SUBSET (Node \X Block)]
  /\ txPool \in [Correct -> SUBSET Tx]
  /\ intake \in [Correct -> Tx \cup {NoTx}]
  /\ effects \in [Correct -> SUBSET (Tx \X Nat)]
  /\ preprepares \subseteq [from : Correct, to : Correct, signer : Node,
                            block : Block]
  /\ prepares \subseteq Correct \X Block
  /\ commits \subseteq Correct \X Block

-----------------------------------------------------------------------------
(* What a node reads off its state. *)

Executed(c) == UNION {c[i].txs : i \in 1..Len(c)}    \* executedTx

\* verifyAsCommand: an active validator asks for a set of known nodes of a
\* valid size.  The other order, ChangeDelay, has no condition on the set.
VerifyAsCommand(x, vs) ==
  /\ CommandSender[x] \in vs
  /\ x \in VarieValid => NewValidatorSet[x] \in LegalSets

\* apply, for the commands of a block that has just been added.
Apply(d, vs) ==
  IF \E x \in d.txs \cap VarieValid : NewValidatorSet[x] \in LegalSets
  THEN NewValidatorSet[CHOOSE x \in d.txs \cap VarieValid :
                         NewValidatorSet[x] \in LegalSets]
  ELSE vs

\* Mutant: only the pool is asked.
IsNotPooled(n, x) == x \notin txPool[n]

IsNewTx(n, x) == x \notin txPool[n] /\ x \notin Executed(chain[n])

\* Mutants: the + 1 forgotten; everyone's approval required.
TwoThirds(vs) == (Cardinality(vs) * 2) \div 3
Unanimity(vs) == Cardinality(vs)

\* CoreConsensus.MinApprovals
MinApprovals(vs) == (Cardinality(vs) * 2) \div 3 + 1

\* Mutant: confirm keeps the votes of inactive nodes too.
VotesOfAll(pool, b, vs) == {v \in Node : <<v, b>> \in pool}

\* GetNbPrepareOfHashOfActive, the same function in both vote pools: votes
\* are kept by signature, and a node signs a hash in one way only.
VotesOfActive(pool, b, vs) == {v \in vs : <<v, b>> \in pool}
Approved(pool, b, vs) ==
  Cardinality(VotesOfActive(pool, b, vs)) >= MinApprovals(vs)

IsNextBlock(n, b) == b # <<>> /\ Front(b) = chain[n]
IsValidNewBlock(n, b, signer) == IsNextBlock(n, b) /\ signer = proposer[n]

\* giveMeNext of NewRound.  The proposer of a pooled block was checked when
\* it was received, and has not changed while it is the next block.
NextBlocks(n) == {b \in blockPool[n] : IsNextBlock(n, b)}

\* giveMeNext of Committed.
CanFinalize(n) ==
  /\ state[n] = "Committed"
  /\ Approved(commitPool[n], currentHash[n], validators[n])
  /\ currentHash[n] \in blockPool[n]

\* updateStatusWithMsg leaves the state machine where no step is possible, so
\* that is where the next message finds it.  A proposer may still have
\* transactions: transactionHandler adds them between two messages.
Settled(n) ==
  /\ state[n] = "NewRound" => NextBlocks(n) = {}
  /\ state[n] = "Prepared" =>
       ~Approved(preparePool[n], currentHash[n], validators[n])
  /\ ~CanFinalize(n)

\* Mutant: FinalCommitted is kept.
StaysCommitted(n, leader) == "FinalCommitted"

\* updateStateAfterCommit
NextState(n, leader) == IF n = leader THEN "NewRoundProposer" ELSE "NewRound"

Init ==
  /\ chain = [n \in Correct |-> <<>>]
  /\ validators = [n \in Correct |-> Node]
  /\ proposer = [n \in Correct |-> Pick(<<>>, Node)]
  /\ state = [n \in Correct |-> NextState(n, Pick(<<>>, Node))]
  /\ currentHash = [n \in Correct |-> <<>>]
  /\ blockPool = [n \in Correct |-> {}]
  /\ preparePool = [n \in Correct |-> {}]
  /\ commitPool = [n \in Correct |-> {}]
  /\ txPool = [n \in Correct |-> {}]
  /\ intake = [n \in Correct |-> NoTx]
  /\ effects = [n \in Correct |-> {}]
  /\ preprepares = {}
  /\ prepares = {}
  /\ commits = {}

-----------------------------------------------------------------------------
(* Transactions. *)

\* addTransaction: commands and other transactions have a threshold each.
AddToPool(n, x) ==
  LET kin == IF x \in Command THEN txPool[n] \cap Command
                              ELSE txPool[n] \ Command
  IN txPool' = [txPool EXCEPT ![n] =
       IF Cardinality(kin) < TransactionThreshold THEN @ \cup {x} ELSE @]

\* A dealer's transaction has priority: MsgHandlerGoroutine handles it, so
\* the check and the addition are one step.
ReceiveDealerTransaction(n, x) ==
  /\ Settled(n)
  /\ x \in DealerTx
  /\ IsNewTx(n, x)
  /\ AddToPool(n, x)
  /\ UNCHANGED <<ledgerVars, roundVars, poolVars, intake, netVars>>

\* transactionHandler, first half: receiveTransacMess decides that x is new.
CheckTransaction(n, x) ==
  /\ intake[n] = NoTx
  /\ x \in Tx \ DealerTx
  /\ IsNewTx(n, x)
  /\ x \in Command => VerifyAsCommand(x, validators[n])
  /\ intake' = [intake EXCEPT ![n] = x]
  /\ UNCHANGED <<ledgerVars, roundVars, poolVars, txPool, netVars>>

\* transactionHandler, second half: ReceiveTrustedMess adds it to the pool.
AddTransaction(n) ==
  /\ intake[n] # NoTx
  /\ AddToPool(n, intake[n])
  /\ intake' = [intake EXCEPT ![n] = NoTx]
  /\ UNCHANGED <<ledgerVars, roundVars, poolVars, netVars>>

-----------------------------------------------------------------------------
(* The messages of the consensus. *)

\* The PrePrepare of block b signed by s that node n handles leaves the
\* network, and the messages in sent enter it.  Only the copies that correct
\* nodes sent are tracked: a faulty proposer may send anything at any time.
Deliver(n, b, s, sent) ==
  \/ \E m \in preprepares :
       /\ m.to = n /\ m.block = b /\ m.signer = s
       /\ preprepares' = (preprepares \ {m}) \cup sent
  \/ s \in Faulty /\ preprepares' = preprepares \cup sent

PrePrepares(n, b, s) ==
  {[from |-> n, to |-> m, signer |-> s, block |-> b] : m \in Correct \ {n}}

\* receivePrePrepareMessage when the block is new and valid and no replica
\* call failed: the block goes to the pool and, with Broadcast, to the others.
AcceptPrePrepare(n, b, s) ==
  /\ Settled(n)
  /\ Len(chain[n]) < MaxHeight
  /\ b \notin blockPool[n]
  /\ IsValidNewBlock(n, b, s)
  /\ blockPool' = [blockPool EXCEPT ![n] = @ \cup {b}]
  /\ Deliver(n, b, s, IF Broadcast THEN PrePrepares(n, b, s) ELSE {})
  /\ UNCHANGED <<ledgerVars, roundVars, preparePool, commitPool, txVars,
                 prepares, commits>>

\* receivePrePrepareMessage otherwise.  The block is not kept: one that comes
\* before its parent is finalized here, or whose SDN action the replica failed
\* to compute, is gone unless another copy arrives.
DropPrePrepare(n, b, s) ==
  /\ Settled(n)
  /\ \/ b \in blockPool[n]
     \/ ~IsValidNewBlock(n, b, s)
     \/ n \in ReplicaMayFail /\ Last(b).txs \cap Sdn # {}
  /\ \E m \in preprepares : m.to = n /\ m.block = b /\ m.signer = s
  /\ Deliver(n, b, s, {})
  /\ UNCHANGED <<ledgerVars, roundVars, poolVars, txVars, prepares, commits>>

\* A vote of v for b can reach n.  What a faulty node votes for matters only
\* when n holds the block.  Votes at or below the height of n's chain are
\* stored by the code and never counted again: the model leaves them out.
CanReceive(n, v, b, sent) ==
  /\ Settled(n)
  /\ Len(b) > Len(chain[n])
  /\ v # n
  /\ <<v, b>> \in sent \/ (v \in Faulty /\ b \in blockPool[n])

\* receivePrepareMessage
ReceivePrepare(n, v, b) ==
  /\ CanReceive(n, v, b, prepares)
  /\ <<v, b>> \notin preparePool[n]
  /\ preparePool' = [preparePool EXCEPT ![n] = @ \cup {<<v, b>>}]
  /\ UNCHANGED <<ledgerVars, roundVars, blockPool, commitPool, txVars, netVars>>

\* receiveCommitMessage
ReceiveCommit(n, v, b) ==
  /\ CanReceive(n, v, b, commits)
  /\ <<v, b>> \notin commitPool[n]
  /\ commitPool' = [commitPool EXCEPT ![n] = @ \cup {<<v, b>>}]
  /\ UNCHANGED <<ledgerVars, roundVars, blockPool, preparePool, txVars, netVars>>

-----------------------------------------------------------------------------
(* The state machine: giveMeNext finds a payload, update acts on it. *)

\* Mutant: building a block empties the pool.
SelectionEmptiesPool(pool, vs) == [txs : {{x} : x \in pool}, stale : {pool}]

\* getTxForBloc: the first command found valid, alone, after deleting the
\* stale ones met on the way (a map is read in any order); without a valid
\* command, BlockSize transactions, or all when there are fewer.  Which ones
\* (the oldest) is left open.
Selection(pool, vs) ==
  LET valid == {x \in pool \cap Command : VerifyAsCommand(x, vs)}
      stale == (pool \cap Command) \ valid
      plain == pool \ Command
  IN IF valid # {}
     THEN [txs : {{x} : x \in valid}, stale : SUBSET stale]
     ELSE [txs : {ts \in SUBSET plain :
                    \/ Cardinality(ts) = BlockSize
                    \/ Cardinality(ts) < BlockSize /\ ts = plain},
           stale : {stale}]

\* NewRoundProposer: build a block on the chain and send it to the others.
Propose(n) ==
  /\ state[n] = "NewRoundProposer"
  /\ txPool[n] # {}
  /\ Len(chain[n]) < MaxHeight
  /\ \E sel \in Selection(txPool[n], validators[n]), t \in Stamp :
       LET b == Append(chain[n], [txs |-> sel.txs, stamp |-> t])
       IN /\ currentHash' = [currentHash EXCEPT ![n] = b]
          /\ blockPool' = [blockPool EXCEPT ![n] = @ \cup {b}]
          /\ preprepares' = preprepares \cup PrePrepares(n, b, n)
          /\ txPool' = [txPool EXCEPT ![n] = @ \ sel.stale]
  /\ state' = [state EXCEPT ![n] = "NewRound"]
  /\ UNCHANGED <<ledgerVars, preparePool, commitPool, intake, prepares, commits>>

\* Mutant: a later PrePrepare of the height replaces the one prepared.
SendPrepareAgain(n) ==
  /\ state[n] \in {"NewRound", "Prepared"}
  /\ \E b \in NextBlocks(n) \ {currentHash[n]} :
       /\ currentHash' = [currentHash EXCEPT ![n] = b]
       /\ preparePool' = [preparePool EXCEPT ![n] = @ \cup {<<n, b>>}]
       /\ prepares' = prepares \cup {<<n, b>>}
  /\ state' = [state EXCEPT ![n] = "Prepared"]
  /\ UNCHANGED <<ledgerVars, blockPool, commitPool, txVars, preprepares, commits>>

\* NewRound: vote Prepare for the next block.
SendPrepare(n) ==
  /\ state[n] = "NewRound"
  /\ \E b \in NextBlocks(n) :
       /\ currentHash' = [currentHash EXCEPT ![n] = b]
       /\ preparePool' = [preparePool EXCEPT ![n] = @ \cup {<<n, b>>}]
       /\ prepares' = prepares \cup {<<n, b>>}
  /\ state' = [state EXCEPT ![n] = "Prepared"]
  /\ UNCHANGED <<ledgerVars, blockPool, commitPool, txVars, preprepares, commits>>

\* Prepared: enough Prepare votes, vote Commit.
SendCommit(n) ==
  /\ state[n] = "Prepared"
  /\ Approved(preparePool[n], currentHash[n], validators[n])
  /\ commitPool' = [commitPool EXCEPT ![n] = @ \cup {<<n, currentHash[n]>>}]
  /\ commits' = commits \cup {<<n, currentHash[n]>>}
  /\ state' = [state EXCEPT ![n] = "Committed"]
  /\ UNCHANGED <<ledgerVars, currentHash, blockPool, preparePool, txVars,
                 preprepares, prepares>>

\* The rest of Committed.update for a block b: start the goroutines of its SDN
\* and link transactions, add it to the chain, flush its transactions from
\* the pool, and go on with validators vs, a proposer, and a state.
AddUpdatedBlock(n, b, vs, leader, st) ==
  /\ effects' = [effects EXCEPT ![n] =
                   @ \cup ((Last(b).txs \cap DealerTx) \X {Len(b)})]
  /\ chain' = [chain EXCEPT ![n] = b]
  /\ txPool' = [txPool EXCEPT ![n] = @ \ Last(b).txs]
  /\ validators' = [validators EXCEPT ![n] = vs]
  /\ proposer' = [proposer EXCEPT ![n] = leader]
  /\ state' = [state EXCEPT ![n] = st]
  /\ UNCHANGED <<currentHash, poolVars, intake, netVars>>

\* Mutant: updateProposer runs before the block's command is applied.
FinalizeProposerFirst(n) ==
  /\ CanFinalize(n)
  /\ LET b == currentHash[n]
         leader == Pick(b, validators[n])
     IN AddUpdatedBlock(n, b, Apply(Last(b), validators[n]), leader,
                        NextState(n, leader))

\* Mutant: updateStateAfterCommit asks IsProposer before updateProposer.
FinalizeStateFirst(n) ==
  /\ CanFinalize(n)
  /\ LET b == currentHash[n]
         vs == Apply(Last(b), validators[n])
     IN AddUpdatedBlock(n, b, vs, Pick(b, vs), NextState(n, proposer[n]))

\* Committed: enough Commit votes and the block is in the pool.  Commands take
\* effect, then the next proposer is chosen, then the next round starts.
Finalize(n) ==
  /\ CanFinalize(n)
  /\ LET b == currentHash[n]
         vs == Apply(Last(b), validators[n])
         leader == Pick(b, vs)
     IN AddUpdatedBlock(n, b, vs, leader, NextState(n, leader))

-----------------------------------------------------------------------------

Step(n) == Propose(n) \/ SendPrepare(n) \/ SendCommit(n) \/ Finalize(n)

HandleTransaction(n) ==
  \/ \E x \in Tx : ReceiveDealerTransaction(n, x) \/ CheckTransaction(n, x)
  \/ AddTransaction(n)

\* The PrePrepares that can reach n: those in flight, and those a faulty
\* proposer of the next block may have built.
ReachingBlocks(n) ==
  {<<m.block, m.signer>> : m \in {p \in preprepares : p.to = n}} \cup
  (IF proposer[n] \in Faulty
   THEN {<<Append(chain[n], d), proposer[n]>> : d \in Payload} ELSE {})

HandlePrePrepare(n) ==
  \E msg \in ReachingBlocks(n) :
    AcceptPrePrepare(n, msg[1], msg[2]) \/ DropPrePrepare(n, msg[1], msg[2])

HandleVote(n) ==
  \/ \E w \in prepares : ReceivePrepare(n, w[1], w[2])
  \/ \E w \in commits : ReceiveCommit(n, w[1], w[2])
  \/ \E v \in Faulty, b \in blockPool[n] :
       ReceivePrepare(n, v, b) \/ ReceiveCommit(n, v, b)

Next == \E n \in Correct :
  Step(n) \/ HandleTransaction(n) \/ HandlePrePrepare(n) \/ HandleVote(n)

Spec == Init /\ [][Next]_vars

-----------------------------------------------------------------------------
(* Correctness. *)

Prefix(c, k) == SubSeq(c, 1, k)

\* The validator set after chain c: that of the last command that changed it.
Reconfigurations(c) ==
  {k \in 1..Len(c) : \E x \in c[k].txs \cap VarieValid :
                       NewValidatorSet[x] \in LegalSets}
ActiveAfter(c) ==
  IF Reconfigurations(c) = {} THEN Node
  ELSE Apply(c[Max(Reconfigurations(c))], Node)

\* More than two thirds of the validators in force voted for b, where nobody
\* knows what the faulty ones voted.
Certified(b, sent) ==
  LET vs == ActiveAfter(Front(b))
      voters == {v \in vs : v \in Faulty \/ <<v, b>> \in sent}
  IN 3 * Cardinality(voters) > 2 * Cardinality(vs)

\* Correct nodes never finalize different blocks at one height: of any two
\* chains one is a prefix of the other (Committed.update, States.go:189-270).
Agreement ==
  \A m, n \in Correct : IsPrefix(chain[m], chain[n]) \/ IsPrefix(chain[n], chain[m])

\* Every finalized block carries Commit votes of more than two thirds of the
\* validators in force at ITS height, whatever commands ran before or since
\* (CommitPool.go:148-155, CoreConsensus.go:81-83).
CommitCertificate ==
  \A n \in Correct : \A k \in 1..Len(chain[n]) :
    Certified(Prefix(chain[n], k), commits)

\* No correct node votes Commit for a block that fewer than two thirds of the
\* validators of its height prepared (Prepared.giveMeNext, States.go:144-150).
PrepareCertificate == \A w \in commits : Certified(w[2], prepares)

\* A correct node votes for one block per height, in each phase, even when a
\* proposer sends several (NewRound and Prepared, States.go:63-98, 144-167).
OneVotePerHeight ==
  \A sent \in {prepares, commits} : \A w1, w2 \in sent :
    w1[1] = w2[1] /\ Len(w1[2]) = Len(w2[2]) => w1 = w2

\* The validators and the proposer a node works with are those its chain
\* determines, so that nodes with one chain wait for one proposer and count
\* the same votes: commands are applied before the proposer is chosen
\* (blockchain.go:196-200, 202-222, 430-479).
ViewFollowsChain ==
  \A n \in Correct :
    /\ validators[n] = ActiveAfter(chain[n])
    /\ proposer[n] = Pick(chain[n], ActiveAfter(chain[n]))

\* A transaction is in at most one block (test validator_test.go:66-72 counts
\* the transactions of every chain).  Receivers of a block do not check this
\* (block.go:82-99): it rests on what correct nodes let into their pools.
ExecutedOnce ==
  \A n \in Correct : \A i, j \in 1..Len(chain[n]) :
    chain[n][i].txs \cap chain[n][j].txs # {} => i = j

\* A dealer's transaction is reported, or the replica notified of it, at one
\* height only, the same at every node (States.go:200-251).
EffectsOnce ==
  \A m, n \in Correct : \A e1 \in effects[m], e2 \in effects[n] :
    e1[1] = e2[1] => e1 = e2

\* A transaction leaves a node's pool only in the step that executes it there,
\* unless it is a command that its sender may no longer give
\* (blockchain.go:202-222, TransactionPool.go:343-440).
LeavesPoolWhenExecuted ==
  [][\A n \in Correct : \A x \in txPool[n] \ txPool'[n] :
       \/ x \in Executed(chain'[n])
       \/ x \in Command /\ ~VerifyAsCommand(x, validators[n])]_vars

\* What Test/validator_test.go:56-81 expects after WaitUntilEmpty: when every
\* node has received every transaction and nothing is left to do or to handle,
\* the pools are empty, but for those of nodes whose replica failed them.  (A
\* vote a node will not count, or a block it holds, changes nothing.)
NothingToDo(n) ==
  /\ Settled(n)
  /\ state[n] = "NewRoundProposer" => txPool[n] = {} \/ Len(chain[n]) = MaxHeight
  /\ intake[n] = NoTx
  /\ \A m \in preprepares : m.to = n => m.block \in blockPool[n]
  /\ state[n] = "Prepared" =>
       \A w \in prepares : w[2] = currentHash[n] => w \in preparePool[n]
  /\ state[n] = "Committed" =>
       \A w \in commits : w[2] = currentHash[n] => w \in commitPool[n]
EmptyWhenDone ==
  (\A n \in Correct : NothingToDo(n) /\ \A x \in Tx : ~IsNewTx(n, x))
    => \A n \in Correct \ ReplicaMayFail : txPool[n] = {}

\* Every transaction is in the end executed by every node whose replica
\* answers.  The runs state what it takes: fairness, PrePrepares handled in
\* the order of their heights, and every node receiving every transaction.
EventuallyExecuted ==
  \A n \in Correct \ ReplicaMayFail : \A x \in Tx : <>(x \in Executed(chain[n]))

\* The consensus implements one growing ledger that every node copies in
\* order: the ledger is the longest chain of a correct node.
LongestChain ==
  CHOOSE c \in {chain[n] : n \in Correct} : \A n \in Correct : Len(chain[n]) <= Len(c)
Ledger == INSTANCE ReplicatedLedger
            WITH Replica <- Correct, Entry <- Payload,
                 ledger <- LongestChain, copy <- chain
ImplementsLedger == Ledger!Spec

=============================================================================
