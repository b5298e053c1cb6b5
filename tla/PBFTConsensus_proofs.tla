------------------------ MODULE PBFTConsensus_proofs ------------------------
(***************************************************************************)
(* Theorems of PBFTConsensus for every set of nodes and transactions,      *)
(* every validator set a command may bring into force, every choice of the *)
(* proposer and every behaviour of the faulty nodes.                       *)
(***************************************************************************)
EXTENDS PBFTConsensus, FiniteSetTheorems, SequenceTheorems,
        WellFoundedInduction, TLAPS

-----------------------------------------------------------------------------
(* Blocks are sequences. *)

\* A block is a sequence of payloads no longer than MaxHeight.
LEMMA BlockIsSeq ==
  ASSUME NEW b \in Block
  PROVE  /\ b \in Seq(Payload)
         /\ Len(b) \in 0..MaxHeight
         /\ b \in [1..Len(b) -> Payload]
         /\ \A i \in 1..Len(b) : b[i] \in Payload
<1>1. PICK k \in 0..MaxHeight : b \in [1..k -> Payload]
  BY DEF Block
<1>2. k \in Nat
  BY BoundAssumption
<1>3. b \in Seq(Payload) /\ Len(b) = k
  BY <1>1, <1>2
<1> QED
  BY <1>1, <1>3

\* Conversely, a short enough sequence of payloads is a block.
LEMMA SeqIsBlock ==
  ASSUME NEW b \in Seq(Payload), Len(b) <= MaxHeight
  PROVE  b \in Block
BY BoundAssumption DEF Block

\* Genesis is a block.
LEMMA EmptyIsBlock == <<>> \in Block /\ Len(<<>>) = 0
<1>1. <<>> \in Seq(Payload) /\ Len(<<>>) = 0
  BY EmptySeq
<1>2. Len(<<>>) <= MaxHeight
  BY <1>1, BoundAssumption
<1> QED
  BY <1>1, <1>2, SeqIsBlock

\* A payload extends a block below MaxHeight to a block one higher, and
\* changes nothing of it.
LEMMA AppendIsBlock ==
  ASSUME NEW c \in Block, NEW d \in Payload, Len(c) < MaxHeight
  PROVE  /\ Append(c, d) \in Block
         /\ Append(c, d) # <<>>
         /\ Len(Append(c, d)) = Len(c) + 1
         /\ \A i \in 1..Len(c) : Append(c, d)[i] = c[i]
         /\ Append(c, d)[Len(c) + 1] = d
<1>1. c \in Seq(Payload)
  BY BlockIsSeq
<1>2. /\ Append(c, d) \in Seq(Payload)
      /\ Len(Append(c, d)) = Len(c) + 1
  BY <1>1
<1>3. Len(Append(c, d)) <= MaxHeight
  BY <1>2, BlockIsSeq, BoundAssumption
<1>4. Append(c, d) \in Block
  BY <1>2, <1>3, SeqIsBlock
<1>5. /\ \A i \in 1..Len(c) : Append(c, d)[i] = c[i]
      /\ Append(c, d)[Len(c) + 1] = d
  BY <1>1
<1>6. Append(c, d) # <<>>
  BY <1>1, <1>2, EmptySeq
<1> QED
  BY <1>2, <1>4, <1>5, <1>6

\* Two blocks of one height with the same payloads are the same block.
LEMMA BlockEqual ==
  ASSUME NEW b1 \in Block, NEW b2 \in Block, Len(b1) = Len(b2),
         \A i \in 1..Len(b1) : b1[i] = b2[i]
  PROVE  b1 = b2
BY BlockIsSeq, SeqEqual

\* What the prefixes of a block are.
LEMMA PrefixOfBlock ==
  ASSUME NEW b \in Block, NEW k \in 0..Len(b)
  PROVE  /\ Prefix(b, k) \in Block
         /\ Len(Prefix(b, k)) = k
         /\ \A i \in 1..k : Prefix(b, k)[i] = b[i]
<1>1. \A i \in 1..k : b[i] \in Payload
  BY BlockIsSeq
<1>2. k \in Int
  BY BlockIsSeq
<1>3. /\ SubSeq(b, 1, k) \in Seq(Payload)
      /\ Len(SubSeq(b, 1, k)) = IF 1 <= k THEN k - 1 + 1 ELSE 0
      /\ \A i \in 1..(k - 1 + 1) : SubSeq(b, 1, k)[i] = b[1 + i - 1]
  BY <1>1, <1>2, SubSeqProperties
<1>4. Len(SubSeq(b, 1, k)) = k
  BY <1>3, BlockIsSeq
<1>5. \A i \in 1..k : SubSeq(b, 1, k)[i] = b[i]
  BY <1>2, <1>3
<1>6. Len(SubSeq(b, 1, k)) <= MaxHeight
  BY <1>4, BlockIsSeq, BoundAssumption
<1>7. SubSeq(b, 1, k) \in Block
  BY <1>3, <1>6, SeqIsBlock
<1> QED
  BY <1>4, <1>5, <1>7 DEF Prefix

\* A chain is a prefix of another when it has the same payload at each height.
LEMMA PrefixPointwise ==
  ASSUME NEW b \in Block, NEW c \in Block
  PROVE  IsPrefix(b, c) <=>
           /\ Len(b) <= Len(c)
           /\ \A i \in 1..Len(b) : b[i] = c[i]
<1>1. ASSUME Len(b) <= Len(c)
      PROVE  (SubSeq(b, 1, Len(b)) = SubSeq(c, 1, Len(b)))
               <=> \A i \in 1..Len(b) : b[i] = c[i]
  <2>1. Len(b) \in 0..Len(c) /\ Len(b) \in 0..Len(b)
    BY <1>1, BlockIsSeq
  <2>2. Prefix(b, Len(b)) = b
    BY <2>1, PrefixOfBlock, BlockEqual
  <2>3. Prefix(c, Len(b)) = b <=> \A i \in 1..Len(b) : b[i] = c[i]
    BY <2>1, PrefixOfBlock, BlockEqual
  <2> QED
    BY <2>2, <2>3 DEF Prefix
<1> QED
  BY <1>1 DEF IsPrefix

\* The parent of a block, and the payload the block adds to it.
LEMMA ParentOfBlock ==
  ASSUME NEW b \in Block, b # <<>>
  PROVE  /\ Len(b) \in Nat \ {0}
         /\ Front(b) \in Block
         /\ Len(b) = Len(Front(b)) + 1
         /\ \A i \in 1..Len(Front(b)) : Front(b)[i] = b[i]
         /\ Last(b) = b[Len(b)]
         /\ Last(b) \in Payload
<1>1. Len(b) \in Nat \ {0}
  BY BlockIsSeq, EmptySeq
<1>2. Len(b) - 1 \in 0..Len(b)
  BY <1>1
<1>3. /\ Front(b) \in Block
      /\ Len(Front(b)) = Len(b) - 1
      /\ \A i \in 1..(Len(b) - 1) : Front(b)[i] = b[i]
  BY <1>2, PrefixOfBlock DEF Front, Prefix
<1>4. Last(b) = b[Len(b)] /\ Last(b) \in Payload
  BY <1>1, BlockIsSeq DEF Last
<1> QED
  BY <1>1, <1>3, <1>4

\* The parent of the block that a payload makes is the block it extends.
LEMMA FrontOfAppend ==
  ASSUME NEW c \in Block, NEW d \in Payload, Len(c) < MaxHeight
  PROVE  Front(Append(c, d)) = c /\ Last(Append(c, d)) = d
<1> DEFINE b == Append(c, d)
<1>1. /\ b \in Block /\ b # <<>> /\ Len(b) = Len(c) + 1
      /\ \A i \in 1..Len(c) : b[i] = c[i]
      /\ b[Len(c) + 1] = d
  BY AppendIsBlock
<1>2. /\ Front(b) \in Block /\ Len(b) = Len(Front(b)) + 1
      /\ \A i \in 1..Len(Front(b)) : Front(b)[i] = b[i]
      /\ Last(b) = b[Len(b)]
  BY <1>1, ParentOfBlock
<1>3. Len(Front(b)) = Len(c)
  BY <1>1, <1>2, BlockIsSeq
<1> HIDE DEF b
<1>4. Front(b) = c
  BY <1>1, <1>2, <1>3, BlockEqual
<1> QED
  BY <1>1, <1>2, <1>4 DEF b

-----------------------------------------------------------------------------
(* Validator sets and quorums. *)

\* Every validator set a command can bring into force is a set of nodes.
LEMMA LegalSetsType ==
  /\ Node \in LegalSets
  /\ \A vs \in LegalSets : vs \subseteq Node /\ IsFiniteSet(vs)
<1>1. \A vs \in LegalSets : vs \subseteq Node
  BY TxAssumption DEF LegalSets
<1>2. \A vs \in LegalSets : IsFiniteSet(vs)
  BY <1>1, NodeAssumption, FS_Subset
<1> QED
  BY <1>1, <1>2 DEF LegalSets

\* Applying a block's command leaves a legal validator set.
LEMMA ApplyType ==
  ASSUME NEW d \in Payload, NEW vs \in LegalSets
  PROVE  Apply(d, vs) \in LegalSets
BY DEF Apply

\* Two sets of more than two thirds of the validators share a correct one.
LEMMA QuorumsMeet ==
  ASSUME NEW vs \in LegalSets,
         NEW Q1 \in SUBSET vs, 3 * Cardinality(Q1) > 2 * Cardinality(vs),
         NEW Q2 \in SUBSET vs, 3 * Cardinality(Q2) > 2 * Cardinality(vs)
  PROVE  \E v \in Q1 \cap Q2 : v \in Correct
<1>1. IsFiniteSet(vs) /\ vs \subseteq Node
  BY LegalSetsType
<1>2. /\ IsFiniteSet(Q1) /\ IsFiniteSet(Q2) /\ IsFiniteSet(Q1 \cap Q2)
      /\ IsFiniteSet(Q1 \cup Q2) /\ IsFiniteSet(vs \cap Faulty)
  BY <1>1, FS_Subset
<1>3. Cardinality(Q1 \cup Q2) <= Cardinality(vs)
  BY <1>1, FS_Subset
<1>4. Cardinality(Q1 \cup Q2) =
        Cardinality(Q1) + Cardinality(Q2) - Cardinality(Q1 \cap Q2)
  BY <1>2, FS_Union
<1>5. /\ Cardinality(Q1) \in Nat /\ Cardinality(Q2) \in Nat
      /\ Cardinality(Q1 \cap Q2) \in Nat /\ Cardinality(Q1 \cup Q2) \in Nat
      /\ Cardinality(vs) \in Nat /\ Cardinality(vs \cap Faulty) \in Nat
  BY <1>1, <1>2, FS_CardinalityType
<1>6. 3 * Cardinality(vs \cap Faulty) < Cardinality(vs)
  BY FaultAssumption
<1>7. Cardinality(Q1 \cap Q2) > Cardinality(vs \cap Faulty)
  BY <1>3, <1>4, <1>5, <1>6
<1>8. ASSUME Q1 \cap Q2 \subseteq Faulty
      PROVE  FALSE
  <2>1. Cardinality(Q1 \cap Q2) <= Cardinality(vs \cap Faulty)
    BY <1>2, <1>8, FS_Subset
  <2> QED
    BY <2>1, <1>5, <1>7
<1> QED
  BY <1>1, <1>8 DEF Correct

\* MinApprovals is more than two thirds of the validators, and no vote of
\* another node counts.
LEMMA ApprovedIsQuorum ==
  ASSUME NEW vs \in LegalSets, NEW pool, NEW b, Approved(pool, b, vs)
  PROVE  3 * Cardinality(VotesOfActive(pool, b, vs)) > 2 * Cardinality(vs)
<1>1. IsFiniteSet(vs) /\ IsFiniteSet(VotesOfActive(pool, b, vs))
  BY LegalSetsType, FS_Subset DEF VotesOfActive
<1>2. Cardinality(vs) \in Nat /\ Cardinality(VotesOfActive(pool, b, vs)) \in Nat
  BY <1>1, FS_CardinalityType
<1>3. Cardinality(VotesOfActive(pool, b, vs)) >= (Cardinality(vs) * 2) \div 3 + 1
  BY DEF Approved, MinApprovals
<1> QED
  BY <1>2, <1>3

\* A bounded set of naturals has a greatest element.
LEMMA GreatestElement ==
  ASSUME NEW N \in Nat, NEW S \in SUBSET (1..N), S # {}
  PROVE  Max(S) \in S /\ \A k \in S : k <= Max(S)
<1> DEFINE T == {N - k : k \in S}
<1>1. T \subseteq Nat /\ T # {}
  <2>1. PICK k \in S : TRUE
    OBVIOUS
  <2>2. N - k \in T
    BY <2>1
  <2>3. ASSUME NEW j \in S PROVE N - j \in Nat
    OBVIOUS
  <2> QED
    BY <2>2, <2>3
<1>2. \E x \in T : \A y \in T : ~ (<<y, x>> \in OpToRel(<, Nat))
  BY <1>1, NatLessThanWellFounded, WFMin
<1>3. PICK x \in T : \A y \in T : ~ (<<y, x>> \in OpToRel(<, Nat))
  BY <1>2
<1>4. \A y \in T : ~(y < x)
  BY <1>1, <1>3 DEF OpToRel
<1>5. PICK m \in S : x = N - m
  OBVIOUS
<1>6. \A k \in S : m >= k
  BY <1>4, <1>5
<1> QED
  BY <1>6 DEF Max

\* A command takes effect at the block that holds it: the validators after b
\* are what its payload makes of those after its parent.
LEMMA ActiveAfterBlock ==
  ASSUME NEW b \in Block, b # <<>>
  PROVE  ActiveAfter(b) = Apply(Last(b), ActiveAfter(Front(b)))
<1> DEFINE c == Front(b)
           Changes(d) == \E x \in d.txs \cap VarieValid :
                            NewValidatorSet[x] \in LegalSets
<1>1. /\ c \in Block /\ Len(c) \in Nat /\ Len(b) = Len(c) + 1
      /\ \A i \in 1..Len(c) : c[i] = b[i]
      /\ Last(b) = b[Len(b)]
  BY ParentOfBlock, BlockIsSeq
<1>2. \A d, vs : ~Changes(d) => Apply(d, vs) = vs
  BY DEF Apply
<1>3. \A d, vs, ws : Changes(d) => Apply(d, vs) = Apply(d, ws)
  BY DEF Apply
<1>4. /\ Reconfigurations(b) = {k \in 1..Len(b) : Changes(b[k])}
      /\ Reconfigurations(c) = {k \in 1..Len(c) : Changes(c[k])}
  BY DEF Reconfigurations
<1>5. CASE Changes(Last(b))
  <2>1. Len(b) \in Reconfigurations(b)
    BY <1>1, <1>4, <1>5
  <2>2. Max(Reconfigurations(b)) = Len(b)
    <3>1. Reconfigurations(b) \subseteq 1..Len(b) /\ Len(b) \in Nat
      BY <1>1, <1>4
    <3>2. /\ Max(Reconfigurations(b)) \in Reconfigurations(b)
          /\ Len(b) <= Max(Reconfigurations(b))
      BY <2>1, <3>1, GreatestElement
    <3> QED
      BY <3>1, <3>2
  <2>3. ActiveAfter(b) = Apply(Last(b), Node)
    BY <1>1, <2>1, <2>2 DEF ActiveAfter
  <2> QED
    BY <1>3, <1>5, <2>3
<1>6. CASE ~Changes(Last(b))
  <2>1. Reconfigurations(b) = Reconfigurations(c)
    <3>1. \A k \in 1..Len(c) : b[k] = c[k]
      BY <1>1
    <3>2. \A k \in 1..Len(b) : k \in 1..Len(c) \/ k = Len(b)
      BY <1>1
    <3>3. 1..Len(c) \subseteq 1..Len(b)
      BY <1>1
    <3>4. ~Changes(b[Len(b)])
      BY <1>1, <1>6
    <3> HIDE DEF Changes
    <3> QED
      BY <1>4, <3>1, <3>2, <3>3, <3>4
  <2>2. ActiveAfter(b) = ActiveAfter(c)
    <3>1. CASE Reconfigurations(c) = {}
      BY <2>1, <3>1 DEF ActiveAfter
    <3>2. CASE Reconfigurations(c) # {}
      <4>1. Reconfigurations(c) \subseteq 1..Len(c)
        BY <1>4
      <4>2. Max(Reconfigurations(c)) \in 1..Len(c)
        BY <1>1, <3>2, <4>1, GreatestElement
      <4> QED
        BY <1>1, <2>1, <3>2, <4>2 DEF ActiveAfter
    <3> QED
      BY <3>1, <3>2
  <2> QED
    BY <1>2, <1>6, <2>2
<1> QED
  BY <1>5, <1>6

\* Every node is a validator after genesis.
LEMMA ActiveAfterGenesis == ActiveAfter(<<>>) = Node
<1>1. Reconfigurations(<<>>) = {}
  BY EmptyIsBlock DEF Reconfigurations
<1> QED
  BY <1>1 DEF ActiveAfter

-----------------------------------------------------------------------------
(* Type correctness.  It needs one fact that is not a type: a node that has *)
(* voted for a block of the current round has voted for a child of the last *)
(* block of its chain.  Without it Finalize could install the empty block.  *)

RoundInv ==
  \A n \in Correct :
    state[n] \in {"Prepared", "Committed"} => IsNextBlock(n, currentHash[n])

TypeInv == TypeOK /\ RoundInv

\* The initial state has the right types.
LEMMA InitType == Init => TypeInv
<1> SUFFICES ASSUME Init PROVE TypeInv
  OBVIOUS
<1>1. Pick(<<>>, Node) \in Node
  BY EmptyIsBlock, LegalSetsType, PickAssumption
<1>2. \A n \in Correct : state[n] \in {"NewRound", "NewRoundProposer"}
  BY DEF Init, NextState
<1>3. TypeOK
  BY <1>1, EmptyIsBlock, LegalSetsType DEF Init, TypeOK, NextState
<1>4. RoundInv
  BY <1>2 DEF RoundInv
<1> QED
  BY <1>3, <1>4 DEF TypeInv

\* The actions, one by one.
LEMMA NextCases ==
  ASSUME [Next]_vars
  PROVE  \/ \E n \in Correct : Propose(n)
         \/ \E n \in Correct : SendPrepare(n)
         \/ \E n \in Correct : SendCommit(n)
         \/ \E n \in Correct : Finalize(n)
         \/ \E n \in Correct, x \in Tx : ReceiveDealerTransaction(n, x)
         \/ \E n \in Correct, x \in Tx : CheckTransaction(n, x)
         \/ \E n \in Correct : AddTransaction(n)
         \/ \E n \in Correct : \E msg \in ReachingBlocks(n) :
              AcceptPrePrepare(n, msg[1], msg[2])
         \/ \E n \in Correct : \E msg \in ReachingBlocks(n) :
              DropPrePrepare(n, msg[1], msg[2])
         \/ \E n \in Correct, w \in prepares : ReceivePrepare(n, w[1], w[2])
         \/ \E n \in Correct, w \in commits : ReceiveCommit(n, w[1], w[2])
         \/ \E n \in Correct : \E v \in Faulty, b \in blockPool[n] :
              ReceivePrepare(n, v, b)
         \/ \E n \in Correct : \E v \in Faulty, b \in blockPool[n] :
              ReceiveCommit(n, v, b)
         \/ UNCHANGED vars
BY DEF Next, Step, HandleTransaction, HandlePrePrepare, HandleVote

\* What a proposer selects is a payload.
LEMMA SelectionType ==
  ASSUME NEW pool \in SUBSET Tx, NEW vs, NEW sel \in Selection(pool, vs),
         NEW t \in Stamp
  PROVE  [txs |-> sel.txs, stamp |-> t] \in Payload
<1> DEFINE valid == {x \in pool \cap Command : VerifyAsCommand(x, vs)}
<1>1. \/ \E x \in valid : sel.txs = {x}
      \/ sel.txs \in SUBSET (pool \ Command)
  <2>1. CASE valid # {}
    BY <2>1 DEF Selection
  <2>2. CASE valid = {}
    BY <2>2 DEF Selection
  <2> QED
    BY <2>1, <2>2
<1>2. /\ sel.txs \subseteq Tx
      /\ \A c1, c2 \in sel.txs \cap Command : c1 = c2
  BY <1>1
<1> HIDE DEF valid
<1> QED
  BY <1>2 DEF Payload

\* The PrePrepares that can reach a node carry blocks, signed by nodes.
LEMMA ReachingBlocksType ==
  ASSUME TypeOK, NEW n \in Correct, NEW msg \in ReachingBlocks(n),
         Len(chain[n]) < MaxHeight
  PROVE  msg[1] \in Block /\ msg[2] \in Node
<1>1. CASE \E m \in preprepares : msg = <<m.block, m.signer>>
  BY <1>1 DEF TypeOK
<1>2. CASE \E d \in Payload : msg = <<Append(chain[n], d), proposer[n]>>
  BY <1>2, AppendIsBlock DEF TypeOK
<1> QED
  BY <1>1, <1>2 DEF ReachingBlocks

\* The block a node finalizes is a child of its chain, and gives it a legal
\* validator set and a proposer.
LEMMA FinalizeType ==
  ASSUME TypeInv, NEW n \in Correct, Finalize(n)
  PROVE  /\ currentHash[n] \in Block /\ currentHash[n] # <<>>
         /\ Front(currentHash[n]) = chain[n]
         /\ Last(currentHash[n]) \in Payload
         /\ Len(currentHash[n]) \in Nat
         /\ Apply(Last(currentHash[n]), validators[n]) \in LegalSets
         /\ Pick(currentHash[n], Apply(Last(currentHash[n]), validators[n])) \in Node
<1>1. currentHash[n] \in Block /\ validators[n] \in LegalSets
  BY DEF TypeInv, TypeOK
<1>2. currentHash[n] # <<>> /\ Front(currentHash[n]) = chain[n]
  BY DEF TypeInv, RoundInv, Finalize, CanFinalize, IsNextBlock
<1>3. Last(currentHash[n]) \in Payload /\ Len(currentHash[n]) \in Nat
  BY <1>1, <1>2, ParentOfBlock
<1>4. Apply(Last(currentHash[n]), validators[n]) \in LegalSets
  BY <1>1, <1>3, ApplyType
<1>5. Pick(currentHash[n], Apply(Last(currentHash[n]), validators[n])) \in Node
  BY <1>1, <1>4, LegalSetsType, PickAssumption
<1> QED
  BY <1>1, <1>2, <1>3, <1>4, <1>5

\* Every action keeps the types.
LEMMA NextType == TypeInv /\ [Next]_vars => TypeInv'
<1> SUFFICES ASSUME TypeInv, [Next]_vars
             PROVE  TypeInv'
  OBVIOUS
<1> USE DEF vars, ledgerVars, roundVars, poolVars, txVars, netVars
<1>0. TypeOK /\ RoundInv /\ Correct \subseteq Node
  BY DEF TypeInv, Correct
<1>1. ASSUME NEW n \in Correct, Propose(n)
      PROVE  TypeInv'
  <2>1. Len(chain[n]) < MaxHeight /\ chain[n] \in Block /\ txPool[n] \in SUBSET Tx
    BY <1>0, <1>1 DEF Propose, TypeOK
  <2>2. PICK sel \in Selection(txPool[n], validators[n]), t \in Stamp :
          LET b == Append(chain[n], [txs |-> sel.txs, stamp |-> t])
          IN /\ currentHash' = [currentHash EXCEPT ![n] = b]
             /\ blockPool' = [blockPool EXCEPT ![n] = @ \cup {b}]
             /\ preprepares' = preprepares \cup PrePrepares(n, b, n)
             /\ txPool' = [txPool EXCEPT ![n] = @ \ sel.stale]
    BY <1>1 DEF Propose
  <2> DEFINE b == Append(chain[n], [txs |-> sel.txs, stamp |-> t])
  <2>3. b \in Block
    BY <2>1, SelectionType, AppendIsBlock
  <2>4. /\ currentHash' = [currentHash EXCEPT ![n] = b]
        /\ blockPool' = [blockPool EXCEPT ![n] = @ \cup {b}]
        /\ preprepares' = preprepares \cup PrePrepares(n, b, n)
        /\ txPool' = [txPool EXCEPT ![n] = @ \ sel.stale]
        /\ state' = [state EXCEPT ![n] = "NewRound"]
        /\ UNCHANGED <<ledgerVars, preparePool, commitPool, intake, prepares,
                       commits>>
    BY <1>1, <2>2 DEF Propose
  <2> HIDE DEF b
  <2>5. TypeOK'
    BY <1>0, <2>3, <2>4 DEF TypeOK, PrePrepares
  <2>6. RoundInv'
    BY <1>0, <2>4 DEF RoundInv, IsNextBlock, TypeOK
  <2> QED
    BY <2>5, <2>6 DEF TypeInv
<1>2. ASSUME NEW n \in Correct, SendPrepare(n)
      PROVE  TypeInv'
  <2>1. PICK b \in NextBlocks(n) :
          /\ currentHash' = [currentHash EXCEPT ![n] = b]
          /\ preparePool' = [preparePool EXCEPT ![n] = @ \cup {<<n, b>>}]
          /\ prepares' = prepares \cup {<<n, b>>}
    BY <1>2 DEF SendPrepare
  <2>2. b \in Block /\ IsNextBlock(n, b)
    BY <1>0, <2>1 DEF NextBlocks, TypeOK
  <2>3. TypeOK'
    BY <1>0, <1>2, <2>1, <2>2 DEF TypeOK, SendPrepare
  <2>4. RoundInv'
    BY <1>0, <1>2, <2>1, <2>2 DEF RoundInv, IsNextBlock, TypeOK, SendPrepare
  <2> QED
    BY <2>3, <2>4 DEF TypeInv
<1>3. ASSUME NEW n \in Correct, SendCommit(n)
      PROVE  TypeInv'
  <2>1. TypeOK'
    BY <1>0, <1>3 DEF TypeOK, SendCommit
  <2>2. RoundInv'
    BY <1>0, <1>3 DEF RoundInv, IsNextBlock, TypeOK, SendCommit
  <2> QED
    BY <2>1, <2>2 DEF TypeInv
<1>4. ASSUME NEW n \in Correct, Finalize(n)
      PROVE  TypeInv'
  <2> DEFINE b == currentHash[n]
             vs == Apply(Last(b), validators[n])
             leader == Pick(b, vs)
  <2>1. AddUpdatedBlock(n, b, vs, leader, NextState(n, leader))
    BY <1>4 DEF Finalize
  <2>2. /\ b \in Block /\ Last(b) \in Payload /\ Len(b) \in Nat
        /\ vs \in LegalSets /\ leader \in Node
    BY <1>4, FinalizeType
  <2>3. NextState(n, leader) \in {"NewRound", "NewRoundProposer"}
    BY DEF NextState
  <2>4. Last(b).txs \subseteq Tx
    BY <2>2 DEF Payload
  <2> HIDE DEF b, vs, leader
  <2>5. TypeOK'
    BY <1>0, <2>1, <2>2, <2>3, <2>4 DEF TypeOK, AddUpdatedBlock
  <2>6. RoundInv'
    BY <1>0, <2>1, <2>3 DEF RoundInv, IsNextBlock, TypeOK, AddUpdatedBlock
  <2> QED
    BY <2>5, <2>6 DEF TypeInv
<1>5. ASSUME NEW n \in Correct, NEW x \in Tx, ReceiveDealerTransaction(n, x)
      PROVE  TypeInv'
  <2>1. TypeOK'
    BY <1>0, <1>5 DEF TypeOK, ReceiveDealerTransaction, AddToPool
  <2>2. RoundInv'
    BY <1>0, <1>5 DEF RoundInv, IsNextBlock, ReceiveDealerTransaction
  <2> QED
    BY <2>1, <2>2 DEF TypeInv
<1>6. ASSUME NEW n \in Correct, NEW x \in Tx, CheckTransaction(n, x)
      PROVE  TypeInv'
  <2>1. TypeOK'
    BY <1>0, <1>6 DEF TypeOK, CheckTransaction
  <2>2. RoundInv'
    BY <1>0, <1>6 DEF RoundInv, IsNextBlock, CheckTransaction
  <2> QED
    BY <2>1, <2>2 DEF TypeInv
<1>7. ASSUME NEW n \in Correct, AddTransaction(n)
      PROVE  TypeInv'
  <2>1. TypeOK'
    BY <1>0, <1>7 DEF TypeOK, AddTransaction, AddToPool
  <2>2. RoundInv'
    BY <1>0, <1>7 DEF RoundInv, IsNextBlock, AddTransaction
  <2> QED
    BY <2>1, <2>2 DEF TypeInv
<1>8. ASSUME NEW n \in Correct, NEW msg \in ReachingBlocks(n),
             AcceptPrePrepare(n, msg[1], msg[2])
      PROVE  TypeInv'
  <2>1. msg[1] \in Block /\ msg[2] \in Node
    BY <1>0, <1>8, ReachingBlocksType DEF AcceptPrePrepare
  <2>2. preprepares' \subseteq preprepares \cup PrePrepares(n, msg[1], msg[2])
    BY <1>8 DEF AcceptPrePrepare, Deliver
  <2>3. TypeOK'
    BY <1>0, <1>8, <2>1, <2>2 DEF TypeOK, AcceptPrePrepare, PrePrepares
  <2>4. RoundInv'
    BY <1>0, <1>8 DEF RoundInv, IsNextBlock, AcceptPrePrepare
  <2> QED
    BY <2>3, <2>4 DEF TypeInv
<1>9. ASSUME NEW n \in Correct, NEW msg \in ReachingBlocks(n),
             DropPrePrepare(n, msg[1], msg[2])
      PROVE  TypeInv'
  <2>1. preprepares' \subseteq preprepares
    BY <1>9 DEF DropPrePrepare, Deliver
  <2>2. TypeOK'
    BY <1>0, <1>9, <2>1 DEF TypeOK, DropPrePrepare
  <2>3. RoundInv'
    BY <1>0, <1>9 DEF RoundInv, IsNextBlock, DropPrePrepare
  <2> QED
    BY <2>2, <2>3 DEF TypeInv
<1>10. ASSUME NEW n \in Correct, NEW v \in Node, NEW b \in Block,
              ReceivePrepare(n, v, b)
       PROVE  TypeInv'
  <2>1. TypeOK'
    BY <1>0, <1>10 DEF TypeOK, ReceivePrepare
  <2>2. RoundInv'
    BY <1>0, <1>10 DEF RoundInv, IsNextBlock, ReceivePrepare
  <2> QED
    BY <2>1, <2>2 DEF TypeInv
<1>11. ASSUME NEW n \in Correct, NEW v \in Node, NEW b \in Block,
              ReceiveCommit(n, v, b)
       PROVE  TypeInv'
  <2>1. TypeOK'
    BY <1>0, <1>11 DEF TypeOK, ReceiveCommit
  <2>2. RoundInv'
    BY <1>0, <1>11 DEF RoundInv, IsNextBlock, ReceiveCommit
  <2> QED
    BY <2>1, <2>2 DEF TypeInv
<1>12. CASE UNCHANGED vars
  BY <1>0, <1>12 DEF TypeInv, TypeOK, RoundInv, IsNextBlock
\* The votes a node can handle are of nodes for blocks.
<1>13. /\ \A w \in prepares \cup commits : w[1] \in Node /\ w[2] \in Block
       /\ \A n \in Correct : \A b \in blockPool[n] : b \in Block
       /\ Faulty \subseteq Node
  BY <1>0, NodeAssumption DEF TypeOK
<1> QED
  BY <1>1, <1>2, <1>3, <1>4, <1>5, <1>6, <1>7, <1>8, <1>9, <1>10, <1>11, <1>12,
     <1>13, NextCases

\* The types of the variables of PBFTConsensus, whatever the faulty nodes do.
THEOREM TypeCorrect == Spec => []TypeOK
<1>1. TypeInv => TypeOK
  BY DEF TypeInv
<1> QED
  BY <1>1, InitType, NextType, PTL DEF Spec

-----------------------------------------------------------------------------
(* Which actions touch what. *)

\* Only Finalize touches the chains, validators and proposers.
LEMMA LedgerFrame ==
  ASSUME [Next]_vars
  PROVE  UNCHANGED ledgerVars \/ \E n \in Correct : Finalize(n)
BY NextCases DEF vars, Propose, SendPrepare, SendCommit,
   ReceiveDealerTransaction, CheckTransaction, AddTransaction,
   AcceptPrePrepare, DropPrePrepare, ReceivePrepare, ReceiveCommit

\* Only the four steps of the state machine touch states and current hashes.
LEMMA RoundFrame ==
  ASSUME [Next]_vars
  PROVE  \/ UNCHANGED <<ledgerVars, roundVars, prepares, commits>>
         \/ \E n \in Correct : Propose(n) \/ SendPrepare(n) \/ SendCommit(n)
                                 \/ Finalize(n)
BY NextCases DEF vars, netVars,
   ReceiveDealerTransaction, CheckTransaction, AddTransaction,
   AcceptPrePrepare, DropPrePrepare, ReceivePrepare, ReceiveCommit

\* Only voting and receiving votes touch the votes.
LEMMA PoolFrame ==
  ASSUME [Next]_vars
  PROVE  \/ UNCHANGED <<preparePool, commitPool, prepares, commits>>
         \/ \E n \in Correct : SendPrepare(n) \/ SendCommit(n)
         \/ \E n \in Correct, w \in prepares : ReceivePrepare(n, w[1], w[2])
         \/ \E n \in Correct, w \in commits : ReceiveCommit(n, w[1], w[2])
         \/ \E n \in Correct : \E v \in Faulty, b \in blockPool[n] :
              ReceivePrepare(n, v, b) \/ ReceiveCommit(n, v, b)
BY NextCases DEF vars, netVars, poolVars, Propose, Finalize, AddUpdatedBlock,
   ReceiveDealerTransaction, CheckTransaction, AddTransaction,
   AcceptPrePrepare, DropPrePrepare

-----------------------------------------------------------------------------
(* The view of a node. *)

\* Genesis determines the first view.
LEMMA InitView == Init => ViewFollowsChain
BY ActiveAfterGenesis DEF Init, ViewFollowsChain

\* Every action keeps each view the one its chain determines.
LEMMA NextView ==
  TypeInv /\ ViewFollowsChain /\ [Next]_vars => ViewFollowsChain'
<1> SUFFICES ASSUME TypeInv, ViewFollowsChain, [Next]_vars
             PROVE  ViewFollowsChain'
  OBVIOUS
<1>1. CASE UNCHANGED ledgerVars
  BY <1>1 DEF ledgerVars, ViewFollowsChain
<1>2. ASSUME NEW n \in Correct, Finalize(n)
      PROVE  ViewFollowsChain'
  <2> DEFINE b == currentHash[n]
             vs == Apply(Last(b), validators[n])
  <2>1. /\ chain' = [chain EXCEPT ![n] = b]
        /\ validators' = [validators EXCEPT ![n] = vs]
        /\ proposer' = [proposer EXCEPT ![n] = Pick(b, vs)]
    BY <1>2 DEF Finalize, AddUpdatedBlock
  <2>2. b \in Block /\ b # <<>> /\ Front(b) = chain[n]
    BY <1>2, FinalizeType
  <2>3. validators[n] = ActiveAfter(chain[n])
    BY DEF ViewFollowsChain
  <2>4. vs = ActiveAfter(b)
    BY <2>2, <2>3, ActiveAfterBlock
  <2>5. /\ chain \in [Correct -> Block] /\ proposer \in [Correct -> Node]
        /\ validators \in [Correct -> LegalSets]
    BY DEF TypeInv, TypeOK
  <2> HIDE DEF b, vs
  <2> QED
    BY <2>1, <2>4, <2>5 DEF ViewFollowsChain
<1> QED
  BY <1>1, <1>2, LedgerFrame

\* Nodes with one chain count the votes of the same validators and wait for
\* the same proposer: both are what the chain determines.
THEOREM ViewCorrect == Spec => []ViewFollowsChain
BY InitType, NextType, InitView, NextView, PTL DEF Spec

-----------------------------------------------------------------------------
(* Votes.  A correct node has voted for blocks of its chain and, once it is *)
(* past the state in which it sends the vote, for the block of its round.   *)

Voted(v, b, states) ==
  \/ IsPrefix(b, chain[v])
  \/ state[v] \in states /\ b = currentHash[v]

VoteInv ==
  /\ \A w \in prepares : Voted(w[1], w[2], {"Prepared", "Committed"})
  /\ \A w \in commits : Voted(w[1], w[2], {"Committed"})

\* Nobody has voted initially.
LEMMA InitVote == Init => VoteInv
BY DEF Init, VoteInv

\* The prefixes of a chain are prefixes of the chain it grows to.
LEMMA PrefixOfChild ==
  ASSUME NEW c \in Block, NEW b \in Block, b # <<>>, Front(b) = c
  PROVE  /\ IsPrefix(b, b)
         /\ \A a \in Block : IsPrefix(a, c) => IsPrefix(a, b)
<1>1. /\ Len(c) \in Nat /\ Len(b) = Len(c) + 1
      /\ \A i \in 1..Len(c) : c[i] = b[i]
  BY ParentOfBlock, BlockIsSeq
<1>2. IsPrefix(b, b)
  BY PrefixPointwise, <1>1
<1>3. ASSUME NEW a \in Block, IsPrefix(a, c)
      PROVE  IsPrefix(a, b)
  <2>1. Len(a) \in Nat /\ Len(a) <= Len(c) /\ \A i \in 1..Len(a) : a[i] = c[i]
    BY <1>3, PrefixPointwise, BlockIsSeq
  <2>2. \A i \in 1..Len(a) : a[i] = b[i]
    BY <1>1, <2>1
  <2>3. Len(a) <= Len(b)
    BY <1>1, <2>1
  <2> QED
    BY <2>2, <2>3, PrefixPointwise
<1> QED
  BY <1>2, <1>3

\* Every action keeps VoteInv.
LEMMA NextVote == TypeInv /\ VoteInv /\ [Next]_vars => VoteInv'
<1> SUFFICES ASSUME TypeInv, VoteInv, [Next]_vars
             PROVE  VoteInv'
  OBVIOUS
<1> USE DEF ledgerVars, roundVars, netVars
<1>0. /\ TypeOK
      /\ state \in [Correct -> {"NewRound", "NewRoundProposer", "Prepared",
                                "Committed"}]
      /\ currentHash \in [Correct -> Block] /\ chain \in [Correct -> Block]
      /\ \A w \in prepares \cup commits : w[1] \in Correct /\ w[2] \in Block
  BY DEF TypeInv, TypeOK
<1>1. CASE UNCHANGED <<ledgerVars, roundVars, prepares, commits>>
  BY <1>1 DEF VoteInv, Voted
<1>2. ASSUME NEW n \in Correct, Propose(n)
      PROVE  VoteInv'
  <2>1. /\ state[n] = "NewRoundProposer"
        /\ UNCHANGED <<chain, prepares, commits>>
        /\ state' = [state EXCEPT ![n] = "NewRound"]
        /\ \A m \in Correct \ {n} : currentHash'[m] = currentHash[m]
    BY <1>0, <1>2 DEF Propose
  <2> QED
    BY <1>0, <2>1 DEF VoteInv, Voted
<1>3. ASSUME NEW n \in Correct, SendPrepare(n)
      PROVE  VoteInv'
  <2>1. PICK b \in NextBlocks(n) :
          /\ currentHash' = [currentHash EXCEPT ![n] = b]
          /\ prepares' = prepares \cup {<<n, b>>}
    BY <1>3 DEF SendPrepare
  <2>2. /\ state[n] = "NewRound"
        /\ state' = [state EXCEPT ![n] = "Prepared"]
        /\ UNCHANGED <<chain, commits>>
    BY <1>3 DEF SendPrepare
  <2> QED
    BY <1>0, <2>1, <2>2 DEF VoteInv, Voted
<1>4. ASSUME NEW n \in Correct, SendCommit(n)
      PROVE  VoteInv'
  <2>1. /\ state[n] = "Prepared"
        /\ state' = [state EXCEPT ![n] = "Committed"]
        /\ commits' = commits \cup {<<n, currentHash[n]>>}
        /\ UNCHANGED <<chain, currentHash, prepares>>
    BY <1>4 DEF SendCommit
  <2> QED
    BY <1>0, <2>1 DEF VoteInv, Voted
<1>5. ASSUME NEW n \in Correct, Finalize(n)
      PROVE  VoteInv'
  <2> DEFINE b == currentHash[n]
  <2>1. /\ b \in Block
        /\ IsPrefix(b, b)
        /\ \A a \in Block : IsPrefix(a, chain[n]) => IsPrefix(a, b)
    BY <1>0, <1>5, FinalizeType, PrefixOfChild
  <2>2. /\ chain' = [chain EXCEPT ![n] = b]
        /\ UNCHANGED <<currentHash, prepares, commits>>
        /\ \A m \in Correct \ {n} : state'[m] = state[m]
    BY <1>0, <1>5 DEF Finalize, AddUpdatedBlock
  <2>3. ASSUME NEW w \in prepares \cup commits, NEW states,
               Voted(w[1], w[2], states)
        PROVE  Voted(w[1], w[2], states)'
    <3>1. CASE w[1] = n
      <4>1. IsPrefix(w[2], b)
        BY <1>0, <2>1, <2>3, <3>1 DEF Voted
      <4>2. chain'[w[1]] = b
        BY <1>0, <2>2, <3>1
      <4> QED
        BY <4>1, <4>2 DEF Voted
    <3>2. CASE w[1] # n
      BY <1>0, <2>2, <2>3, <3>2 DEF Voted
    <3> QED
      BY <3>1, <3>2
  <2> QED
    BY <2>2, <2>3 DEF VoteInv
<1> QED
  BY <1>1, <1>2, <1>3, <1>4, <1>5, RoundFrame

\* A correct node has voted for one block of each height.
LEMMA VotedOnce ==
  ASSUME TypeInv, NEW v \in Correct, NEW b1 \in Block, NEW b2 \in Block,
         Len(b1) = Len(b2),
         NEW states \in SUBSET {"Prepared", "Committed"},
         Voted(v, b1, states), Voted(v, b2, states)
  PROVE  b1 = b2
<1>1. chain[v] \in Block /\ currentHash[v] \in Block
  BY DEF TypeInv, TypeOK
<1>2. ASSUME NEW a \in Block, IsPrefix(a, chain[v]), state[v] \in states
      PROVE  Len(a) < Len(currentHash[v])
  <2>1. currentHash[v] # <<>> /\ Front(currentHash[v]) = chain[v]
    BY <1>2 DEF TypeInv, RoundInv, IsNextBlock
  <2>2. Len(currentHash[v]) = Len(chain[v]) + 1
    BY <1>1, <2>1, ParentOfBlock
  <2>3. Len(a) <= Len(chain[v])
    BY <1>1, <1>2, PrefixPointwise
  <2> QED
    BY <1>1, <2>2, <2>3, BlockIsSeq
<1>3. CASE IsPrefix(b1, chain[v]) /\ IsPrefix(b2, chain[v])
  BY <1>1, <1>3, PrefixPointwise, BlockEqual
<1>4. CASE b1 = currentHash[v] /\ b2 = currentHash[v]
  BY <1>4
<1>5. Len(b1) \in Nat /\ Len(b2) \in Nat
  BY BlockIsSeq
<1> QED
  BY <1>2, <1>3, <1>4, <1>5 DEF Voted

\* Correct nodes vote once per height and phase, whatever a faulty proposer
\* sends them.
THEOREM OneVoteCorrect == Spec => []OneVotePerHeight
<1>1. TypeInv /\ VoteInv => OneVotePerHeight
  <2> SUFFICES ASSUME TypeInv, VoteInv,
                      NEW sent \in {prepares, commits},
                      NEW w1 \in sent, NEW w2 \in sent,
                      w1[1] = w2[1], Len(w1[2]) = Len(w2[2])
               PROVE  w1 = w2
    BY DEF OneVotePerHeight
  <2>1. /\ w1[1] \in Correct /\ w1[2] \in Block /\ w2[2] \in Block
        /\ w1 = <<w1[1], w1[2]>> /\ w2 = <<w2[1], w2[2]>>
    BY DEF TypeInv, TypeOK
  <2>2. \E states \in SUBSET {"Prepared", "Committed"} :
          Voted(w1[1], w1[2], states) /\ Voted(w2[1], w2[2], states)
    <3>1. CASE sent = prepares
      BY <3>1 DEF VoteInv
    <3>2. CASE sent = commits
      BY <3>2 DEF VoteInv
    <3> QED
      BY <3>1, <3>2
  <2>3. w1[2] = w2[2]
    BY <2>1, <2>2, VotedOnce
  <2> QED
    BY <2>1, <2>3
<1> QED
  BY <1>1, InitType, NextType, InitVote, NextVote, PTL DEF Spec

-----------------------------------------------------------------------------
(* Certificates.  The votes of correct nodes that a pool holds were sent. *)

PoolInv ==
  \A n \in Correct :
    /\ \A w \in preparePool[n] : w[1] \in Correct => w \in prepares
    /\ \A w \in commitPool[n] : w[1] \in Correct => w \in commits

\* Every block pool is empty initially.
LEMMA InitPool == Init => PoolInv
BY DEF Init, PoolInv

\* Every action keeps PoolInv.
LEMMA NextPool == TypeInv /\ PoolInv /\ [Next]_vars => PoolInv'
<1> SUFFICES ASSUME TypeInv, PoolInv, [Next]_vars
             PROVE  PoolInv'
  OBVIOUS
<1> USE DEF netVars
<1>0. /\ preparePool \in [Correct -> SUBSET (Node \X Block)]
      /\ commitPool \in [Correct -> SUBSET (Node \X Block)]
      /\ \A w \in prepares \cup commits : w = <<w[1], w[2]>>
  BY DEF TypeInv, TypeOK
<1>1. CASE UNCHANGED <<preparePool, commitPool, prepares, commits>>
  BY <1>1 DEF PoolInv
<1>2. ASSUME NEW n \in Correct, SendPrepare(n)
      PROVE  PoolInv'
  <2>1. PICK b \in NextBlocks(n) :
          /\ preparePool' = [preparePool EXCEPT ![n] = @ \cup {<<n, b>>}]
          /\ prepares' = prepares \cup {<<n, b>>}
    BY <1>2 DEF SendPrepare
  <2>2. UNCHANGED <<commitPool, commits>>
    BY <1>2 DEF SendPrepare
  <2> QED
    BY <1>0, <2>1, <2>2 DEF PoolInv
<1>3. ASSUME NEW n \in Correct, SendCommit(n)
      PROVE  PoolInv'
  BY <1>0, <1>3 DEF PoolInv, SendCommit
\* A vote that is received was sent, or is of a faulty node.
<1>4. ASSUME NEW n \in Correct, NEW v, NEW b, ReceivePrepare(n, v, b)
      PROVE  PoolInv'
  <2>1. /\ preparePool' = [preparePool EXCEPT ![n] = @ \cup {<<v, b>>}]
        /\ UNCHANGED <<commitPool, prepares, commits>>
        /\ v \in Correct => <<v, b>> \in prepares
    BY <1>4 DEF ReceivePrepare, CanReceive, Correct
  <2> QED
    BY <1>0, <2>1 DEF PoolInv
<1>5. ASSUME NEW n \in Correct, NEW v, NEW b, ReceiveCommit(n, v, b)
      PROVE  PoolInv'
  <2>1. /\ commitPool' = [commitPool EXCEPT ![n] = @ \cup {<<v, b>>}]
        /\ UNCHANGED <<preparePool, prepares, commits>>
        /\ v \in Correct => <<v, b>> \in commits
    BY <1>5 DEF ReceiveCommit, CanReceive, Correct
  <2> QED
    BY <1>0, <2>1 DEF PoolInv
<1> QED
  BY <1>1, <1>2, <1>3, <1>4, <1>5, PoolFrame

\* The validators after any chain are a legal set.
LEMMA ActiveAfterLegal ==
  ASSUME NEW c \in Block
  PROVE  ActiveAfter(c) \in LegalSets
<1>1. CASE Reconfigurations(c) = {}
  BY <1>1, LegalSetsType DEF ActiveAfter
<1>2. CASE Reconfigurations(c) # {}
  <2>1. Reconfigurations(c) \subseteq 1..Len(c) /\ Len(c) \in Nat
    BY BlockIsSeq DEF Reconfigurations
  <2>2. Max(Reconfigurations(c)) \in 1..Len(c)
    BY <1>2, <2>1, GreatestElement
  <2>3. c[Max(Reconfigurations(c))] \in Payload
    BY <2>2, BlockIsSeq
  <2> QED
    BY <1>2, <2>3, LegalSetsType, ApplyType DEF ActiveAfter
<1> QED
  BY <1>1, <1>2

\* Votes are never taken back: a certificate stays one.
LEMMA CertifiedMonotone ==
  ASSUME NEW b \in Block, b # <<>>, NEW sent, NEW more, sent \subseteq more,
         Certified(b, sent)
  PROVE  Certified(b, more)
<1> DEFINE vs == ActiveAfter(Front(b))
           voters(s) == {v \in vs : v \in Faulty \/ <<v, b>> \in s}
<1>1. vs \in LegalSets
  BY ParentOfBlock, ActiveAfterLegal
<1>2. IsFiniteSet(vs)
  BY <1>1, LegalSetsType
<1>3. IsFiniteSet(voters(sent)) /\ IsFiniteSet(voters(more))
  BY <1>2, FS_Subset
<1>4. Cardinality(voters(sent)) <= Cardinality(voters(more))
  BY <1>3, FS_Subset
<1>5. /\ Cardinality(voters(sent)) \in Nat /\ Cardinality(voters(more)) \in Nat
      /\ Cardinality(vs) \in Nat
  BY <1>2, <1>3, FS_CardinalityType
<1>6. 3 * Cardinality(voters(sent)) > 2 * Cardinality(vs)
  BY DEF Certified
<1>7. 3 * Cardinality(voters(more)) > 2 * Cardinality(vs)
  BY <1>4, <1>5, <1>6
<1> QED
  BY <1>7 DEF Certified

\* A node that counts enough votes for a child of its chain has a
\* certificate: it counts those of the validators its chain determines.
LEMMA ApprovedCertifies ==
  ASSUME TypeInv, ViewFollowsChain, NEW n \in Correct,
         NEW b \in Block, IsNextBlock(n, b),
         NEW pool, NEW sent, Approved(pool, b, validators[n]),
         \A w \in pool : w[1] \in Correct => w \in sent
  PROVE  Certified(b, sent)
<1> DEFINE vs == ActiveAfter(Front(b))
           voters == {v \in vs : v \in Faulty \/ <<v, b>> \in sent}
<1>1. vs \in LegalSets /\ vs = validators[n]
  BY DEF TypeInv, TypeOK, ViewFollowsChain, IsNextBlock
<1>2. IsFiniteSet(vs) /\ vs \subseteq Node
  BY <1>1, LegalSetsType
<1>3. VotesOfActive(pool, b, vs) \subseteq voters
  BY <1>2 DEF VotesOfActive, Correct
<1>4. IsFiniteSet(voters) /\ IsFiniteSet(VotesOfActive(pool, b, vs))
  BY <1>2, FS_Subset DEF VotesOfActive
<1>5. Cardinality(VotesOfActive(pool, b, vs)) <= Cardinality(voters)
  BY <1>3, <1>4, FS_Subset
<1>6. 3 * Cardinality(VotesOfActive(pool, b, vs)) > 2 * Cardinality(vs)
  BY <1>1, ApprovedIsQuorum
<1>7. /\ Cardinality(voters) \in Nat /\ Cardinality(vs) \in Nat
      /\ Cardinality(VotesOfActive(pool, b, vs)) \in Nat
  BY <1>2, <1>4, FS_CardinalityType
<1>8. 3 * Cardinality(voters) > 2 * Cardinality(vs)
  BY <1>5, <1>6, <1>7
<1> QED
  BY <1>8 DEF Certified

PrepareCertInv == PrepareCertificate /\ \A w \in commits : w[2] # <<>>

\* No Commit has been sent initially.
LEMMA InitPrepareCert == Init => PrepareCertInv
BY DEF Init, PrepareCertInv, PrepareCertificate

\* Every action keeps PrepareCertInv.
LEMMA NextPrepareCert ==
  /\ TypeInv /\ ViewFollowsChain /\ PoolInv /\ PrepareCertInv
  /\ [Next]_vars
  => PrepareCertInv'
<1> SUFFICES ASSUME TypeInv, ViewFollowsChain, PoolInv, PrepareCertInv,
                    [Next]_vars
             PROVE  PrepareCertInv'
  OBVIOUS
<1>0. \A w \in commits : w[2] \in Block
  BY DEF TypeInv, TypeOK
<1>1. ASSUME prepares \subseteq prepares', UNCHANGED commits
      PROVE  PrepareCertInv'
  <2>1. ASSUME NEW w \in commits
        PROVE  Certified(w[2], prepares')
    BY <1>0, <1>1, CertifiedMonotone DEF PrepareCertInv, PrepareCertificate
  <2> QED
    BY <1>1, <2>1 DEF PrepareCertInv, PrepareCertificate
<1>2. CASE UNCHANGED <<ledgerVars, roundVars, prepares, commits>>
  BY <1>1, <1>2
<1>3. CASE \E n \in Correct : Propose(n) \/ SendPrepare(n) \/ Finalize(n)
  BY <1>1, <1>3 DEF Propose, SendPrepare, Finalize, AddUpdatedBlock, netVars
<1>4. ASSUME NEW n \in Correct, SendCommit(n)
      PROVE  PrepareCertInv'
  <2> DEFINE b == currentHash[n]
  <2>1. /\ Approved(preparePool[n], b, validators[n])
        /\ commits' = commits \cup {<<n, b>>}
        /\ UNCHANGED prepares
        /\ state[n] = "Prepared"
    BY <1>4 DEF SendCommit
  <2>2. b \in Block /\ IsNextBlock(n, b)
    BY <2>1 DEF TypeInv, TypeOK, RoundInv
  <2>3. Certified(b, prepares)
    BY <2>1, <2>2, ApprovedCertifies DEF PoolInv
  <2>4. b # <<>>
    BY <2>2 DEF IsNextBlock
  <2> HIDE DEF b
  <2> QED
    BY <2>1, <2>3, <2>4 DEF PrepareCertInv, PrepareCertificate
<1> QED
  BY <1>2, <1>3, <1>4, RoundFrame

\* No block is finalized initially.
LEMMA InitCommitCert == Init => CommitCertificate
BY EmptyIsBlock DEF Init, CommitCertificate

\* Every action keeps CommitCertificate.
LEMMA NextCommitCert ==
  /\ TypeInv /\ ViewFollowsChain /\ PoolInv /\ CommitCertificate
  /\ [Next]_vars
  => CommitCertificate'
<1> SUFFICES ASSUME TypeInv, ViewFollowsChain, PoolInv, CommitCertificate,
                    [Next]_vars
             PROVE  CommitCertificate'
  OBVIOUS
<1>0. chain \in [Correct -> Block]
  BY DEF TypeInv, TypeOK
<1>1. ASSUME UNCHANGED chain, commits \subseteq commits'
      PROVE  CommitCertificate'
  <2>1. ASSUME NEW n \in Correct, NEW k \in 1..Len(chain[n])
        PROVE  Certified(Prefix(chain[n], k), commits')
    <3>1. k \in 0..Len(chain[n]) /\ k # 0
      OBVIOUS
    <3>2. /\ Prefix(chain[n], k) \in Block
          /\ Len(Prefix(chain[n], k)) = k
      BY <1>0, <3>1, PrefixOfBlock
    <3>3. Prefix(chain[n], k) # <<>>
      BY <3>1, <3>2, EmptyIsBlock
    <3> QED
      BY <1>1, <3>2, <3>3, CertifiedMonotone DEF CommitCertificate
  <2> QED
    BY <1>1, <2>1 DEF CommitCertificate
<1>2. CASE UNCHANGED <<ledgerVars, roundVars, prepares, commits>>
  BY <1>1, <1>2 DEF ledgerVars
<1>3. CASE \E n \in Correct : Propose(n) \/ SendPrepare(n) \/ SendCommit(n)
  BY <1>1, <1>3 DEF Propose, SendPrepare, SendCommit, ledgerVars
<1>4. ASSUME NEW n \in Correct, Finalize(n)
      PROVE  CommitCertificate'
  <2> DEFINE b == currentHash[n]
  <2>1. /\ chain' = [chain EXCEPT ![n] = b]
        /\ UNCHANGED commits
        /\ Approved(commitPool[n], b, validators[n])
    BY <1>4 DEF Finalize, AddUpdatedBlock, CanFinalize, netVars
  <2>2. b \in Block /\ b # <<>> /\ Front(b) = chain[n] /\ IsNextBlock(n, b)
    BY <1>4, FinalizeType DEF IsNextBlock
  <2>3. Certified(b, commits)
    BY <2>1, <2>2, ApprovedCertifies DEF PoolInv
  <2>4. ASSUME NEW k \in 1..Len(b)
        PROVE  Certified(Prefix(b, k), commits)
    <3>1. /\ Len(b) \in Nat /\ Len(chain[n]) \in Nat
          /\ Len(b) = Len(chain[n]) + 1
          /\ \A i \in 1..Len(chain[n]) : chain[n][i] = b[i]
      BY <1>0, <2>2, ParentOfBlock, BlockIsSeq
    <3>2. k \in 0..Len(b)
      BY <3>1
    <3>3. /\ Prefix(b, k) \in Block /\ Len(Prefix(b, k)) = k
          /\ \A i \in 1..k : Prefix(b, k)[i] = b[i]
      BY <2>2, <3>2, PrefixOfBlock
    <3>4. CASE k = Len(b)
      <4>1. Prefix(b, k) = b
        BY <2>2, <3>3, <3>4, BlockEqual
      <4> QED
        BY <2>3, <4>1
    <3>5. CASE k # Len(b)
      <4>1. k \in 0..Len(chain[n]) /\ k \in 1..Len(chain[n])
        BY <3>1, <3>5
      <4>2. /\ Prefix(chain[n], k) \in Block /\ Len(Prefix(chain[n], k)) = k
            /\ \A i \in 1..k : Prefix(chain[n], k)[i] = chain[n][i]
        BY <1>0, <4>1, PrefixOfBlock
      <4>3. \A i \in 1..k : Prefix(chain[n], k)[i] = Prefix(b, k)[i]
        BY <3>1, <3>3, <4>1, <4>2
      <4>4. Prefix(chain[n], k) = Prefix(b, k)
        BY <3>3, <4>2, <4>3, BlockEqual
      <4>5. Certified(Prefix(chain[n], k), commits)
        BY <4>1 DEF CommitCertificate
      <4> QED
        BY <4>4, <4>5
    <3> QED
      BY <3>4, <3>5
  <2> HIDE DEF b
  <2>5. ASSUME NEW m \in Correct, NEW k \in 1..Len(chain'[m])
        PROVE  Certified(Prefix(chain'[m], k), commits)
    <3>1. CASE m = n
      BY <1>0, <2>1, <2>4, <3>1
    <3>2. CASE m # n
      <4>1. chain'[m] = chain[m]
        BY <1>0, <2>1, <3>2
      <4> QED
        BY <4>1 DEF CommitCertificate
    <3> QED
      BY <3>1, <3>2
  <2> QED
    BY <2>1, <2>5 DEF CommitCertificate
<1> QED
  BY <1>2, <1>3, <1>4, RoundFrame

\* Commit votes and finalized blocks rest on more than two thirds of the
\* validators in force at the block's height.
THEOREM CertificatesCorrect == Spec => [](PrepareCertificate /\ CommitCertificate)
<1>1. PrepareCertInv => PrepareCertificate
  BY DEF PrepareCertInv
<1> QED
  BY <1>1, InitType, NextType, InitView, NextView, InitPool, NextPool,
     InitPrepareCert, NextPrepareCert, InitCommitCert, NextCommitCert,
     PTL DEF Spec

-----------------------------------------------------------------------------
(* Agreement. *)

\* Two certified children of one block are the same: a correct node is in
\* both quorums and has voted once.
LEMMA CertifiedChild ==
  ASSUME TypeInv, VoteInv, NEW c \in Block,
         NEW b1 \in Block, b1 # <<>>, Front(b1) = c, Certified(b1, commits),
         NEW b2 \in Block, b2 # <<>>, Front(b2) = c, Certified(b2, commits)
  PROVE  b1 = b2
<1> DEFINE vs == ActiveAfter(c)
           voters(b) == {v \in vs : v \in Faulty \/ <<v, b>> \in commits}
<1>1. vs \in LegalSets
  BY ActiveAfterLegal
<1>2. /\ 3 * Cardinality(voters(b1)) > 2 * Cardinality(vs)
      /\ 3 * Cardinality(voters(b2)) > 2 * Cardinality(vs)
  BY DEF Certified
<1>3. PICK v \in voters(b1) \cap voters(b2) : v \in Correct
  <2> HIDE DEF vs
  <2> QED
    BY <1>1, <1>2, QuorumsMeet
<1>4. <<v, b1>> \in commits /\ <<v, b2>> \in commits
  BY <1>3 DEF Correct
<1>5. Voted(v, b1, {"Committed"}) /\ Voted(v, b2, {"Committed"})
  BY <1>4 DEF VoteInv
<1>6. Len(b1) = Len(b2)
  BY ParentOfBlock
<1> QED
  BY <1>3, <1>5, <1>6, VotedOnce

\* All chains are genesis initially.
LEMMA InitAgreement == Init => Agreement
BY EmptyIsBlock, PrefixPointwise DEF Init, Agreement

\* Every action keeps Agreement: a finalized block and the one another node
\* has at that height were both certified.
LEMMA NextAgreement ==
  /\ TypeInv /\ VoteInv /\ ViewFollowsChain /\ PoolInv /\ CommitCertificate
  /\ Agreement /\ [Next]_vars
  => Agreement'
<1> SUFFICES ASSUME TypeInv, VoteInv, ViewFollowsChain, PoolInv,
                    CommitCertificate, Agreement, [Next]_vars
             PROVE  Agreement'
  OBVIOUS
<1>0. chain \in [Correct -> Block]
  BY DEF TypeInv, TypeOK
<1>1. CASE UNCHANGED ledgerVars
  BY <1>1 DEF ledgerVars, Agreement
<1>2. ASSUME NEW n \in Correct, Finalize(n)
      PROVE  Agreement'
  <2> DEFINE b == currentHash[n]
  <2>1. /\ chain' = [chain EXCEPT ![n] = b]
        /\ Approved(commitPool[n], b, validators[n])
    BY <1>2 DEF Finalize, AddUpdatedBlock, CanFinalize
  <2>2. b \in Block /\ b # <<>> /\ Front(b) = chain[n] /\ IsNextBlock(n, b)
    BY <1>2, FinalizeType DEF IsNextBlock
  <2>3. Certified(b, commits)
    BY <2>1, <2>2, ApprovedCertifies DEF PoolInv
  <2>4. /\ IsPrefix(b, b)
        /\ \A a \in Block : IsPrefix(a, chain[n]) => IsPrefix(a, b)
    BY <1>0, <2>2, PrefixOfChild
  <2>5. /\ Len(chain[n]) \in Nat /\ Len(b) = Len(chain[n]) + 1
        /\ \A i \in 1..Len(chain[n]) : chain[n][i] = b[i]
    BY <1>0, <2>2, ParentOfBlock, BlockIsSeq
  <2> HIDE DEF b
  \* Another node's chain is a prefix of the new one, or goes at least as far.
  <2>6. ASSUME NEW m \in Correct
        PROVE  IsPrefix(chain[m], b) \/ IsPrefix(b, chain[m])
    <3>1. chain[m] \in Block /\ Len(chain[m]) \in Nat
      BY <1>0, BlockIsSeq
    <3>2. CASE IsPrefix(chain[m], chain[n])
      BY <2>4, <3>1, <3>2
    <3>3. CASE IsPrefix(chain[n], chain[m]) /\ ~ IsPrefix(chain[m], chain[n])
      <4>1. /\ Len(chain[n]) <= Len(chain[m])
            /\ \A i \in 1..Len(chain[n]) : chain[n][i] = chain[m][i]
        BY <1>0, <3>1, <3>3, PrefixPointwise
      <4>2. Len(chain[n]) # Len(chain[m])
        BY <1>0, <3>1, <3>3, <4>1, PrefixPointwise
      <4> DEFINE k == Len(b)
                 b2 == Prefix(chain[m], k)
      <4>3. k \in 1..Len(chain[m]) /\ k \in 0..Len(chain[m])
        BY <2>5, <3>1, <4>1, <4>2
      <4>4. /\ b2 \in Block /\ Len(b2) = k
            /\ \A i \in 1..k : b2[i] = chain[m][i]
        BY <3>1, <4>3, PrefixOfBlock
      <4>5. Certified(b2, commits)
        BY <4>3 DEF CommitCertificate
      <4>6. b2 # <<>>
        BY <4>3, <4>4, EmptyIsBlock
      <4> HIDE DEF b2
      <4>7. Front(b2) = chain[n]
        <5>1. /\ Front(b2) \in Block /\ Len(b2) = Len(Front(b2)) + 1
              /\ \A i \in 1..Len(Front(b2)) : Front(b2)[i] = b2[i]
              /\ Len(Front(b2)) \in Nat
          BY <4>4, <4>6, ParentOfBlock, BlockIsSeq
        <5>2. Len(Front(b2)) = Len(chain[n])
          BY <2>5, <4>4, <5>1
        <5>3. \A i \in 1..Len(chain[n]) : Front(b2)[i] = chain[n][i]
          BY <2>5, <4>1, <4>4, <5>1, <5>2
        <5> QED
          BY <1>0, <5>1, <5>2, <5>3, BlockEqual
      <4>8. b2 = b
        BY <1>0, <2>2, <2>3, <4>4, <4>5, <4>6, <4>7, CertifiedChild
      <4>9. IsPrefix(b, chain[m])
        BY <2>2, <3>1, <4>3, <4>4, <4>8, PrefixPointwise
      <4> QED
        BY <4>9
    <3> QED
      BY <3>2, <3>3 DEF Agreement
  <2> QED
    BY <1>0, <2>1, <2>4, <2>6 DEF Agreement
<1> QED
  BY <1>1, <1>2, LedgerFrame

\* Correct nodes never finalize different blocks at one height, whatever fewer
\* than a third of the validators in force do, in any order of messages and
\* with any sequence of changes of the validator set.
THEOREM AgreementCorrect == Spec => []Agreement
BY InitType, NextType, InitView, NextView, InitVote, NextVote,
   InitPool, NextPool, InitCommitCert, NextCommitCert,
   InitAgreement, NextAgreement, PTL DEF Spec

-----------------------------------------------------------------------------
(* The consensus implements ReplicatedLedger: every behaviour is, seen     *)
(* through the longest chain of a correct node and the chains of all, one  *)
(* of a ledger that grows at its end and is copied block by block.         *)

\* What LongestChain chooses, of any assignment of chains to correct nodes.
Longest(ch) ==
  CHOOSE c \in {ch[n] : n \in Correct} : \A n \in Correct : Len(ch[n]) <= Len(c)

\* Less than a third of the nodes is faulty.
LEMMA SomeNodeIsCorrect == Correct # {}
<1> SUFFICES ASSUME Correct = {} PROVE FALSE
  OBVIOUS
<1>1. 3 * Cardinality(Node \cap Faulty) < Cardinality(Node)
  BY FaultAssumption DEF LegalSets
<1>2. Node \cap Faulty = Node
  BY DEF Correct
<1>3. Cardinality(Node) \in Nat
  BY NodeAssumption, FS_CardinalityType
<1>4. 3 * Cardinality(Node) < Cardinality(Node)
  BY <1>1, <1>2
<1> QED
  BY <1>3, <1>4

\* Chains are not longer than MaxHeight, so one of them is the longest.
LEMMA LongestExists ==
  ASSUME NEW ch \in [Correct -> Block]
  PROVE  /\ \E n \in Correct : Longest(ch) = ch[n]
         /\ \A n \in Correct : Len(ch[n]) <= Len(Longest(ch))
<1> DEFINE S == {Len(ch[n]) + 1 : n \in Correct}
<1>1. \A n \in Correct : Len(ch[n]) \in 0..MaxHeight
  BY BlockIsSeq
<1>2. MaxHeight + 1 \in Nat
  BY BoundAssumption
<1>3. S \in SUBSET (1..(MaxHeight + 1))
  BY <1>1, BoundAssumption
<1>4. S # {}
  BY SomeNodeIsCorrect
<1>5. Max(S) \in S /\ \A k \in S : k <= Max(S)
  BY <1>2, <1>3, <1>4, GreatestElement
<1>6. PICK n \in Correct : Max(S) = Len(ch[n]) + 1
  BY <1>5
<1>7. \A m \in Correct : Len(ch[m]) <= Len(ch[n])
  <2> TAKE m \in Correct
  <2>1. Len(ch[m]) + 1 <= Len(ch[n]) + 1
    BY <1>5, <1>6
  <2> QED
    BY <1>1, <2>1, BoundAssumption
<1> DEFINE C == {ch[m] : m \in Correct}
<1>8. \E c \in C : \A m \in Correct : Len(ch[m]) <= Len(c)
  BY <1>7
<1>9. Longest(ch) \in C /\ \A m \in Correct : Len(ch[m]) <= Len(Longest(ch))
  BY <1>8 DEF Longest
<1> QED
  BY <1>9

\* When chains do not fork, those as long as the longest are the longest.
LEMMA LongestUnique ==
  ASSUME NEW ch \in [Correct -> Block],
         \A m, n \in Correct : IsPrefix(ch[m], ch[n]) \/ IsPrefix(ch[n], ch[m]),
         NEW k \in Correct, \A n \in Correct : Len(ch[n]) <= Len(ch[k])
  PROVE  Longest(ch) = ch[k]
<1>1. PICK m \in Correct : Longest(ch) = ch[m]
  BY LongestExists
<1>2. /\ ch[m] \in Block /\ Len(ch[m]) \in Nat
      /\ ch[k] \in Block /\ Len(ch[k]) \in Nat
  BY BlockIsSeq
<1>3. Len(ch[m]) = Len(ch[k])
  BY <1>1, <1>2, LongestExists
<1>4. \A i \in 1..Len(ch[m]) : ch[m][i] = ch[k][i]
  BY <1>2, <1>3, PrefixPointwise
<1> QED
  BY <1>1, <1>2, <1>3, <1>4, BlockEqual

-----------------------------------------------------------------------------
(* Refinement. *)

\* The chains of the initial state are empty, and so is their ledger.
LEMMA InitLedger == Init => Ledger!Init
<1> SUFFICES ASSUME Init PROVE Ledger!Init
  OBVIOUS
<1>1. chain = [n \in Correct |-> <<>>]
  BY DEF Init
<1>2. chain \in [Correct -> Block]
  BY <1>1, EmptyIsBlock
<1>3. Longest(chain) = <<>>
  BY <1>1, <1>2, LongestExists
<1> QED
  BY <1>1, <1>3 DEF Ledger!Init, LongestChain, Longest

\* A finalized block is the next of the ledger, or a new one at its end.
LEMMA FinalizeLedger ==
  ASSUME TypeInv, TypeInv', Agreement, Agreement', NEW n \in Correct, Finalize(n)
  PROVE  Ledger!Next
<1> DEFINE b == currentHash[n]
           l == Longest(chain)
<1>1. /\ chain' = [chain EXCEPT ![n] = b]
      /\ chain \in [Correct -> Block] /\ chain' \in [Correct -> Block]
  BY DEF TypeInv, TypeOK, Finalize, AddUpdatedBlock
<1>2. /\ b \in Block /\ b # <<>> /\ Front(b) = chain[n] /\ Last(b) \in Payload
      /\ chain[n] \in Block
  BY <1>1, FinalizeType
<1>3. /\ Len(chain[n]) \in Nat /\ Len(b) = Len(chain[n]) + 1
      /\ \A i \in 1..Len(chain[n]) : chain[n][i] = b[i]
      /\ Last(b) = b[Len(b)]
  BY <1>2, ParentOfBlock, BlockIsSeq
<1> HIDE DEF b
<1>4. LongestChain = l /\ LongestChain' = Longest(chain')
  BY DEF LongestChain, Longest
<1>5. PICK k \in Correct : l = chain[k] /\ \A m \in Correct : Len(chain[m]) <= Len(l)
  BY <1>1, LongestExists
<1>6. l \in Block /\ Len(l) \in Nat
  BY <1>1, <1>5, BlockIsSeq
<1>7. /\ chain'[n] = b
      /\ \A m \in Correct \ {n} : chain'[m] = chain[m]
  BY <1>1
<1> HIDE DEF l
<1>8. CASE Len(chain[n]) = Len(l)
  <2>1. chain[n] = l
    BY <1>1, <1>5, <1>8, LongestUnique DEF Agreement, l
  <2>2. \A m \in Correct : Len(chain'[m]) <= Len(chain'[n])
    <3> TAKE m \in Correct
    <3>1. Len(chain[m]) <= Len(l) /\ Len(chain[m]) \in Nat
      BY <1>1, <1>5, BlockIsSeq
    <3> QED
      BY <1>3, <1>7, <1>8, <3>1
  <2>3. Longest(chain') = b
    BY <1>1, <1>7, <2>2, LongestUnique DEF Agreement
  <2>4. b = Append(l, Last(b))
    <3>1. /\ Append(l, Last(b)) \in Block
          /\ Len(Append(l, Last(b))) = Len(l) + 1
          /\ \A i \in 1..Len(l) : Append(l, Last(b))[i] = l[i]
          /\ Append(l, Last(b))[Len(l) + 1] = Last(b)
      <4>1. Len(l) < MaxHeight
        BY <1>2, <1>3, <1>8, BlockIsSeq, BoundAssumption
      <4> QED
        BY <1>2, <1>6, <4>1, AppendIsBlock
    <3>2. \A i \in 1..Len(b) : b[i] = Append(l, Last(b))[i]
      <4> TAKE i \in 1..Len(b)
      <4>1. CASE i \in 1..Len(l)
        BY <1>3, <2>1, <3>1, <4>1
      <4>2. CASE i = Len(l) + 1
        BY <1>3, <2>1, <3>1, <4>2
      <4> QED
        BY <1>3, <1>6, <2>1, <4>1, <4>2
    <3>3. Len(b) = Len(Append(l, Last(b)))
      BY <1>3, <2>1, <3>1
    <3> QED
      BY <1>2, <3>1, <3>2, <3>3, BlockEqual
  <2>5. Ledger!Decide(n, Last(b))
    BY <1>1, <1>4, <2>1, <2>3, <2>4 DEF Ledger!Decide
  <2> QED
    BY <1>2, <2>5 DEF Ledger!Next
<1>9. CASE Len(chain[n]) # Len(l)
  <2>1. Len(chain[n]) < Len(l)
    BY <1>3, <1>5, <1>6, <1>9
  <2>2. k # n /\ chain'[k] = l
    BY <1>5, <1>7, <2>1, <1>3, <1>6
  <2>3. \A m \in Correct : Len(chain'[m]) <= Len(chain'[k])
    BY <1>3, <1>5, <1>6, <1>7, <2>1, <2>2
  <2>4. Longest(chain') = l
    BY <1>1, <2>2, <2>3, LongestUnique DEF Agreement
  <2>5. Prefix(l, Len(b)) = b
    <3>1. Len(b) \in 0..Len(l)
      BY <1>3, <1>6, <2>1
    <3>2. /\ Prefix(l, Len(b)) \in Block /\ Len(Prefix(l, Len(b))) = Len(b)
          /\ \A i \in 1..Len(b) : Prefix(l, Len(b))[i] = l[i]
      BY <1>6, <3>1, PrefixOfBlock
    <3>3. IsPrefix(b, l) \/ IsPrefix(l, b)
      BY <1>7, <2>2 DEF Agreement
    <3>4. \A i \in 1..Len(b) : b[i] = l[i]
      BY <1>2, <1>3, <1>6, <2>1, <3>3, PrefixPointwise
    <3> QED
      BY <1>2, <3>2, <3>4, BlockEqual
  <2>6. Ledger!Learn(n)
    BY <1>1, <1>3, <1>4, <2>1, <2>4, <2>5 DEF Ledger!Learn, Prefix
  <2> QED
    BY <2>6 DEF Ledger!Next
<1> QED
  BY <1>8, <1>9

\* Every step is one of the ledger, or changes no chain.
LEMMA NextLedger ==
  TypeInv /\ TypeInv' /\ Agreement /\ Agreement' /\ [Next]_vars
    => [Ledger!Next]_<<LongestChain, chain>>
<1> SUFFICES ASSUME TypeInv, TypeInv', Agreement, Agreement', [Next]_vars
             PROVE  Ledger!Next \/ UNCHANGED <<LongestChain, chain>>
  OBVIOUS
<1>1. CASE UNCHANGED ledgerVars
  BY <1>1 DEF ledgerVars, LongestChain
<1> QED
  BY <1>1, LedgerFrame, FinalizeLedger

\* The consensus implements one ledger that only grows at its end and that every
\* correct node copies from the beginning, none of its blocks missing.
THEOREM LedgerImplemented == Spec => ImplementsLedger
BY InitType, NextType, InitView, NextView, InitVote, NextVote,
   InitPool, NextPool, InitCommitCert, NextCommitCert,
   InitAgreement, NextAgreement, InitLedger, NextLedger,
   PTL DEF Spec, ImplementsLedger, Ledger!Spec

-----------------------------------------------------------------------------
(* What leaves a pool of transactions. *)

\* The transactions of the block that ends a chain are executed there.
LEMMA LastIsExecuted ==
  ASSUME NEW b \in Block, b # <<>>, NEW x \in Last(b).txs
  PROVE  x \in Executed(b)
<1>1. Len(b) \in Nat \ {0} /\ Last(b) = b[Len(b)]
  BY ParentOfBlock
<1>2. Len(b) \in 1..Len(b)
  BY <1>1
<1> QED
  BY <1>1, <1>2 DEF Executed

\* getTxForBloc deletes no command that its sender may still give.
LEMMA StaleIsInvalid ==
  ASSUME NEW pool \in SUBSET Tx, NEW vs, NEW sel \in Selection(pool, vs),
         NEW x \in sel.stale
  PROVE  x \in Command /\ ~VerifyAsCommand(x, vs)
<1> DEFINE valid == {c \in pool \cap Command : VerifyAsCommand(c, vs)}
           stale == (pool \cap Command) \ valid
<1>1. sel.stale \in SUBSET stale
  <2>1. CASE valid # {}
    BY <2>1 DEF Selection
  <2>2. CASE valid = {}
    BY <2>2 DEF Selection
  <2> QED
    BY <2>1, <2>2
<1> QED
  BY <1>1

\* The pools of the nodes change by an addition, a proposal or a finalized block.
LEMMA TxFrame ==
  ASSUME [Next]_vars
  PROVE  \/ UNCHANGED txPool
         \/ \E n \in Correct, x \in Tx : ReceiveDealerTransaction(n, x)
         \/ \E n \in Correct : AddTransaction(n) \/ Propose(n) \/ Finalize(n)
BY NextCases DEF vars, txVars, SendPrepare, SendCommit, CheckTransaction,
   AcceptPrePrepare, DropPrePrepare, ReceivePrepare, ReceiveCommit

\* What a step takes out of a pool it executes, or nobody may ask for.
LeavesPool ==
  \A n \in Correct : \A x \in txPool[n] \ txPool'[n] :
    \/ x \in Executed(chain'[n])
    \/ x \in Command /\ ~VerifyAsCommand(x, validators[n])

\* Every action takes out of pools only that.
LEMMA NextLeaves == TypeInv /\ [Next]_vars => LeavesPool
<1> SUFFICES ASSUME TypeInv, [Next]_vars PROVE LeavesPool
  OBVIOUS
<1>0. txPool \in [Correct -> SUBSET Tx]
  BY DEF TypeInv, TypeOK
<1>1. CASE UNCHANGED txPool
  BY <1>1 DEF LeavesPool
<1>2. ASSUME NEW n \in Correct, NEW y, AddToPool(n, y)
      PROVE  LeavesPool
  <2>1. \A m \in Correct : txPool[m] \subseteq txPool'[m]
    BY <1>0, <1>2 DEF AddToPool
  <2> QED
    BY <2>1 DEF LeavesPool
<1>3. ASSUME NEW n \in Correct, Propose(n)
      PROVE  LeavesPool
  <2>1. PICK sel \in Selection(txPool[n], validators[n]) :
          txPool' = [txPool EXCEPT ![n] = @ \ sel.stale]
    BY <1>3 DEF Propose
  <2>2. /\ txPool'[n] = txPool[n] \ sel.stale
        /\ \A m \in Correct \ {n} : txPool'[m] = txPool[m]
    BY <1>0, <2>1
  <2>3. \A x \in sel.stale : x \in Command /\ ~VerifyAsCommand(x, validators[n])
    BY <1>0, StaleIsInvalid
  <2> QED
    BY <2>2, <2>3 DEF LeavesPool
<1>4. ASSUME NEW n \in Correct, Finalize(n)
      PROVE  LeavesPool
  <2> DEFINE b == currentHash[n]
  <2>1. /\ chain' = [chain EXCEPT ![n] = b]
        /\ txPool' = [txPool EXCEPT ![n] = @ \ Last(b).txs]
        /\ chain \in [Correct -> Block]
    BY <1>4 DEF Finalize, AddUpdatedBlock, TypeInv, TypeOK
  <2>2. /\ txPool'[n] = txPool[n] \ Last(b).txs
        /\ chain'[n] = b
        /\ \A m \in Correct \ {n} : txPool'[m] = txPool[m]
    BY <1>0, <2>1
  <2>3. \A x \in Last(b).txs : x \in Executed(b)
    BY <1>4, FinalizeType, LastIsExecuted
  <2> QED
    BY <2>2, <2>3 DEF LeavesPool
<1> QED
  BY <1>1, <1>2, <1>3, <1>4, TxFrame
  DEF ReceiveDealerTransaction, AddTransaction

\* A transaction leaves the pool of a node only in the step that executes it
\* there, unless it is a command that its sender may no longer give.
THEOREM LeavesPoolCorrect == Spec => LeavesPoolWhenExecuted
<1>1. LeavesPool => [\A n \in Correct : \A x \in txPool[n] \ txPool'[n] :
         \/ x \in Executed(chain'[n])
         \/ x \in Command /\ ~VerifyAsCommand(x, validators[n])]_vars
  BY DEF LeavesPool
<1> QED
  BY <1>1, InitType, NextType, NextLeaves, PTL DEF Spec, LeavesPoolWhenExecuted

-----------------------------------------------------------------------------
(* What is executed once.  Receivers of a block do not ask whether its      *)
(* transactions are in their chain already (block.go:82-99): that no        *)
(* dealer's transaction is executed twice rests on the pools of the nodes   *)
(* that propose.  A faulty one may propose only the first block.            *)

LaterProposersCorrect ==
  \A c \in Block, vs \in LegalSets :
    0 < Len(c) /\ Len(c) < MaxHeight => Pick(c, vs) \in Correct

\* No dealer's transaction is in two blocks of a chain.
NoRepeats(b) ==
  \A i, j \in 1..Len(b) : b[i].txs \cap b[j].txs \cap DealerTx # {} => i = j

\* No chain, no block in a pool and no PrePrepare of a correct node repeats one, ...
BlocksInv ==
  /\ \A n \in Correct : NoRepeats(chain[n])
  /\ \A n \in Correct : \A b \in blockPool[n] : NoRepeats(b)
  /\ \A m \in preprepares : m.signer \in Correct => NoRepeats(m.block)

\* ... because none waits in a pool that the node has executed already, ...
WaitingInv ==
  \A n \in Correct :
    /\ txPool[n] \cap DealerTx \cap Executed(chain[n]) = {}
    /\ intake[n] \notin DealerTx

\* ... and the effects of a node are those of the blocks of its chain.
EffectsInv ==
  \A n \in Correct : \A e \in effects[n] :
    /\ e = <<e[1], e[2]>>
    /\ e[2] \in 1..Len(chain[n])
    /\ e[1] \in chain[n][e[2]].txs \cap DealerTx

\* A block that executes nothing of its parent again repeats nothing.
LEMMA ChildRepeatsNothing ==
  ASSUME NEW c \in Block, NEW d \in Payload, Len(c) < MaxHeight, NoRepeats(c),
         d.txs \cap DealerTx \cap Executed(c) = {}
  PROVE  NoRepeats(Append(c, d))
<1> DEFINE b == Append(c, d)
<1>1. /\ Len(b) = Len(c) + 1 /\ Len(c) \in Nat
      /\ \A i \in 1..Len(c) : b[i] = c[i]
      /\ b[Len(c) + 1] = d
  BY AppendIsBlock, BlockIsSeq
<1>2. \A i \in 1..Len(c) : c[i].txs \cap d.txs \cap DealerTx = {}
  BY DEF Executed
<1> HIDE DEF b
<1>3. ASSUME NEW i \in 1..Len(b), NEW j \in 1..Len(b),
             b[i].txs \cap b[j].txs \cap DealerTx # {}
      PROVE  i = j
  <2>1. CASE i \in 1..Len(c) /\ j \in 1..Len(c)
    BY <1>1, <1>3, <2>1 DEF NoRepeats
  <2>2. CASE i \in 1..Len(c) /\ j = Len(c) + 1
    BY <1>1, <1>2, <1>3, <2>2
  <2>3. CASE i = Len(c) + 1 /\ j \in 1..Len(c)
    BY <1>1, <1>2, <1>3, <2>3
  <2>4. CASE i = Len(c) + 1 /\ j = Len(c) + 1
    BY <2>4
  <2> QED
    BY <1>1, <2>1, <2>2, <2>3, <2>4
<1> QED
  BY <1>3 DEF NoRepeats, b

\* The first block repeats nothing.
LEMMA FirstRepeatsNothing ==
  ASSUME NEW b \in Block, Len(b) <= 1
  PROVE  NoRepeats(b)
BY BlockIsSeq DEF NoRepeats

\* What a proposer selects was in its pool.
LEMMA SelectedIsPooled ==
  ASSUME NEW pool \in SUBSET Tx, NEW vs, NEW sel \in Selection(pool, vs)
  PROVE  sel.txs \subseteq pool
<1> DEFINE valid == {x \in pool \cap Command : VerifyAsCommand(x, vs)}
<1>1. CASE valid # {}
  BY <1>1 DEF Selection
<1>2. CASE valid = {}
  BY <1>2 DEF Selection
<1> QED
  BY <1>1, <1>2

\* A chain executes what its parent does, and its last block.
LEMMA ExecutedByBlock ==
  ASSUME NEW b \in Block, b # <<>>
  PROVE  Executed(b) = Executed(Front(b)) \cup Last(b).txs
<1>1. /\ Len(b) = Len(Front(b)) + 1 /\ Len(Front(b)) \in Nat
      /\ \A i \in 1..Len(Front(b)) : Front(b)[i] = b[i]
      /\ Last(b) = b[Len(b)]
  BY ParentOfBlock, BlockIsSeq
<1>2. 1..Len(b) = 1..Len(Front(b)) \cup {Len(b)}
  BY <1>1
<1>3. ASSUME NEW x
      PROVE  x \in Executed(b) <=> x \in Executed(Front(b)) \/ x \in Last(b).txs
  <2>1. x \in Executed(b) <=> \E i \in 1..Len(b) : x \in b[i].txs
    BY DEF Executed
  <2>2. x \in Executed(Front(b)) <=> \E i \in 1..Len(Front(b)) : x \in b[i].txs
    BY <1>1 DEF Executed
  <2> QED
    BY <1>1, <1>2, <2>1, <2>2
<1> QED
  BY <1>3

\* Nothing is executed initially.
LEMMA InitEffects == Init => BlocksInv /\ WaitingInv /\ EffectsInv
<1> SUFFICES ASSUME Init PROVE BlocksInv /\ WaitingInv /\ EffectsInv
  OBVIOUS
<1>1. NoRepeats(<<>>)
  BY EmptyIsBlock, FirstRepeatsNothing
<1>2. BlocksInv
  BY <1>1 DEF Init, BlocksInv
<1>3. NoTx \notin DealerTx
  BY TxAssumption DEF DealerTx
<1>4. WaitingInv
  BY <1>3 DEF Init, WaitingInv
<1>5. EffectsInv
  BY DEF Init, EffectsInv
<1> QED
  BY <1>2, <1>4, <1>5

\* A PrePrepare that is accepted repeats nothing: it is of a correct node, or
\* carries the first block.
LEMMA AcceptedRepeatsNothing ==
  ASSUME TypeInv, ViewFollowsChain, BlocksInv, LaterProposersCorrect,
         NEW n \in Correct, NEW b \in Block, NEW s, AcceptPrePrepare(n, b, s)
  PROVE  NoRepeats(b)
<1>1. /\ b # <<>> /\ Front(b) = chain[n] /\ s = proposer[n]
      /\ Len(chain[n]) < MaxHeight
  BY DEF AcceptPrePrepare, IsValidNewBlock, IsNextBlock
<1>2. chain[n] \in Block /\ Len(chain[n]) \in Nat
  BY BlockIsSeq DEF TypeInv, TypeOK
<1>3. CASE s \in Correct
  <2>1. \E m \in preprepares : m.block = b /\ m.signer = s
    BY <1>3 DEF AcceptPrePrepare, Deliver, Correct
  <2> QED
    BY <1>3, <2>1 DEF BlocksInv
<1>4. CASE s \notin Correct
  <2>1. s = Pick(chain[n], ActiveAfter(chain[n])) /\ ActiveAfter(chain[n]) \in LegalSets
    BY <1>1, <1>2, ActiveAfterLegal DEF ViewFollowsChain
  <2>2. Len(chain[n]) = 0
    BY <1>1, <1>2, <1>4, <2>1 DEF LaterProposersCorrect
  <2>3. Len(b) <= 1
    BY <1>1, <2>2, ParentOfBlock
  <2> QED
    BY <2>3, FirstRepeatsNothing
<1> QED
  BY <1>3, <1>4

\* Every action keeps BlocksInv.
LEMMA NextBlocksInv ==
  ASSUME TypeInv, ViewFollowsChain, BlocksInv, WaitingInv, LaterProposersCorrect,
         [Next]_vars
  PROVE  BlocksInv'
<1> USE DEF vars, ledgerVars, roundVars, poolVars, txVars, netVars
<1>0. /\ chain \in [Correct -> Block] /\ blockPool \in [Correct -> SUBSET Block]
      /\ txPool \in [Correct -> SUBSET Tx]
  BY DEF TypeInv, TypeOK
<1>1. ASSUME NEW n \in Correct, Propose(n)
      PROVE  BlocksInv'
  <2>1. PICK sel \in Selection(txPool[n], validators[n]), t \in Stamp :
          LET b == Append(chain[n], [txs |-> sel.txs, stamp |-> t])
          IN /\ blockPool' = [blockPool EXCEPT ![n] = @ \cup {b}]
             /\ preprepares' = preprepares \cup PrePrepares(n, b, n)
    BY <1>1 DEF Propose
  <2> DEFINE d == [txs |-> sel.txs, stamp |-> t]
             b == Append(chain[n], d)
  <2>2. chain[n] \in Block /\ Len(chain[n]) < MaxHeight /\ chain' = chain
    BY <1>0, <1>1 DEF Propose
  <2>3. d \in Payload /\ d.txs \subseteq txPool[n]
    BY <1>0, SelectionType, SelectedIsPooled
  <2>4. d.txs \cap DealerTx \cap Executed(chain[n]) = {}
    BY <2>3 DEF WaitingInv
  <2>5. NoRepeats(chain[n])
    BY DEF BlocksInv
  <2>6. /\ blockPool' = [blockPool EXCEPT ![n] = @ \cup {b}]
        /\ preprepares' = preprepares \cup PrePrepares(n, b, n)
    BY <2>1
  <2> HIDE DEF d
  <2>7. NoRepeats(b)
    BY <2>2, <2>3, <2>4, <2>5, ChildRepeatsNothing
  <2> HIDE DEF b
  <2>8. \A m \in PrePrepares(n, b, n) : m.block = b
    BY DEF PrePrepares
  <2>9. /\ blockPool'[n] = blockPool[n] \cup {b}
        /\ \A m \in Correct \ {n} : blockPool'[m] = blockPool[m]
    BY <1>0, <2>6
  <2> QED
    BY <2>2, <2>6, <2>7, <2>8, <2>9 DEF BlocksInv
<1>2. ASSUME NEW n \in Correct, Finalize(n)
      PROVE  BlocksInv'
  <2> DEFINE b == currentHash[n]
  <2>1. /\ chain' = [chain EXCEPT ![n] = b]
        /\ UNCHANGED <<blockPool, preprepares>>
        /\ b \in blockPool[n]
    BY <1>2 DEF Finalize, AddUpdatedBlock, CanFinalize
  <2>2. NoRepeats(b)
    BY <2>1 DEF BlocksInv
  <2> HIDE DEF b
  <2>3. chain'[n] = b /\ \A m \in Correct \ {n} : chain'[m] = chain[m]
    BY <1>0, <2>1
  <2> QED
    BY <2>1, <2>2, <2>3 DEF BlocksInv
<1>3. ASSUME NEW n \in Correct, NEW msg \in ReachingBlocks(n),
             AcceptPrePrepare(n, msg[1], msg[2])
      PROVE  BlocksInv'
  <2> DEFINE b == msg[1]
  <2>1. b \in Block
    BY <1>3, ReachingBlocksType DEF AcceptPrePrepare, TypeInv
  <2>2. NoRepeats(b)
    BY <1>3, <2>1, AcceptedRepeatsNothing
  <2>3. /\ blockPool' = [blockPool EXCEPT ![n] = @ \cup {b}]
        /\ preprepares' \subseteq preprepares \cup PrePrepares(n, b, msg[2])
        /\ chain' = chain
    BY <1>3 DEF AcceptPrePrepare, Deliver
  <2> HIDE DEF b
  <2>4. \A m \in PrePrepares(n, b, msg[2]) : m.block = b
    BY DEF PrePrepares
  <2>5. /\ blockPool'[n] = blockPool[n] \cup {b}
        /\ \A m \in Correct \ {n} : blockPool'[m] = blockPool[m]
    BY <1>0, <2>3
  <2> QED
    BY <2>2, <2>3, <2>4, <2>5 DEF BlocksInv
<1>4. ASSUME NEW n \in Correct, NEW msg \in ReachingBlocks(n),
             DropPrePrepare(n, msg[1], msg[2])
      PROVE  BlocksInv'
  <2>1. preprepares' \subseteq preprepares /\ UNCHANGED <<chain, blockPool>>
    BY <1>4 DEF DropPrePrepare, Deliver
  <2> QED
    BY <2>1 DEF BlocksInv
<1>5. CASE UNCHANGED <<chain, blockPool, preprepares>>
  BY <1>5 DEF BlocksInv
<1> QED
  BY <1>1, <1>2, <1>3, <1>4, <1>5, NextCases
  DEF SendPrepare, SendCommit, ReceiveDealerTransaction, CheckTransaction,
      AddTransaction, ReceivePrepare, ReceiveCommit

\* Every action keeps WaitingInv: a dealer's transaction is checked and added
\* in one step, and what a block executes leaves the pool with it.
LEMMA NextWaiting ==
  ASSUME TypeInv, WaitingInv, [Next]_vars
  PROVE  WaitingInv'
<1> USE DEF vars, ledgerVars, roundVars, poolVars, txVars, netVars
<1>0. /\ chain \in [Correct -> Block] /\ txPool \in [Correct -> SUBSET Tx]
      /\ intake \in [Correct -> Tx \cup {NoTx}]
  BY DEF TypeInv, TypeOK
<1>1. ASSUME NEW n \in Correct, Propose(n)
      PROVE  WaitingInv'
  <2>1. PICK sel \in Selection(txPool[n], validators[n]) :
          txPool' = [txPool EXCEPT ![n] = @ \ sel.stale]
    BY <1>1 DEF Propose
  <2>2. \A m \in Correct : txPool'[m] \subseteq txPool[m]
    BY <1>0, <2>1
  <2>3. UNCHANGED <<chain, intake>>
    BY <1>1 DEF Propose
  <2> QED
    BY <2>2, <2>3 DEF WaitingInv
<1>2. ASSUME NEW n \in Correct, Finalize(n)
      PROVE  WaitingInv'
  <2> DEFINE b == currentHash[n]
  <2>1. /\ chain' = [chain EXCEPT ![n] = b]
        /\ txPool' = [txPool EXCEPT ![n] = @ \ Last(b).txs]
        /\ UNCHANGED intake
    BY <1>2 DEF Finalize, AddUpdatedBlock
  <2>2. Executed(b) = Executed(chain[n]) \cup Last(b).txs
    BY <1>2, FinalizeType, ExecutedByBlock
  <2> HIDE DEF b
  <2>3. /\ chain'[n] = b /\ txPool'[n] = txPool[n] \ Last(b).txs
        /\ \A m \in Correct \ {n} : chain'[m] = chain[m] /\ txPool'[m] = txPool[m]
    BY <1>0, <2>1
  <2>4. txPool'[n] \cap DealerTx \cap Executed(chain'[n]) = {}
    BY <2>2, <2>3 DEF WaitingInv
  <2> QED
    BY <2>1, <2>3, <2>4 DEF WaitingInv
<1>3. ASSUME NEW n \in Correct, NEW x \in Tx, ReceiveDealerTransaction(n, x)
      PROVE  WaitingInv'
  <2>1. /\ x \notin Executed(chain[n]) /\ UNCHANGED <<chain, intake>>
        /\ \A m \in Correct : txPool'[m] \subseteq
             (IF m = n THEN txPool[m] \cup {x} ELSE txPool[m])
    BY <1>0, <1>3 DEF ReceiveDealerTransaction, AddToPool, IsNewTx
  <2> QED
    BY <2>1 DEF WaitingInv
<1>4. ASSUME NEW n \in Correct, NEW x \in Tx, CheckTransaction(n, x)
      PROVE  WaitingInv'
  <2>1. /\ x \notin DealerTx /\ UNCHANGED <<chain, txPool>>
        /\ intake' = [intake EXCEPT ![n] = x]
    BY <1>4 DEF CheckTransaction
  <2> QED
    BY <1>0, <2>1 DEF WaitingInv
<1>5. ASSUME NEW n \in Correct, AddTransaction(n)
      PROVE  WaitingInv'
  <2>1. /\ UNCHANGED chain /\ intake[n] \notin DealerTx
        /\ \A m \in Correct : txPool'[m] \subseteq txPool[m] \cup {intake[n]}
        /\ intake' = [intake EXCEPT ![n] = NoTx]
    BY <1>0, <1>5 DEF AddTransaction, AddToPool, WaitingInv
  <2>2. NoTx \notin DealerTx
    BY TxAssumption DEF DealerTx
  <2>3. \A m \in Correct : intake'[m] \notin DealerTx
    BY <1>0, <2>1, <2>2 DEF WaitingInv
  <2> QED
    BY <2>1, <2>3 DEF WaitingInv
<1>6. CASE UNCHANGED <<chain, txPool, intake>>
  BY <1>6 DEF WaitingInv
<1> QED
  BY <1>1, <1>2, <1>3, <1>4, <1>5, <1>6, NextCases
  DEF SendPrepare, SendCommit, AcceptPrePrepare, DropPrePrepare, ReceivePrepare,
      ReceiveCommit

\* Every action keeps EffectsInv: effects are started with the block.
LEMMA NextEffects ==
  ASSUME TypeInv, EffectsInv, [Next]_vars
  PROVE  EffectsInv'
<1>0. chain \in [Correct -> Block] /\ effects \in [Correct -> SUBSET (Tx \X Nat)]
  BY DEF TypeInv, TypeOK
<1>1. CASE UNCHANGED ledgerVars
  BY <1>1 DEF ledgerVars, EffectsInv
<1>2. ASSUME NEW n \in Correct, Finalize(n)
      PROVE  EffectsInv'
  <2> DEFINE b == currentHash[n]
             new == (Last(b).txs \cap DealerTx) \X {Len(b)}
  <2>1. /\ chain' = [chain EXCEPT ![n] = b]
        /\ effects' = [effects EXCEPT ![n] = @ \cup new]
    BY <1>2 DEF Finalize, AddUpdatedBlock
  <2>2. /\ Len(chain[n]) \in Nat /\ Len(b) = Len(chain[n]) + 1
        /\ \A i \in 1..Len(chain[n]) : chain[n][i] = b[i]
        /\ Last(b) = b[Len(b)]
    BY <1>0, <1>2, FinalizeType, ParentOfBlock, BlockIsSeq
  <2>3. ASSUME NEW e \in new
        PROVE  e = <<e[1], e[2]>> /\ e[2] = Len(b) /\ e[1] \in Last(b).txs \cap DealerTx
    OBVIOUS
  <2> HIDE DEF b, new
  <2>4. /\ chain'[n] = b /\ effects'[n] = effects[n] \cup new
        /\ \A m \in Correct \ {n} : chain'[m] = chain[m] /\ effects'[m] = effects[m]
    BY <1>0, <2>1
  <2>5. ASSUME NEW e \in effects[n]
        PROVE  /\ e = <<e[1], e[2]>> /\ e[2] \in 1..Len(b)
               /\ e[1] \in b[e[2]].txs \cap DealerTx
    BY <2>2, <2>5 DEF EffectsInv
  <2>6. ASSUME NEW e \in new
        PROVE  /\ e = <<e[1], e[2]>> /\ e[2] \in 1..Len(b)
               /\ e[1] \in b[e[2]].txs \cap DealerTx
    BY <2>2, <2>3
  <2> QED
    BY <2>4, <2>5, <2>6 DEF EffectsInv
<1> QED
  BY <1>1, <1>2, LedgerFrame

\* Effects of one transaction are of one block: two chains agree as far as
\* both go, and the longer repeats nothing.
LEMMA EffectsAgree ==
  ASSUME TypeInv, Agreement, BlocksInv, EffectsInv
  PROVE  EffectsOnce
<1> SUFFICES ASSUME NEW m \in Correct, NEW n \in Correct,
                    NEW e1 \in effects[m], NEW e2 \in effects[n], e1[1] = e2[1]
             PROVE  e1 = e2
  BY DEF EffectsOnce
<1>1. ASSUME NEW p \in Correct, NEW q \in Correct, NEW f \in effects[p], NEW g \in effects[q],
             f[1] = g[1], IsPrefix(chain[p], chain[q])
      PROVE  f[2] = g[2]
  <2>1. chain[p] \in Block /\ chain[q] \in Block
    BY DEF TypeInv, TypeOK
  <2>2. Len(chain[p]) \in Nat /\ Len(chain[q]) \in Nat
    BY <2>1, BlockIsSeq
  <2>3. /\ Len(chain[p]) <= Len(chain[q])
        /\ \A i \in 1..Len(chain[p]) : chain[p][i] = chain[q][i]
    BY <1>1, <2>1, PrefixPointwise
  <2>4. /\ f[2] \in 1..Len(chain[p]) /\ f[1] \in chain[p][f[2]].txs \cap DealerTx
        /\ g[2] \in 1..Len(chain[q]) /\ g[1] \in chain[q][g[2]].txs \cap DealerTx
    BY DEF EffectsInv
  <2>5. f[2] \in 1..Len(chain[q]) /\ f[1] \in chain[q][f[2]].txs
    BY <2>2, <2>3, <2>4
  <2>6. NoRepeats(chain[q])
    BY DEF BlocksInv
  <2> QED
    BY <1>1, <2>4, <2>5, <2>6 DEF NoRepeats
<1>2. IsPrefix(chain[m], chain[n]) \/ IsPrefix(chain[n], chain[m])
  BY DEF Agreement
<1>3. e1[2] = e2[2]
  BY <1>1, <1>2
<1> QED
  BY <1>3 DEF EffectsInv

\* When correct nodes propose every block but the first, a dealer's
\* transaction takes effect at one height only, the same at every node,
\* whatever the first proposer and the faulty voters do.
THEOREM EffectsOnceCorrect ==
  ASSUME LaterProposersCorrect
  PROVE  Spec => []EffectsOnce
<1>1. TypeInv /\ ViewFollowsChain /\ BlocksInv /\ WaitingInv /\ EffectsInv /\ [Next]_vars
        => BlocksInv' /\ WaitingInv' /\ EffectsInv'
  BY LaterProposersCorrect, NextBlocksInv, NextWaiting, NextEffects
<1>2. TypeInv /\ Agreement /\ BlocksInv /\ EffectsInv => EffectsOnce
  BY EffectsAgree
<1> QED
  BY <1>1, <1>2, InitType, NextType, InitView, NextView, InitEffects,
     AgreementCorrect, PTL DEF Spec
=============================================================================
