-------------------------- MODULE TransactionPool --------------------------
(***************************************************************************)
(* The transaction pool of one node (Blockchain/TransactionPool.go), with  *)
(* the goroutines that work on it: the loop that owns it, the helpers the  *)
(* loop starts, and its two callers, transactionHandler (the clients'      *)
(* transactions) and MsgHandlerGoroutine (transactions with priority, the  *)
(* proposals of this node, the blocks it finalizes).                       *)
(*                                                                         *)
(* A caller sends its request over an unbuffered channel and waits for the *)
(* answer.  The loop answers additions and removals itself; for the other  *)
(* requests it starts a helper goroutine and goes on.  A removal waits for *)
(* the helpers, an addition does not, so an addition runs beside them.     *)
(* An addition is therefore several steps: the map, the list, the          *)
(* reaction to overload.                                                   *)
(*                                                                         *)
(* PBFTConsensus has the pool as a set and its operations as single steps. *)
(***************************************************************************)
EXTENDS Integers, FiniteSets, Sequences, SequencesExt

CONSTANTS
  Tx,            \* transactions that are no commands
  Command,       \* transactions whose input is a Commande
  Ordinary,      \* what clients send, for transactionHandler
  Priority,      \* what is sent with Message.Priority, for MsgHandlerGoroutine
  Timestamp,     \* [Tx -> Nat], TransaCore.Timestamp
  Behaviors,     \* values of overloadBehavior to consider
  Threshold,     \* transactionThresold, 32768
  KeptShare,     \* almostClear keeps Threshold / KeptShare, 64
  BlockSize,     \* config.BlockSize
  StopChanSize   \* the buffer of the stop channel, 8

ASSUME TxAssumption ==
  /\ IsFiniteSet(Tx) /\ IsFiniteSet(Command) /\ Tx \cap Command = {}
  /\ Ordinary \cup Priority \subseteq Tx \cup Command
  /\ Ordinary \cap Priority = {}  \* a message keeps its priority when sent on
  /\ Timestamp \in [Tx -> Nat]
ASSUME BoundAssumption ==
  /\ Behaviors \subseteq {"Nothing", "Ignore", "Drop"}
  /\ Threshold \in Nat \ {0} /\ KeptShare \in Nat \ {0}
  /\ BlockSize \in Nat \ {0} /\ StopChanSize \in Nat \ {0}

AnyTx == Tx \cup Command
Caller == {"transactionHandler", "MsgHandler"}

VARIABLES
  \* the pool, shared by the loop and its helpers
  transactions, commands,  \* the two maps
  sortedList,              \* sortedLinkedList, from start to end
  behavior,                \* overloadBehavior, set at start
  status,                  \* stopChanHandler.status
  \* the loop: what it is in the middle of, for the caller it serves
  phase,
  \* the callers
  call,      \* what each is doing, with what, and who has it
  stopChan,  \* the channel from the pool to transactionHandler
  addTx,     \* transactionHandler's copy of the status
  round,     \* "follow", "lead" (NewRoundProposer), "proposed", "flush"
  proposed,  \* the block this node proposed in this round
  flushing,  \* transactions of the finalized block that are still to flush
  executed,  \* BlockChain.executedTx
  outdated,  \* commands that VerifyAsCommandShort refuses at present
  work,      \* local variables of the helper that runs getTxForBloc
  crashed    \* "no", or what stopped the process

poolVars == <<transactions, commands, sortedList, behavior, status>>
handlerVars == <<stopChan, addTx>>
blockVars == <<round, proposed, flushing, executed, outdated>>
vars == <<poolVars, phase, call, handlerVars, blockVars, work, crashed>>

Idle == [op |-> "none", at |-> "self"]
Request(op, x) == [op |-> op, at |-> "channel", tx |-> x]
Passed(req, place) == [req EXCEPT !.at = place]
NoWork == [step |-> "none", potential |-> <<>>, picked |-> <<>>, i |-> 0]

Calls ==
  {Idle} \cup
  [op : {"exist"}, at : {"channel", "helper"}, tx : AnyTx] \cup
  [op : {"chain"}, at : {"self"}, tx : AnyTx] \cup
  [op : {"add", "remove"}, at : {"channel", "loop"}, tx : AnyTx] \cup
  [op : {"size", "get"}, at : {"channel", "helper"}, tx : {"all"}]

TypeOK ==
  /\ transactions \subseteq Tx /\ Cardinality(transactions) <= Threshold
  /\ commands \subseteq Command /\ Cardinality(commands) <= Threshold
  /\ sortedList \in Seq(Tx)
  /\ behavior \in Behaviors /\ status \in BOOLEAN
  /\ phase \in {"select", "wait", "write", "insert", "drop", "relist"}
  /\ call \in [Caller -> Calls]
  /\ stopChan \in Seq(BOOLEAN) /\ Len(stopChan) <= StopChanSize
  /\ addTx \in BOOLEAN
  /\ round \in {"follow", "lead", "proposed", "flush"}
  /\ proposed \in Seq(AnyTx) /\ flushing \in Seq(AnyTx)
  /\ executed \subseteq AnyTx /\ outdated \subseteq Command
  /\ work \in [step : {"none", "commands", "list", "check", "fill"},
              potential : Seq(Tx), picked : Seq(Tx), i : Nat]
  /\ crashed \in {"no", "nil dereference", "map race"}

Init ==
  /\ transactions = {} /\ commands = {} /\ sortedList = <<>>
  /\ behavior \in Behaviors /\ status = TRUE
  /\ phase = "select"
  /\ call = [c \in Caller |-> Idle]
  /\ stopChan = <<>> /\ addTx = TRUE
  /\ round \in {"follow", "lead"} /\ proposed = <<>> /\ flushing = <<>>
  /\ executed = {} /\ outdated = {}
  /\ work = NoWork /\ crashed = "no"

Becomes(c, req) == call' = [call EXCEPT ![c] = req]
Running == crashed = "no"
IsIdle(c) == Running /\ call[c] = Idle
IsAt(p) == Running /\ phase = p
Waits(c, ops) == IsAt("select") /\ call[c].at = "channel" /\ call[c].op \in ops
Helps(c, op) == Running /\ call[c].at = "helper" /\ call[c].op = op
Served == CHOOSE c \in Caller : call[c].at = "loop"
InHelper == {c \in Caller : call[c].at = "helper"}

-----------------------------------------------------------------------------
(* The callers. *)

\* Take a transaction from the channel of this goroutine and ask whether the
\* pool has it.  An ordinary transaction is dropped while addTx is FALSE.
ReceiveTransaction(c, x) ==
  /\ IsIdle(c)
  /\ IF c = "MsgHandler" THEN x \in Priority
     ELSE x \in Ordinary /\ (addTx \/ x \in Command)
  /\ Becomes(c, Request("exist", x))
  /\ UNCHANGED <<poolVars, phase, handlerVars, blockVars, work, crashed>>

\* transactionHandler: addTx = <-stopAddTxChan.
ReadStatus ==
  /\ IsIdle("transactionHandler")
  /\ stopChan # <<>>
  /\ addTx' = Head(stopChan)
  /\ stopChan' = Tail(stopChan)
  /\ UNCHANGED <<poolVars, phase, call, blockVars, work, crashed>>

\* The rest of receiveTransacMess, once the pool has answered that it does not
\* have the transaction: ask the chain (its lock is held during a flush) and
\* check a command, then add it.
CheckChain(c) ==
  /\ Running /\ call[c].op = "chain"
  /\ round # "flush"
  /\ Becomes(c, IF call[c].tx \in executed \cup outdated
                THEN Idle ELSE Request("add", call[c].tx))
  /\ UNCHANGED <<poolVars, phase, handlerVars, blockVars, work, crashed>>

\* NewRoundProposer.giveMeNext: propose a block if the pool is not empty.
StartProposal ==
  /\ IsIdle("MsgHandler")
  /\ round = "lead"
  /\ Becomes("MsgHandler", Request("size", "all"))
  /\ UNCHANGED <<poolVars, phase, handlerVars, blockVars, work, crashed>>

\* The blocks other nodes propose.
ForeignBlock ==
  {<<x>> : x \in Command \ executed} \cup
  {b \in SeqOf(Tx \ executed, BlockSize) : b # <<>> /\ IsInjective(b)}

\* A block is finalized, this node's or another's: flushTransaction begins.
FinalizeBlock ==
  /\ IsIdle("MsgHandler")
  /\ \/ round = "proposed" /\ flushing' = proposed
     \/ round = "follow" /\ flushing' \in ForeignBlock
  /\ round' = "flush"
  /\ proposed' = <<>>
  /\ UNCHANGED <<poolVars, phase, call, handlerVars, executed, outdated, work,
                 crashed>>

\* flushTransaction: apply a command, note the transaction as executed, ask the
\* pool to remove it.  A command changes which commands are valid.
FlushNext ==
  /\ IsIdle("MsgHandler")
  /\ round = "flush" /\ flushing # <<>>
  /\ executed' = executed \cup {Head(flushing)}
  /\ IF Head(flushing) \in Command
     THEN outdated' \in SUBSET Command ELSE UNCHANGED outdated
  /\ Becomes("MsgHandler", Request("remove", Head(flushing)))
  /\ flushing' = Tail(flushing)
  /\ UNCHANGED <<poolVars, phase, handlerVars, round, proposed, work, crashed>>

\* updateProposer: this node may be the next proposer.
EndFlush ==
  /\ IsIdle("MsgHandler")
  /\ round = "flush" /\ flushing = <<>>
  /\ round' \in {"follow", "lead"}
  /\ UNCHANGED <<poolVars, phase, call, handlerVars, proposed, flushing,
                 executed, outdated, work, crashed>>

-----------------------------------------------------------------------------
(* loopTransactionPool. *)

\* Requests that a helper goroutine answers.
StartHelper(c) ==
  /\ Waits(c, {"exist", "size", "get"})
  /\ Becomes(c, Passed(call[c], "helper"))
  /\ work' = IF call[c].op = "get" THEN [NoWork EXCEPT !.step = "commands"] ELSE work
  /\ UNCHANGED <<poolVars, phase, handlerVars, blockVars, crashed>>

HasRoom(x) == IF x \in Command THEN Cardinality(commands) < Threshold
              ELSE Cardinality(transactions) < Threshold

\* addTransaction: refuse, or begin to write the map.
BeginAdd(c) ==
  /\ Waits(c, {"add"})
  /\ IF HasRoom(call[c].tx)
     THEN Becomes(c, Passed(call[c], "loop")) /\ phase' = "write"
     ELSE Becomes(c, Idle) /\ UNCHANGED phase
  /\ UNCHANGED <<poolVars, handlerVars, blockVars, work, crashed>>

EndWrite ==
  /\ IsAt("write")
  /\ LET x == call[Served].tx
     IN IF x \in Command
        THEN /\ commands' = commands \cup {x}
             /\ phase' = "select" /\ Becomes(Served, Idle)
             /\ UNCHANGED transactions
        ELSE /\ transactions' = transactions \cup {x}
             /\ phase' = "insert"
             /\ UNCHANGED <<commands, call>>
  /\ UNCHANGED <<sortedList, behavior, status, handlerVars, blockVars, work,
                 crashed>>

\* sortedLinkedList.insert: behind the last one that is not younger.
NotYounger(list, x) == {0} \cup {k \in DOMAIN list : Timestamp[list[k]] <= Timestamp[x]}
Inserted(list, x) == InsertAt(list, Max(NotYounger(list, x)) + 1, x)

\* Mutant: a change is dropped unless the channel is empty.
TellIfRead(new) ==
  /\ status' = new
  /\ stopChan' = IF new # status /\ stopChan = <<>>
                 THEN Append(stopChan, new) ELSE stopChan

\* tellIfContinu: send a changed status, unless the channel is full.
TellIfContinu(new) ==
  /\ status' = new
  /\ stopChan' = IF new # status /\ Len(stopChan) < StopChanSize
                 THEN Append(stopChan, new) ELSE stopChan

\* sortedList.insert, then overloadBehavior.afterTxAdd.
EndAdd ==
  /\ IsAt("insert")
  /\ sortedList' = Inserted(sortedList, call[Served].tx)
  /\ LET full == Cardinality(transactions) = Threshold
     IN /\ IF behavior = "Ignore" /\ full THEN TellIfContinu(FALSE)
           ELSE UNCHANGED <<status, stopChan>>
        /\ IF behavior = "Drop" /\ full THEN phase' = "drop" /\ UNCHANGED call
           ELSE phase' = "select" /\ Becomes(Served, Idle)
  /\ UNCHANGED <<transactions, commands, behavior, addTx, blockVars, work,
                 crashed>>

\* almostClear: the transactions that stay are the first of a walk over a map,
\* in any order; the walk is never cut short when their number is 0.
Kept == LET size == Threshold \div KeptShare
        IN IF size = 0 THEN {transactions}
           ELSE {k \in SUBSET transactions : Cardinality(k) = size}

DropTransactions ==
  /\ IsAt("drop")
  /\ transactions' \in Kept
  /\ phase' = "relist"
  /\ UNCHANGED <<commands, sortedList, behavior, status, call, handlerVars,
                 blockVars, work, crashed>>

ByAge(list) == \A j, k \in DOMAIN list :
                 j < k => Timestamp[list[j]] <= Timestamp[list[k]]

\* The new list takes the place of the old one.
ReplaceList ==
  /\ IsAt("relist")
  /\ sortedList' \in {l \in SetToSeqs(transactions) : ByAge(l)}
  /\ phase' = "select" /\ Becomes(Served, Idle)
  /\ UNCHANGED <<transactions, commands, behavior, status, handlerVars, blockVars,
                 work, crashed>>

\* A removal is taken, and the loop waits for the helpers.
BeginRemove(c) ==
  /\ Waits(c, {"remove"})
  /\ Becomes(c, Passed(call[c], "loop"))
  /\ phase' = "wait"
  /\ UNCHANGED <<poolVars, handlerVars, blockVars, work, crashed>>

\* sortedLinkedList.remove: the first with its hash.
RemovedFrom(list, x) == RemoveFirst(list, x)

\* txPoolSize() <= transactionThresold*3/4
MayResume(size) == size <= (3 * Threshold) \div 4

\* removeTransaction, with overloadBehavior.afterTxRemove.
EndRemove ==
  /\ IsAt("wait")
  /\ InHelper = {}
  /\ LET x == call[Served].tx
     IN IF x \in Command
        THEN /\ commands' = commands \ {x}
             /\ UNCHANGED <<transactions, sortedList, status, stopChan>>
        ELSE /\ transactions' = transactions \ {x}
             /\ sortedList' = IF x \in transactions
                              THEN RemovedFrom(sortedList, x) ELSE sortedList
             /\ IF /\ behavior = "Ignore" /\ ~status
                   /\ MayResume(Cardinality(transactions'))
                THEN TellIfContinu(TRUE) ELSE UNCHANGED <<status, stopChan>>
             /\ UNCHANGED commands
  /\ phase' = "select" /\ Becomes(Served, Idle)
  /\ UNCHANGED <<behavior, addTx, blockVars, work, crashed>>

-----------------------------------------------------------------------------
(* The helper goroutines. *)

\* existingTransaction
AnswerExist(c) ==
  /\ Helps(c, "exist")
  /\ Becomes(c, IF call[c].tx \in transactions \cup commands THEN Idle
                ELSE [call[c] EXCEPT !.op = "chain", !.at = "self"])
  /\ UNCHANGED <<poolVars, phase, handlerVars, blockVars, work, crashed>>

\* poolSize; the caller goes on with GetTxForBloc if it is not 0.
AnswerSize(c) ==
  /\ Helps(c, "size")
  /\ Becomes(c, IF transactions = {} /\ commands = {} THEN Idle
                ELSE Request("get", "all"))
  /\ UNCHANGED <<poolVars, phase, handlerVars, blockVars, work, crashed>>

\* getTxForBloc returns: NewRoundProposer.update sends the block to the others.
Answer(c, block) ==
  /\ proposed' = block
  /\ round' = "proposed"
  /\ Becomes(c, Idle)
  /\ work' = NoWork

Selecting(c, step) == Helps(c, "get") /\ work.step = step

\* Mutant: a command leaves the pool when it is proposed.
TakenOut(x, gone) == {x} \cup gone

\* "Command is NOT removed from the pool here": only invalid ones are.
LeavesWith(x, gone) == gone

\* getTxForBloc, the commands: the first valid one makes the block, the invalid
\* ones met before it are deleted.  A map is read in any order.
SelectCommand(c) ==
  LET valid == commands \ outdated
  IN /\ Selecting(c, "commands")
     /\ \/ \E x \in valid, gone \in SUBSET (commands \ valid) :
             /\ commands' = commands \ LeavesWith(x, gone)
             /\ Answer(c, <<x>>)
        \/ /\ valid = {}
           /\ commands' = {}
           /\ work' = [work EXCEPT !.step = "list"]
           /\ UNCHANGED <<call, round, proposed>>
     /\ UNCHANGED <<transactions, sortedList, behavior, status, phase,
                    handlerVars, flushing, executed, outdated, crashed>>

\* getFirstsElem(BlockSize), a walk along the list.
ListOldest(c) ==
  /\ Selecting(c, "list")
  /\ work' = [work EXCEPT
                !.potential = SubSeq(sortedList, 1, Min({BlockSize, Len(sortedList)})),
                !.step = "check"]
  /\ UNCHANGED <<poolVars, phase, call, handlerVars, blockVars, crashed>>

\* Take the next of them, if it is still in the map.
CheckPotential(c) ==
  /\ Selecting(c, "check")
  /\ work' = IF work.potential = <<>> THEN [work EXCEPT !.step = "fill"]
             ELSE [work EXCEPT
                     !.potential = Tail(@),
                     !.picked = IF Head(work.potential) \in transactions
                                THEN Append(@, Head(work.potential)) ELSE @]
  /\ UNCHANGED <<poolVars, phase, call, handlerVars, blockVars, crashed>>

\* len(listTx) < config.BlockSize && len(pool.transactions) > len(listTx)+i
MayFill == /\ Len(work.picked) < BlockSize
           /\ Cardinality(transactions) > Len(work.picked) + work.i

\* One turn of the loop that fills the block up.  Behind the end of the list
\* getElemNumber dereferences nil.
FillBlock(c) ==
  /\ Selecting(c, "fill")
  /\ LET n == work.i + Len(work.picked) + 1
     IN IF ~MayFill
        THEN Answer(c, work.picked) /\ UNCHANGED crashed
        ELSE /\ IF n > Len(sortedList)
                THEN crashed' = "nil dereference" /\ UNCHANGED work
                ELSE /\ work' = IF sortedList[n] \in transactions
                                THEN [work EXCEPT !.picked = Append(@, sortedList[n])]
                                ELSE [work EXCEPT !.i = @ + 1]
                     /\ UNCHANGED crashed
             /\ UNCHANGED <<call, round, proposed>>
  /\ UNCHANGED <<poolVars, phase, handlerVars, flushing, executed, outdated>>

\* The maps a helper reads, or deletes from, in its next step.
Touches(c) ==
  CASE call[c].op = "exist" -> {Tx, Command}
    [] call[c].op = "get" /\ work.step = "commands" -> {Command}
    [] call[c].op = "get" /\ work.step \in {"check", "fill"} -> {Tx}
    [] OTHER -> {}

\* A map is used while the loop writes it: the Go runtime may notice and end the
\* process ("concurrent map read and map write").
MapRace(c) ==
  /\ IsAt("write")
  /\ c \in InHelper
  /\ \E m \in Touches(c) : call[Served].tx \in m
  /\ crashed' = "map race"
  /\ UNCHANGED <<poolVars, phase, call, handlerVars, blockVars, work>>

-----------------------------------------------------------------------------
LoopGoesOn == EndWrite \/ EndAdd \/ DropTransactions \/ ReplaceList \/ EndRemove
LoopTakes(c) == StartHelper(c) \/ BeginAdd(c) \/ BeginRemove(c)
HelperGoesOn(c) ==
  \/ AnswerExist(c) \/ AnswerSize(c)
  \/ SelectCommand(c) \/ ListOldest(c) \/ CheckPotential(c) \/ FillBlock(c)

Next ==
  \/ \E c \in Caller, x \in AnyTx : ReceiveTransaction(c, x)
  \/ ReadStatus
  \/ \E c \in Caller : CheckChain(c)
  \/ StartProposal
  \/ FinalizeBlock \/ FlushNext \/ EndFlush
  \/ \E c \in Caller : LoopTakes(c)
  \/ LoopGoesOn
  \/ \E c \in Caller : HelperGoesOn(c)
  \/ \E c \in Caller : MapRace(c)

Spec == Init /\ [][Next]_vars

-----------------------------------------------------------------------------
(* Properties. *)

Between == phase \in {"select", "wait"}

\* Between two changes the list holds the transactions of the map, each once and
\* the oldest first: insertions, removals and almostClear keep the two together.
ListMatchesMap ==
  Between => /\ ToSet(sortedList) = transactions
             /\ IsInjective(sortedList)
             /\ ByAge(sortedList)

\* With Ignore, the pool lets transactions in until it is full, and again when no
\* more than three quarters are left: the status always agrees with the size.
StatusFollowsSize ==
  behavior = "Ignore" /\ Between =>
    IF status THEN Cardinality(transactions) < Threshold
    ELSE 4 * Cardinality(transactions) > 3 * Threshold

\* "The receiver will get the latest status eventually" (tellIfContinu): what
\* transactionHandler last read, or will read, is the pool's status.
LatestStatusArrives == Last(<<addTx>> \o stopChan) = status

\* A proposed transaction stays in the pool until its block is finalized (unless
\* almostClear drops it): if the round failed it could be proposed again.
ProposedStaysInPool ==
  round = "proposed" /\ behavior # "Drop" =>
    ToSet(proposed) \subseteq transactions \cup commands

\* "Try getting element after those already selected" (getTxForBloc): no block
\* has one transaction twice.
SelectedOnce == IsInjective(proposed)

\* What the pool holds: its types, the list beside the map, and what is proposed.
PoolSound == TypeOK /\ ListMatchesMap /\ ProposedStaysInPool

\* What the pool tells transactionHandler, which acts on the last it read.
StatusSound == StatusFollowsSize /\ LatestStatusArrives
=============================================================================
