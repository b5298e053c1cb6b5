-------------------------- MODULE ReplicatedLedger --------------------------
(***************************************************************************)
(* What the consensus promises its replicas: there is one ledger, a        *)
(* sequence of blocks that only grows at its end, and every replica copies *)
(* it from the beginning, block after block, none missing.                 *)
(***************************************************************************)
EXTENDS Naturals, Sequences

CONSTANTS Replica, Entry

VARIABLES ledger, copy

TypeOK == ledger \in Seq(Entry) /\ copy \in [Replica -> Seq(Entry)]

Init == ledger = <<>> /\ copy = [r \in Replica |-> <<>>]

\* A replica that has the whole ledger is the first to have the next block.
Decide(r, e) ==
  /\ copy[r] = ledger
  /\ ledger' = Append(ledger, e)
  /\ copy' = [copy EXCEPT ![r] = ledger']

\* A replica that is behind takes the next block of the ledger.
Learn(r) ==
  /\ Len(copy[r]) < Len(ledger)
  /\ copy' = [copy EXCEPT ![r] = SubSeq(ledger, 1, Len(@) + 1)]
  /\ UNCHANGED ledger

Next == \E r \in Replica : Learn(r) \/ \E e \in Entry : Decide(r, e)

Spec == Init /\ [][Next]_<<ledger, copy>>
=============================================================================
