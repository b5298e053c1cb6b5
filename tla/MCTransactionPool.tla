------------------------- MODULE MCTransactionPool -------------------------
(***************************************************************************)
(* Instances of TransactionPool for TLC.                                   *)
(***************************************************************************)
EXTENDS TransactionPool, TLC

CONSTANTS x1, x2, x3, x4, x5,  \* transactions
          c1, c2               \* commands

\* x1 and x2 are of the same age.
AgeByName == (x1 :> 1) @@ (x2 :> 1) @@ (x3 :> 2)
\* x1 is the older one.
TwoAges == (x1 :> 1) @@ (x2 :> 2)
\* For runs in which the order does not matter.
SameAge == [x \in Tx |-> 1]
=============================================================================
