------------------------------ MODULE MCRecoco ------------------------------
(***************************************************************************)
(* Instances of Recoco for TLC.                                            *)
(***************************************************************************)
EXTENDS Recoco, TLC

CONSTANTS t1, t2,  \* tasks
          f1       \* a thread

\* t1 uses what runs other code, its subtask what waits; both tasks lock.
TwoTasks == (t1 :> {"call", "again", "lock"}) @@ (t2 :> {"lock"})
         @@ (Again(t1) :> {"sleep", "send", "zero"}) @@ (Again(t2) :> {})
=============================================================================
