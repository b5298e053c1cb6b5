----------------------------- MODULE Recoco_proofs -----------------------------
(***************************************************************************)
(* The scheduler never loses track of a task: for any tasks, whatever they *)
(* yield, and any number of threads.                                       *)
(***************************************************************************)
EXTENDS Recoco, FiniteSetTheorems, SequenceTheorems, TLAPS

\* The tasks are finitely many, and none of them is one that the library makes.
TasksApart ==
  /\ IsFiniteSet(Task)
  /\ \A t \in Task : \A u : t # Again(u) /\ t # Schedule(u) /\ t # Sync(u)
  /\ \A x \in {CallLaterTask, Consumer, None} : \A u :
       x \notin Task /\ x # Again(u) /\ x # Schedule(u) /\ x # Sync(u)
  /\ CallLaterTask # Consumer /\ None \notin {CallLaterTask, Consumer}
  /\ None \notin {"again", "select"}

Starter == Schedule(CallLaterTask)  \* started once, by the first callLater()
Runnable ==
  Sleeper \cup {Consumer, Starter, Schedule(Consumer)}
    \cup {Sync(f) : f \in Thread} \cup {Schedule(Sync(f)) : f \in Thread}
Kept == Sleeper \cup {Starter}      \* what must not be in two places

TypeInv ==
  /\ ready \in Seq(Runnable) /\ returning \in Seq(Sleeper)
  /\ cur \in Runnable \cup {None}
  /\ DOMAIN waits = Sleeper /\ rv \in [Sleeper -> BOOLEAN]
  /\ locked \in Program \cup {None} /\ waiting \subseteq Program
  /\ incoming \subseteq Sleeper /\ hub \subseteq Sleeper
  /\ DOMAIN working = Task /\ DOMAIN thread = Thread /\ DOMAIN syncTask = Thread
  /\ works \in Nat

\* What the scheduler's thread is doing tells the task it runs.
PcInv ==
  /\ pc \in {"top", "idle", "wake", "cycle", "execute", "ping", "drain", "decide", "held", "done"}
  /\ cur # None <=> pc \in {"execute", "drain", "decide", "held"}
  /\ pc = "drain" => cur = CallLaterTask
  /\ pc = "decide" => cur = Consumer
  /\ pc = "held" => \E f \in Thread : cur = Sync(f)
  /\ hubPc \in {"expire", "return"} => returning # <<>>

-----------------------------------------------------------------------------
(* Places. *)

Has(seq, x) == \E k \in DOMAIN seq : seq[k] = x
Once(seq) == \A j, k \in DOMAIN seq : seq[j] = seq[k] /\ seq[j] \in Kept => j = k

\* A task t is in the place p.
In(t, p) ==
  \/ p = "ready" /\ Has(ready, t)
  \/ p = "returning" /\ Has(returning, t)
  \/ p = "cur" /\ cur = t
  \/ p = "incoming" /\ t \in incoming
  \/ p = "hub" /\ t \in hub
  \/ p = "waiting" /\ t \in waiting
  \/ p = "worker" /\ t \in Task /\ working[t] \in {"call", "append"}
  \/ p = "parent" /\ t \in Task /\ waits[t] = "again" /\ ~rv[t]

Nowhere(t) == \A p : ~In(t, p)

PlaceInv ==
  /\ Once(ready) /\ Once(returning)
  /\ \A t \in Kept : \A p, q : In(t, p) /\ In(t, q) => p = q

-----------------------------------------------------------------------------
(* What a task in a place has. *)

AnswerInv ==
  /\ Answered
  /\ \A t \in Task : working[t] = "append" => rv[t]

\* A subtask is there as long as its parent waits for it.
SubtaskInv ==
  \A t \in Task : In(t, "parent") \/ (Nowhere(Again(t)) /\ waits[Again(t)] = None)

\* The CallLaterTask is not there before it is started.
LaterInv ==
  /\ laterState = "none" => Nowhere(Starter)
  /\ laterState = "none" \/ ~Nowhere(Starter) =>
       Nowhere(CallLaterTask) /\ waits[CallLaterTask] = None

\* A thread is inside only between its SyncTask's two steps.
SyncInv == \A f \in Thread :
  /\ syncTask[f] = "open" => pc = "held" /\ cur = Sync(f)
  /\ thread[f] = "inside" => syncTask[f] = "open"

CoreInv == PlaceInv /\ AnswerInv /\ SubtaskInv /\ LaterInv

RecocoInv ==
  /\ TypeInv /\ PcInv /\ CoreInv /\ LockExclusion /\ SyncInv /\ WorkIsScheduled

-----------------------------------------------------------------------------
(* Sequences. *)

\* What is put last.
LEMMA PutLastHas ==
  ASSUME NEW S, NEW s \in Seq(S), NEW x \in S
  PROVE  /\ Append(s, x) \in Seq(S) /\ Append(s, x) # <<>>
         /\ \A y : Has(Append(s, x), y) <=> Has(s, y) \/ y = x
         /\ Once(s) /\ (x \in Kept => ~Has(s, x)) => Once(Append(s, x))
<1> DEFINE r == Append(s, x)
<1>1. /\ r \in Seq(S) /\ Len(s) \in Nat /\ Len(r) = Len(s) + 1
      /\ DOMAIN s = 1..Len(s) /\ DOMAIN r = 1..(Len(s) + 1)
      /\ \A k \in 1..Len(s) : r[k] = s[k]
      /\ r[Len(s) + 1] = x
  OBVIOUS
<1> HIDE DEF r
<1>2. ASSUME NEW y PROVE Has(r, y) <=> Has(s, y) \/ y = x
  <2>1. \A k \in DOMAIN s : k \in DOMAIN r /\ r[k] = s[k]
    BY <1>1
  <2>2. Len(s) + 1 \in DOMAIN r
    BY <1>1
  <2>3. \A k \in DOMAIN r : k \in DOMAIN s \/ k = Len(s) + 1
    BY <1>1
  <2> QED
    BY <1>1, <2>1, <2>2, <2>3 DEF Has
<1>3. ASSUME Once(s), x \in Kept => ~Has(s, x) PROVE Once(r)
  <2> SUFFICES ASSUME NEW j \in DOMAIN r, NEW k \in DOMAIN r, r[j] = r[k], r[j] \in Kept
               PROVE  j = k
    BY DEF Once
  <2>1. CASE j \in DOMAIN s /\ k \in DOMAIN s
    BY <1>1, <1>3, <2>1 DEF Once
  <2>2. CASE j \in DOMAIN s /\ k = Len(s) + 1
    BY <1>1, <1>3, <2>2 DEF Has
  <2>3. CASE k \in DOMAIN s /\ j = Len(s) + 1
    BY <1>1, <1>3, <2>3 DEF Has
  <2>4. CASE j = Len(s) + 1 /\ k = Len(s) + 1
    BY <2>4
  <2> QED
    BY <1>1, <2>1, <2>2, <2>3, <2>4
<1> QED
  BY <1>1, <1>2, <1>3 DEF r

\* What is put first.
LEMMA PutFirstHas ==
  ASSUME NEW S, NEW s \in Seq(S), NEW x \in S
  PROVE  /\ <<x>> \o s \in Seq(S)
         /\ \A y : Has(<<x>> \o s, y) <=> Has(s, y) \/ y = x
         /\ Once(s) /\ (x \in Kept => ~Has(s, x)) => Once(<<x>> \o s)
<1> DEFINE r == <<x>> \o s
<1>1. /\ r \in Seq(S) /\ Len(s) \in Nat /\ Len(r) = Len(s) + 1
      /\ DOMAIN s = 1..Len(s) /\ DOMAIN r = 1..(Len(s) + 1)
      /\ \A k \in 1..Len(s) : r[k + 1] = s[k]
      /\ r[1] = x
  <2>1. <<x>> \in Seq(S) /\ Len(<<x>>) = 1 /\ <<x>>[1] = x
    OBVIOUS
  <2>2. r \in Seq(S) /\ Len(r) = 1 + Len(s)
    BY <2>1
  <2> QED
    BY <2>1, <2>2
<1> HIDE DEF r
<1>2. ASSUME NEW y PROVE Has(r, y) <=> Has(s, y) \/ y = x
  <2>1. \A k \in DOMAIN s : k + 1 \in DOMAIN r /\ r[k + 1] = s[k]
    BY <1>1
  <2>2. 1 \in DOMAIN r
    BY <1>1
  <2>3. \A k \in DOMAIN r : k = 1 \/ (k - 1 \in DOMAIN s /\ r[k] = s[k - 1])
    <3> TAKE k \in DOMAIN r
    <3>1. CASE k # 1
      <4>1. k - 1 \in 1..Len(s) /\ (k - 1) + 1 = k
        BY <1>1, <3>1
      <4> QED
        BY <1>1, <4>1
    <3> QED
      BY <3>1
  <2> QED
    BY <1>1, <2>1, <2>2, <2>3 DEF Has
<1>3. ASSUME Once(s), x \in Kept => ~Has(s, x) PROVE Once(r)
  <2> SUFFICES ASSUME NEW j \in DOMAIN r, NEW k \in DOMAIN r, r[j] = r[k], r[j] \in Kept
               PROVE  j = k
    BY DEF Once
  <2>1. \A i \in DOMAIN r : i # 1 => i - 1 \in DOMAIN s /\ r[i] = s[i - 1] /\ i \in Int
    <3> TAKE i \in DOMAIN r
    <3> HAVE i # 1
    <3>1. i - 1 \in 1..Len(s) /\ (i - 1) + 1 = i /\ i \in Int
      BY <1>1
    <3> QED
      BY <1>1, <3>1
  <2>2. CASE j # 1 /\ k # 1
    <3>1. j - 1 = k - 1
      BY <1>3, <2>1, <2>2 DEF Once
    <3> QED
      BY <2>1, <2>2, <3>1
  <2>3. CASE j = 1 /\ k # 1
    BY <1>1, <1>3, <2>1, <2>3 DEF Has
  <2>4. CASE k = 1 /\ j # 1
    BY <1>1, <1>3, <2>1, <2>4 DEF Has
  <2> QED
    BY <2>2, <2>3, <2>4
<1> QED
  BY <1>1, <1>2, <1>3 DEF r

\* What is taken from the front.
LEMMA TakenHas ==
  ASSUME NEW S, NEW s \in Seq(S), s # <<>>
  PROVE  /\ Head(s) \in S /\ Tail(s) \in Seq(S)
         /\ Has(s, Head(s))
         /\ \A y : Has(Tail(s), y) => Has(s, y)
         /\ \A y : Has(s, y) => Has(Tail(s), y) \/ y = Head(s)
         /\ Once(s) => Once(Tail(s)) /\ (Head(s) \in Kept => ~Has(Tail(s), Head(s)))
<1> DEFINE r == Tail(s)
<1>1. /\ Head(s) \in S /\ r \in Seq(S) /\ Len(s) \in Nat \ {0} /\ Len(r) = Len(s) - 1
      /\ DOMAIN s = 1..Len(s) /\ DOMAIN r = 1..(Len(s) - 1)
      /\ \A k \in 1..(Len(s) - 1) : r[k] = s[k + 1]
      /\ s[1] = Head(s)
  OBVIOUS
<1> HIDE DEF r
<1>2. \A k \in DOMAIN r : k + 1 \in DOMAIN s /\ r[k] = s[k + 1] /\ k \in Int /\ k + 1 # 1
  BY <1>1
<1>3. \A k \in DOMAIN s : k # 1 => k - 1 \in DOMAIN r /\ r[k - 1] = s[k]
  <2> TAKE k \in DOMAIN s
  <2> HAVE k # 1
  <2>1. k - 1 \in 1..(Len(s) - 1) /\ (k - 1) + 1 = k
    BY <1>1
  <2> QED
    BY <1>1, <2>1
<1>4. 1 \in DOMAIN s
  BY <1>1
<1>5. Has(s, Head(s)) /\ \A y : Has(r, y) => Has(s, y)
  BY <1>1, <1>2, <1>4 DEF Has
<1>6. \A y : Has(s, y) => Has(r, y) \/ y = Head(s)
  BY <1>1, <1>3 DEF Has
<1>7. ASSUME Once(s) PROVE Once(r) /\ (Head(s) \in Kept => ~Has(r, Head(s)))
  <2>1. ASSUME NEW j \in DOMAIN r, NEW k \in DOMAIN r, r[j] = r[k], r[j] \in Kept PROVE j = k
    <3>1. j + 1 = k + 1
      BY <1>2, <1>7, <2>1 DEF Once
    <3> QED
      BY <1>2, <3>1
  <2>2. ASSUME Head(s) \in Kept, NEW k \in DOMAIN r, r[k] = Head(s) PROVE FALSE
    BY <1>1, <1>2, <1>4, <1>7, <2>2 DEF Once
  <2> QED
    BY <2>1, <2>2 DEF Once, Has
<1> QED
  BY <1>1, <1>5, <1>6, <1>7 DEF r

\* A set of tasks in some order.
LEMMA OrderHas ==
  ASSUME NEW S, IsFiniteSet(S), NEW s \in SetToSeqs(S)
  PROVE  /\ s \in Seq(S) /\ Once(s) /\ \A y : Has(s, y) => y \in S
         /\ S # {} => s # <<>>
<1> DEFINE n == Cardinality(S)
<1>1. n \in Nat /\ s \in [1..n -> S]
      /\ \A i, j \in 1..n : i # j => s[i] # s[j]
  BY FS_CardinalityType DEF SetToSeqs
<1>2. s \in Seq(S) /\ Len(s) = n
  BY <1>1
<1>3. Once(s)
  BY <1>1 DEF Once
<1>4. \A y : Has(s, y) => y \in S
  BY <1>1 DEF Has
<1>5. S # {} => s # <<>>
  BY <1>2, FS_EmptySet
<1> QED
  BY <1>2, <1>3, <1>4, <1>5

\* Nothing is in the empty sequence.
LEMMA EmptyHas == <<>> \in Seq(Sleeper) /\ Once(<<>>) /\ \A y : ~Has(<<>>, y)
BY DEF Once, Has

-----------------------------------------------------------------------------
(* What a step does to the places of tasks. *)

\* The tasks of the library are none of the users'.
LEMMA Names ==
  ASSUME TasksApart
  PROVE  /\ CallLaterTask \in Sleeper /\ CallLaterTask \notin Program
         /\ \A t \in Task : /\ Again(t) \in Sleeper /\ Again(t) \in Program
                            /\ Again(t) \notin Task /\ t \in Sleeper
                            /\ t # CallLaterTask /\ Again(t) # CallLaterTask
         /\ \A t \in Program \ Task : \E u \in Task : t = Again(u)
         /\ \A t, u : Again(t) = Again(u) => t = u
         /\ \A t : Again(t)[2] = t /\ Sync(t)[2] = t
         /\ Starter \notin Sleeper /\ Starter \in Runnable
         /\ Consumer \notin Kept /\ Schedule(Consumer) \notin Kept
         /\ \A f : Sync(f) \notin Kept /\ Schedule(Sync(f)) \notin Kept
         /\ \A f, g : Sync(f) = Sync(g) => f = g
         /\ None \notin Runnable
         /\ Sleeper \subseteq Runnable /\ Program \subseteq Sleeper
         /\ Consumer # Schedule(Consumer)
BY DEF TasksApart, Sleeper, Program, Again, Schedule, Sync, Starter, Kept, Runnable

\* Finitely many tasks may be in the hub.
LEMMA SleeperFinite == ASSUME TasksApart PROVE IsFiniteSet(Sleeper)
<1>1. IsFiniteSet({Again(t) : t \in Task})
  <2>1. [t \in Task |-> Again(t)] \in Surjection(Task, {Again(t) : t \in Task})
    BY DEF Surjection
  <2> QED
    BY <2>1, FS_Surjection DEF TasksApart
<1> QED
  BY <1>1, FS_Union, FS_AddElement DEF TasksApart, Sleeper, Program

\* Where a task may be that is in one place.
LEMMA InOne ==
  ASSUME CoreInv, NEW t \in Kept, NEW p, In(t, p), NEW q, In(t, q)
  PROVE  p = q
BY DEF CoreInv, PlaceInv

\* The task x goes from one place to another, and no other task moves.
LEMMA OneMoves ==
  ASSUME TasksApart, CoreInv, NEW x \in Kept, NEW from, NEW to,
         In(x, from), from # "parent", to # "parent",
         \A p : In(x, p)' => p = to,
         \A u \in Kept \ {x} : \A p : In(u, p)' <=> In(u, p),
         \A u \in Sleeper \ {x} : rv'[u] = rv[u] /\ waits'[u] \in {waits[u], None},
         \A u \in Task \ {x} : working'[u] = "append" => working[u] = "append",
         x \in Sleeper /\ to \in {"ready", "cur"} => waits'[x] = None \/ rv'[x],
         x \in Task /\ working'[x] = "append" => rv'[x],
         laterState' = laterState, Once(ready'), Once(returning')
  PROVE  CoreInv'
<1>1. Sleeper \subseteq Kept
  BY DEF Kept
<1>2. PlaceInv'
  <2>1. ASSUME NEW t \in Kept, NEW p, NEW q, In(t, p)', In(t, q)' PROVE p = q
    <3>1. CASE t = x
      BY <2>1, <3>1
    <3>2. CASE t # x
      BY <2>1, <3>2, InOne
    <3> QED
      BY <3>1, <3>2
  <2> QED
    BY <2>1 DEF PlaceInv
<1>3. AnswerInv'
  <2>1. ASSUME NEW t \in Sleeper, (Pending(t) \/ cur = t)' PROVE waits'[t] = None \/ rv'[t]
    <3>1. In(t, "ready")' \/ In(t, "cur")'
      BY <2>1 DEF In, Has, Pending
    <3>2. CASE t = x
      BY <3>1, <3>2
    <3>3. CASE t # x
      <4>1. In(t, "ready") \/ In(t, "cur")
        BY <1>1, <3>1, <3>3
      <4>2. Pending(t) \/ cur = t
        BY <4>1 DEF In, Has, Pending
      <4> QED
        BY <3>3, <4>2 DEF CoreInv, AnswerInv, Answered
    <3> QED
      BY <3>2, <3>3
  <2>2. ASSUME NEW t \in Task, working'[t] = "append" PROVE rv'[t]
    <3>1. t \in Sleeper
      BY Names
    <3> QED
      BY <2>2, <3>1 DEF CoreInv, AnswerInv
  <2> QED
    BY <2>1, <2>2 DEF AnswerInv, Answered
<1>4. SubtaskInv'
  <2> SUFFICES ASSUME NEW t \in Task, ~In(t, "parent")'
               PROVE  Nowhere(Again(t))' /\ waits'[Again(t)] = None
    BY DEF SubtaskInv
  <2>1. t \in Sleeper /\ Again(t) \in Sleeper
    BY Names
  <2>2. ~In(t, "parent")
    <3>1. CASE t = x
      BY <1>1, <3>1, InOne
    <3>2. CASE t # x
      BY <1>1, <2>1, <3>2
    <3> QED
      BY <3>1, <3>2
  <2>3. Nowhere(Again(t)) /\ waits[Again(t)] = None
    BY <2>2 DEF CoreInv, SubtaskInv
  <2>4. Again(t) # x
    BY <2>3 DEF Nowhere
  <2> QED
    BY <1>1, <2>1, <2>3, <2>4 DEF Nowhere
<1>5. LaterInv'
  <2>1. Starter \in Kept /\ CallLaterTask \in Sleeper
    BY Names DEF Kept
  <2>2. Nowhere(Starter)' <=> Nowhere(Starter) \/ (x = Starter /\ Nowhere(Starter)')
    BY <2>1 DEF Nowhere
  <2>3. x = Starter => ~Nowhere(Starter)
    BY DEF Nowhere
  <2>4. ASSUME laterState = "none" \/ ~Nowhere(Starter)
        PROVE  Nowhere(CallLaterTask)' /\ waits'[CallLaterTask] = None
    <3>1. Nowhere(CallLaterTask) /\ waits[CallLaterTask] = None
      BY <2>4 DEF CoreInv, LaterInv
    <3>2. CallLaterTask # x
      BY <3>1 DEF Nowhere
    <3> QED
      BY <1>1, <2>1, <3>1, <3>2 DEF Nowhere
  <2>5. laterState = "none" => x # Starter
    BY <2>3 DEF CoreInv, LaterInv
  <2>6. laterState' = "none" => Nowhere(Starter)'
    BY <2>2, <2>5 DEF CoreInv, LaterInv
  <2> QED
    BY <2>2, <2>3, <2>4, <2>6 DEF LaterInv
<1> QED
  BY <1>2, <1>3, <1>4, <1>5 DEF CoreInv

\* No task moves, or those of the hub move within it; nothing appears.
LEMMA NothingAppears ==
  ASSUME TasksApart, CoreInv, PlaceInv',
         \A u \in Kept : Nowhere(u) => Nowhere(u)',
         \A u \in Kept : \A p \in {"ready", "cur"} : In(u, p)' => In(u, p),
         \A u \in Task : In(u, "parent") => In(u, "parent")',
         \A u \in Sleeper : rv'[u] = rv[u] /\ waits'[u] \in {waits[u], None},
         \A u \in Task : working'[u] = "append" => working[u] = "append",
         laterState' = laterState
  PROVE  CoreInv'
<1>1. Sleeper \subseteq Kept /\ Starter \in Kept
  BY DEF Kept
<1>2. AnswerInv'
  <2>1. ASSUME NEW t \in Sleeper, (Pending(t) \/ cur = t)' PROVE waits'[t] = None \/ rv'[t]
    <3>1. In(t, "ready")' \/ In(t, "cur")'
      BY <2>1 DEF In, Has, Pending
    <3>2. In(t, "ready") \/ In(t, "cur")
      BY <1>1, <3>1
    <3>3. Pending(t) \/ cur = t
      BY <3>2 DEF In, Has, Pending
    <3> QED
      BY <3>3 DEF CoreInv, AnswerInv, Answered
  <2>2. ASSUME NEW t \in Task, working'[t] = "append" PROVE rv'[t]
    <3>1. t \in Sleeper
      BY Names
    <3> QED
      BY <2>2, <3>1 DEF CoreInv, AnswerInv
  <2> QED
    BY <2>1, <2>2 DEF AnswerInv, Answered
<1>3. SubtaskInv'
  <2> SUFFICES ASSUME NEW t \in Task, ~In(t, "parent")'
               PROVE  Nowhere(Again(t))' /\ waits'[Again(t)] = None
    BY DEF SubtaskInv
  <2>1. Again(t) \in Sleeper
    BY Names
  <2>2. Nowhere(Again(t)) /\ waits[Again(t)] = None
    BY DEF CoreInv, SubtaskInv
  <2> QED
    BY <1>1, <2>1, <2>2
<1>4. LaterInv'
  <2>1. CallLaterTask \in Sleeper
    BY Names
  <2> QED
    BY <1>1, <2>1 DEF CoreInv, LaterInv
<1> QED
  BY <1>2, <1>3, <1>4 DEF CoreInv

\* No task moves at all.
LEMMA NoneMoves ==
  ASSUME TasksApart, CoreInv,
         \A u \in Kept : \A p : In(u, p)' <=> In(u, p),
         \A u \in Sleeper : rv'[u] = rv[u] /\ waits'[u] \in {waits[u], None},
         \A u \in Task : working'[u] = "append" => working[u] = "append",
         laterState' = laterState, Once(ready'), Once(returning')
  PROVE  CoreInv'
<1>1. PlaceInv'
  BY DEF CoreInv, PlaceInv
<1>2. \A u \in Kept : Nowhere(u) => Nowhere(u)'
  BY DEF Nowhere
<1>3. Task \subseteq Kept
  BY Names DEF Kept
<1> QED
  BY <1>1, <1>2, <1>3, NothingAppears


-----------------------------------------------------------------------------
(* Types. *)

\* What a step does to `ready`.
LEMMA ReadyNext ==
  ASSUME TasksApart, TypeInv, PcInv, Next
  PROVE  \/ ready' = ready
         \/ \E x \in Runnable : ready' \in {Append(ready, x), <<x>> \o ready}
         \/ Cycle /\ ready # <<>> /\ ready' = Tail(ready)
<1> DEFINE Put == \E x \in Runnable : ready' \in {Append(ready, x), <<x>> \o ready}
<1>1. ASSUME NEW x \in {CallLaterTask, Consumer} \cup {Sync(f) : f \in Thread},
             RunScheduleTask(x)
      PROVE  ready' = ready \/ Put
  <2>1. x \in Runnable
    BY Names DEF Runnable
  <2> QED
    BY <1>1, <2>1 DEF RunScheduleTask, PutFirst
<1>2. ASSUME NEW f \in Thread, RunSyncTask(f) PROVE ready' = ready \/ Put
  <2>1. Sync(f) \in Runnable
    BY DEF Runnable
  <2> QED
    BY <1>2, <2>1 DEF RunSyncTask
<1>3. ASSUME Decide PROVE ready' = ready \/ Put
  <2>1. Consumer \in Runnable
    BY DEF Runnable
  <2> QED
    BY <1>3, <2>1 DEF Decide
<1>4. ASSUME Top \/ Idle \/ Wake \/ Ping \/ Drain \/ EndSync \/ RunCallLater \/ RunConsumer
      PROVE  ready' = ready
  BY <1>4 DEF Top, Idle, Wake, Ping, Drain, EndSync, RunCallLater, RunConsumer, Register
<1>5. ASSUME NEW t \in Program, TaskStep(t) PROVE ready' = ready \/ Put
  <2>1. Program \subseteq Runnable
    BY Names
  <2>2. CASE Finish(t)
    <3>1. t \notin Task => t[2] \in Program
      BY Names DEF Program
    <3> QED
      BY <2>1, <2>2, <3>1 DEF Finish, PutFirst
  <2>3. CASE YieldAgain(t)
    BY <2>1, <2>3, Names DEF YieldAgain, PutFirst
  <2>4. CASE Release(t)
    BY <2>1, <2>4 DEF Release, PutLast, TypeInv
  <2>5. CASE YieldZero(t) \/ YieldSleep(t)
    BY <2>1, <2>5 DEF YieldZero, YieldSleep, Register, PutLast
  <2>6. CASE ~Finish(t) /\ ~YieldAgain(t) /\ ~Release(t) /\ ~YieldZero(t) /\ ~YieldSleep(t)
    BY <1>5, <2>6
       DEF TaskStep, Yields, YieldSelect, YieldCall, ResumeSend, Acquire, Register,
           schedVars
  <2> QED
    BY <2>2, <2>3, <2>4, <2>5, <2>6
<1>6. ASSUME Hub PROVE ready' = ready \/ Put
  <2>1. CASE HubReturn
    <3>1. Head(returning) \in Runnable
      BY <2>1, TakenHas, Names DEF HubReturn, PcInv, TypeInv
    <3> QED
      BY <2>1, <3>1 DEF HubReturn
  <2>2. CASE HubScan \/ HubSelect \/ HubDrain \/ HubSet
    BY <2>2 DEF HubScan, HubSelect, HubDrain, HubSet, schedVars
  <2> QED
    BY <1>6, <2>1, <2>2 DEF Hub
<1>7. ASSUME NEW t \in Task, Worker(t) PROVE ready' = ready \/ Put
  <2>1. t \in Runnable
    BY Names
  <2> QED
    BY <1>7, <2>1 DEF Worker, WorkerAnswers, WorkerAppends, WorkerSets, schedVars
<1>8. ASSUME NEW f \in Thread, Goes(f) \/ Begins(f) PROVE ready' = ready \/ Put
  <2>1. {Starter, Schedule(Consumer), Schedule(Sync(f))} \subseteq Runnable
    BY DEF Runnable
  <2> QED
    BY <1>8, <2>1
       DEF Goes, Begins, ThreadSets, AppendCall, PingCall, WakeConsumer, Inside,
           ExitSync, CallLater, AddWork, EnterSync, StartSchedule, schedVars, Starter
<1>9. ASSUME Cycle PROVE ready' = ready \/ (ready # <<>> /\ ready' = Tail(ready))
  BY <1>9 DEF Cycle
<1> HIDE DEF Put
<1>10. ready' = ready \/ Put \/ (Cycle /\ ready # <<>> /\ ready' = Tail(ready))
  BY <1>1, <1>2, <1>3, <1>4, <1>5, <1>6, <1>7, <1>8, <1>9 DEF Next, Scheduler
<1> QED
  BY <1>10 DEF Put

\* What is put into `ready`, or taken from it, can be run.
LEMMA ReadyStep == ASSUME TasksApart, TypeInv, PcInv, Next PROVE ready' \in Seq(Runnable)
<1>1. ready \in Seq(Runnable)
  BY DEF TypeInv
<1>2. ASSUME NEW x \in Runnable, ready' = Append(ready, x) PROVE ready' \in Seq(Runnable)
  BY <1>1, <1>2, PutLastHas
<1>3. ASSUME NEW x \in Runnable, ready' = <<x>> \o ready PROVE ready' \in Seq(Runnable)
  BY <1>1, <1>3, PutFirstHas
<1>4. ASSUME ready # <<>>, ready' = Tail(ready) PROVE ready' \in Seq(Runnable)
  BY <1>1, <1>4, TakenHas
<1> QED
  BY <1>1, <1>2, <1>3, <1>4, ReadyNext

\* What the other threads leave to the scheduler's.
LEMMA NotTheScheduler ==
  /\ Hub => UNCHANGED <<pc, cur, syncTask, thread, works>>
  /\ \A t \in Task : Worker(t) => UNCHANGED <<pc, cur, syncTask, thread, works>>
  /\ \A f \in Thread : Goes(f) \/ Begins(f) => UNCHANGED <<pc, cur>>
<1>1. ASSUME Hub PROVE UNCHANGED <<pc, cur, syncTask, thread, works>>
  BY <1>1
     DEF Hub, HubScan, HubSelect, HubDrain, HubReturn, HubSet, schedVars, taskVars,
         lockVars, hubVars, others, laterVars, threadVars
<1>2. ASSUME NEW t \in Task, Worker(t) PROVE UNCHANGED <<pc, cur, syncTask, thread, works>>
  BY <1>2
     DEF Worker, WorkerAnswers, WorkerAppends, WorkerSets, schedVars, taskVars,
         lockVars, hubVars, others, laterVars, threadVars
<1>3. ASSUME NEW f \in Thread, Goes(f) \/ Begins(f) PROVE UNCHANGED <<pc, cur>>
  BY <1>3
     DEF Goes, Begins, ThreadSets, AppendCall, PingCall, WakeConsumer, Inside, ExitSync,
         CallLater, AddWork, EnterSync, schedVars, taskVars, lockVars, hubVars, others,
         laterVars, threadVars
<1> QED
  BY <1>1, <1>2, <1>3

\* What the others leave to the hub.
LEMMA NotTheHub ==
  /\ Scheduler => UNCHANGED <<hub, hubPc, returning>>
  /\ \A t \in Program : TaskStep(t) => UNCHANGED <<hub, hubPc, returning>>
  /\ \A t \in Task : Worker(t) => UNCHANGED <<hub, hubPc, returning>>
  /\ \A f \in Thread : Goes(f) \/ Begins(f) => UNCHANGED <<hub, hubPc, returning>>
<1>1. ASSUME Scheduler PROVE UNCHANGED <<hub, hubPc, returning>>
  BY <1>1
     DEF Scheduler, Top, Idle, Wake, Cycle, Ping, Drain, Decide, RunScheduleTask,
         RunSyncTask, EndSync, RunCallLater, RunConsumer, Register, schedVars, taskVars,
         lockVars, hubVars, others, laterVars, threadVars
<1>2. ASSUME NEW t \in Program, TaskStep(t) PROVE UNCHANGED <<hub, hubPc, returning>>
  BY <1>2
     DEF TaskStep, Yields, YieldZero, Finish, YieldSleep, YieldSelect, YieldCall,
         ResumeSend, YieldAgain, Acquire, Release, Register, schedVars, taskVars,
         lockVars, hubVars, others, laterVars, threadVars
<1>3. ASSUME NEW t \in Task, Worker(t) PROVE UNCHANGED <<hub, hubPc, returning>>
  BY <1>3
     DEF Worker, WorkerAnswers, WorkerAppends, WorkerSets, schedVars, taskVars,
         lockVars, hubVars, others, laterVars, threadVars
<1>4. ASSUME NEW f \in Thread, Goes(f) \/ Begins(f) PROVE UNCHANGED <<hub, hubPc, returning>>
  BY <1>4
     DEF Goes, Begins, ThreadSets, AppendCall, PingCall, WakeConsumer, Inside, ExitSync,
         CallLater, AddWork, EnterSync, schedVars, taskVars, lockVars, hubVars, others,
         laterVars, threadVars
<1> QED
  BY <1>1, <1>2, <1>3, <1>4

\* The hub returns only tasks that were there.
LEMMA HubType ==
  ASSUME TasksApart, TypeInv, PcInv, Next
  PROVE  /\ hub' \subseteq Sleeper /\ returning' \in Seq(Sleeper)
         /\ hubPc' \in {"expire", "return"} => returning' # <<>>
<1>1. hub \subseteq Sleeper /\ incoming \subseteq Sleeper /\ returning \in Seq(Sleeper)
  BY DEF TypeInv
<1>2. \A S \in SUBSET hub : \A s \in SetToSeqs(S) :
        s \in Seq(Sleeper) /\ (S # {} => s # <<>>)
  <2> SUFFICES ASSUME NEW S \in SUBSET hub, NEW s \in SetToSeqs(S)
               PROVE  s \in Seq(Sleeper) /\ (S # {} => s # <<>>)
    OBVIOUS
  <2>1. IsFiniteSet(S)
    BY <1>1, SleeperFinite, FS_Subset
  <2>2. s \in Seq(S) /\ (S # {} => s # <<>>)
    BY <2>1, OrderHas
  <2> QED
    BY <1>1, <2>2
<1>3. CASE HubScan
  <2>1. CASE quit
    BY <1>1, <1>3, <2>1 DEF HubScan
  <2>2. CASE ~quit
    <3>1. PICK S \in SUBSET hub :
            /\ hub' = hub \ S /\ returning' \in SetToSeqs(S)
            /\ hubPc' = IF S = {} THEN "select" ELSE "expire"
      BY <1>3, <2>2 DEF HubScan
    <3> QED
      BY <1>1, <1>2, <3>1
  <2> QED
    BY <2>1, <2>2
<1>4. CASE HubSelect
  <2>1. PICK io \in SUBSET hub :
          \/ /\ io # {} \/ pinged
             /\ hub' = hub \ io /\ returning' \in SetToSeqs(io)
             /\ hubPc' = IF pinged THEN "drain" ELSE "return"
          \/ \E t \in hub : hub' = hub \ {t} /\ returning' = <<t>>
          \/ hubPc' = "scan" /\ UNCHANGED <<hub, returning>>
    BY <1>4 DEF HubSelect
  <2>2. CASE /\ io # {} \/ pinged
             /\ hub' = hub \ io /\ returning' \in SetToSeqs(io)
             /\ hubPc' = IF pinged THEN "drain" ELSE "return"
    BY <1>1, <1>2, <2>2
  <2>3. CASE \E t \in hub : hub' = hub \ {t} /\ returning' = <<t>>
    BY <1>1, <2>3
  <2>4. CASE hubPc' = "scan" /\ UNCHANGED <<hub, returning>>
    BY <1>1, <2>4
  <2> QED
    BY <2>1, <2>2, <2>3, <2>4
<1>5. CASE HubDrain
  BY <1>1, <1>5 DEF HubDrain
<1>6. CASE HubReturn
  <2>1. /\ hub' = hub /\ returning' = Tail(returning) /\ returning # <<>>
        /\ hubPc' \in {"set, then select", "set"}
    BY <1>6 DEF HubReturn, PcInv
  <2> QED
    BY <1>1, <2>1, TakenHas
<1>7. CASE HubSet
  BY <1>1, <1>7 DEF HubSet
<1>8. CASE UNCHANGED <<hub, hubPc, returning>>
  BY <1>1, <1>8 DEF PcInv
<1> QED
  BY <1>3, <1>4, <1>5, <1>6, <1>7, <1>8, NotTheHub DEF Next, Hub

\* The scheduler's thread runs what it took from `ready`.
LEMMA CurType ==
  ASSUME TasksApart, TypeInv, PcInv, Next
  PROVE  cur' \in Runnable \cup {None}
<1>1. cur \in Runnable \cup {None}
  BY DEF TypeInv
<1>2. ASSUME Scheduler, ~Cycle PROVE cur' \in {cur, None}
  BY <1>2
     DEF Scheduler, Top, Idle, Wake, Cycle, Ping, Drain, Decide, RunScheduleTask,
         RunSyncTask, EndSync, RunCallLater, RunConsumer, Register, Leaves, schedVars,
         taskVars, lockVars, hubVars, others, laterVars, threadVars
<1>3. ASSUME NEW t \in Program, TaskStep(t) PROVE cur' \in {cur, None}
  BY <1>3
     DEF TaskStep, Yields, YieldZero, Finish, YieldSleep, YieldSelect, YieldCall,
         ResumeSend, YieldAgain, Acquire, Release, Register, Leaves, schedVars,
         taskVars, lockVars, hubVars, others, laterVars, threadVars
<1>4. CASE Cycle
  <2>1. ready # <<>> => Head(ready) \in Runnable
    BY TakenHas DEF TypeInv
  <2> QED
    BY <1>1, <1>4, <2>1 DEF Cycle
<1> QED
  BY <1>1, <1>2, <1>3, <1>4, NotTheScheduler DEF Next

\* What the steps are given, and what they give back.
LEMMA AnswerType ==
  ASSUME TasksApart, TypeInv, Next, PcInv
  PROVE  DOMAIN waits' = Sleeper /\ rv' \in [Sleeper -> BOOLEAN]
<1>1. DOMAIN waits = Sleeper /\ rv \in [Sleeper -> BOOLEAN]
  BY DEF TypeInv
<1>2. ASSUME NEW t \in Sleeper, NEW v,
             waits' = waits \/ waits' = [waits EXCEPT ![t] = v],
             NEW u \in Sleeper, NEW b \in BOOLEAN, rv' = rv \/ rv' = [rv EXCEPT ![u] = b]
      PROVE  DOMAIN waits' = Sleeper /\ rv' \in [Sleeper -> BOOLEAN]
  BY <1>1, <1>2
<1>3. CASE UNCHANGED <<waits, rv>>
  BY <1>1, <1>3
<1>4. ASSUME Scheduler PROVE DOMAIN waits' = Sleeper /\ rv' \in [Sleeper -> BOOLEAN]
  <2>1. CASE ~RunCallLater /\ ~Drain
    <3>1. UNCHANGED <<waits, rv>>
      BY <1>4, <2>1
         DEF Scheduler, Top, Idle, Wake, Cycle, Ping, Decide, RunScheduleTask,
             RunSyncTask, EndSync, RunConsumer, taskVars
    <3> QED
      BY <1>3, <3>1
  <2>2. CASE RunCallLater \/ Drain
    <3>1. \/ UNCHANGED <<waits, rv>>
          \/ /\ waits' = [waits EXCEPT ![CallLaterTask] = "select"]
             /\ rv' = [rv EXCEPT ![CallLaterTask] = FALSE]
      BY <2>2 DEF RunCallLater, Drain, WaitsFor
    <3> QED
      BY <1>2, <1>3, <3>1, Names
  <2> QED
    BY <2>1, <2>2
<1>5. ASSUME NEW t \in Program, Yields(t)
      PROVE  DOMAIN waits' = Sleeper /\ rv' \in [Sleeper -> BOOLEAN]
  <2>1. t \in Sleeper
    BY Names
  <2>2. CASE Finish(t) /\ t \notin Task
    <3>1. t[2] \in Sleeper
      BY <2>2, Names
    <3>2. /\ waits' = [waits EXCEPT ![t] = None]
          /\ rv' = [rv EXCEPT ![t[2]] = TRUE, ![t] = FALSE]
      BY <2>2 DEF Finish
    <3> QED
      BY <1>1, <2>1, <3>1, <3>2
  <2>3. CASE Finish(t) /\ t \in Task
    BY <1>2, <2>1, <2>3 DEF Finish
  <2>4. CASE ~Finish(t)
    <3>1. \E v : /\ waits' = [waits EXCEPT ![t] = v]
                 /\ rv' = rv \/ rv' = [rv EXCEPT ![t] = FALSE]
      BY <1>5, <2>4
         DEF Yields, YieldZero, YieldSleep, YieldSelect, YieldCall, ResumeSend, WaitsFor
    <3> QED
      BY <1>2, <2>1, <3>1
  <2> QED
    BY <2>2, <2>3, <2>4
<1>6. ASSUME NEW t \in Program, YieldAgain(t) \/ Acquire(t)
      PROVE  DOMAIN waits' = Sleeper /\ rv' \in [Sleeper -> BOOLEAN]
  <2>1. \E v : /\ waits' = [waits EXCEPT ![t] = v]
               /\ rv' = rv \/ rv' = [rv EXCEPT ![t] = FALSE]
    BY <1>6 DEF YieldAgain, Acquire, WaitsFor
  <2> QED
    BY <1>2, <2>1, Names
<1>7. ASSUME NEW t \in Program, Release(t)
      PROVE  DOMAIN waits' = Sleeper /\ rv' \in [Sleeper -> BOOLEAN]
  <2>1. /\ waits' = [waits EXCEPT ![t] = None]
        /\ rv' = rv \/ \E w \in waiting : rv' = [rv EXCEPT ![w] = TRUE]
    BY <1>7 DEF Release
  <2>2. waiting \subseteq Sleeper
    BY Names DEF TypeInv
  <2> QED
    BY <1>2, <2>1, <2>2, Names
<1>8. ASSUME Hub PROVE DOMAIN waits' = Sleeper /\ rv' \in [Sleeper -> BOOLEAN]
  <2>1. CASE HubReturn
    <3>1. Head(returning) \in Sleeper
      BY <2>1, TakenHas DEF HubReturn, PcInv, TypeInv
    <3> QED
      BY <1>2, <2>1, <3>1 DEF HubReturn
  <2>2. CASE HubScan \/ HubSelect \/ HubDrain \/ HubSet
    BY <1>3, <2>2 DEF HubScan, HubSelect, HubDrain, HubSet, taskVars
  <2> QED
    BY <1>8, <2>1, <2>2 DEF Hub
<1>9. ASSUME NEW t \in Task, Worker(t)
      PROVE  DOMAIN waits' = Sleeper /\ rv' \in [Sleeper -> BOOLEAN]
  <2>1. waits' = waits /\ (rv' = rv \/ rv' = [rv EXCEPT ![t] = TRUE])
    BY <1>9 DEF Worker, WorkerAnswers, WorkerAppends, WorkerSets, taskVars
  <2> QED
    BY <1>2, <2>1, Names
<1>10. ASSUME NEW f \in Thread, Goes(f) \/ Begins(f) PROVE UNCHANGED <<waits, rv>>
  BY <1>10
     DEF Goes, Begins, ThreadSets, AppendCall, PingCall, WakeConsumer, Inside, ExitSync,
         CallLater, AddWork, EnterSync, taskVars
<1> QED
  BY <1>3, <1>4, <1>5, <1>6, <1>7, <1>8, <1>9, <1>10 DEF Next, TaskStep

\* Everything else.
LEMMA RestType ==
  ASSUME TasksApart, TypeInv, Next
  PROVE  /\ locked' \in Program \cup {None} /\ waiting' \subseteq Program
         /\ incoming' \subseteq Sleeper
         /\ DOMAIN working' = Task /\ DOMAIN thread' = Thread /\ DOMAIN syncTask' = Thread
         /\ works' \in Nat
<1>1. /\ locked \in Program \cup {None} /\ waiting \subseteq Program
      /\ incoming \subseteq Sleeper
      /\ DOMAIN working = Task /\ DOMAIN thread = Thread /\ DOMAIN syncTask = Thread
      /\ works \in Nat
  BY DEF TypeInv
<1>2. CASE Scheduler
  <2>1. UNCHANGED <<locked, waiting, working, thread>>
    BY <1>2
       DEF Scheduler, Top, Idle, Wake, Cycle, Ping, Drain, Decide, RunScheduleTask,
           RunSyncTask, EndSync, RunCallLater, RunConsumer, schedVars, taskVars,
           lockVars, hubVars, others, laterVars, threadVars
  <2>2. incoming' \in {incoming, incoming \cup {CallLaterTask}}
    BY <1>2
       DEF Scheduler, Top, Idle, Wake, Cycle, Ping, Drain, Decide, RunScheduleTask,
           RunSyncTask, EndSync, RunCallLater, RunConsumer, Register, schedVars,
           taskVars, lockVars, hubVars, others, laterVars, threadVars
  <2>3. works' \in {works, works - 1, 0} /\ (works' = works - 1 => works > 0)
    BY <1>1, <1>2
       DEF Scheduler, Top, Idle, Wake, Cycle, Ping, Drain, Decide, RunScheduleTask,
           RunSyncTask, EndSync, RunCallLater, RunConsumer, schedVars, taskVars,
           lockVars, hubVars, others, laterVars, threadVars
  <2>4. syncTask' = syncTask \/ \E f, v : syncTask' = [syncTask EXCEPT ![f] = v]
    BY <1>2
       DEF Scheduler, Top, Idle, Wake, Cycle, Ping, Drain, Decide, RunScheduleTask,
           RunSyncTask, EndSync, RunCallLater, RunConsumer, schedVars, taskVars,
           lockVars, hubVars, others, laterVars, threadVars
  <2> QED
    BY <1>1, <2>1, <2>2, <2>3, <2>4, Names
<1>3. ASSUME NEW t \in Program, TaskStep(t)
      PROVE  /\ UNCHANGED <<thread, syncTask, works>>
             /\ locked' \in {locked, t, None} \cup waiting /\ waiting' \subseteq waiting \cup {t}
             /\ incoming' \in {incoming, incoming \cup {t}}
             /\ working' \in {working, [working EXCEPT ![t] = "call"]}
  <2>1. CASE Yields(t) \/ YieldAgain(t)
    BY <2>1
       DEF Yields, YieldZero, Finish, YieldSleep, YieldSelect, YieldCall, ResumeSend,
           YieldAgain, Register, schedVars, taskVars, lockVars, hubVars, others,
           laterVars, threadVars
  <2>2. CASE Acquire(t) \/ Release(t)
    BY <2>2
       DEF Acquire, Release, HandOver, schedVars, taskVars, lockVars, hubVars, others,
           laterVars, threadVars
  <2> QED
    BY <1>3, <2>1, <2>2 DEF TaskStep
<1>4. ASSUME NEW t \in Task, Worker(t)
      PROVE  /\ UNCHANGED <<locked, waiting, incoming>>
             /\ \E v : working' = [working EXCEPT ![t] = v]
  BY <1>4
     DEF Worker, WorkerAnswers, WorkerAppends, WorkerSets, schedVars, taskVars,
         lockVars, hubVars, others, laterVars, threadVars
<1>5. CASE Hub
  <2>1. UNCHANGED <<locked, waiting, working>> /\ incoming' \in {incoming, {}}
    BY <1>5
       DEF Hub, HubScan, HubSelect, HubDrain, HubReturn, HubSet, schedVars, taskVars,
           lockVars, hubVars, others, laterVars, threadVars
  <2> QED
    BY <1>1, <1>5, <2>1, NotTheScheduler
<1>6. ASSUME NEW f \in Thread, Goes(f) \/ Begins(f)
      PROVE  /\ UNCHANGED <<locked, waiting, incoming, working>>
             /\ works' \in {works, works + 1}
             /\ \E v : thread' = [thread EXCEPT ![f] = v]
             /\ syncTask' = syncTask \/ \E v : syncTask' = [syncTask EXCEPT ![f] = v]
  BY <1>6
     DEF Goes, Begins, ThreadSets, AppendCall, PingCall, WakeConsumer, Inside, ExitSync,
         CallLater, AddWork, EnterSync, StartSchedule, schedVars, taskVars, lockVars,
         hubVars, others, laterVars, threadVars
<1>7. CASE \E t \in Program : TaskStep(t)
  BY <1>1, <1>3, <1>7, Names
<1>8. CASE \E t \in Task : Worker(t)
  BY <1>1, <1>4, <1>8, NotTheScheduler
<1>9. CASE \E f \in Thread : Goes(f) \/ Begins(f)
  BY <1>1, <1>6, <1>9
<1> QED
  BY <1>2, <1>5, <1>7, <1>8, <1>9 DEF Next

\* What the scheduler's thread is doing.
LEMMA PcStep ==
  ASSUME TasksApart, TypeInv, PcInv, Next
  PROVE  PcInv'
<1>1. hubPc' \in {"expire", "return"} => returning' # <<>>
  BY HubType
<1>2. CASE UNCHANGED <<pc, cur>>
  BY <1>1, <1>2 DEF PcInv
<1>3. CASE Scheduler /\ ~Cycle
  <2>1. \/ pc' \in {"top", "idle", "wake", "cycle", "ping", "done"} /\ cur' = None
        \/ pc' = "drain" /\ cur' = CallLaterTask
        \/ pc' = "decide" /\ cur' = Consumer
        \/ \E f \in Thread : pc' = "held" /\ cur' = Sync(f)
    BY <1>3
       DEF Scheduler, Top, Idle, Wake, Cycle, Ping, Drain, Decide, RunScheduleTask,
           RunSyncTask, EndSync, RunCallLater, RunConsumer, Register, Leaves, Runs,
           PcInv
  <2> QED
    BY <1>1, <2>1, Names DEF PcInv, Runnable, TasksApart
<1>4. CASE Cycle
  <2>1. ready # <<>> => Head(ready) # None
    BY TakenHas, Names DEF TypeInv
  <2>2. cur = None
    BY <1>4 DEF Cycle, PcInv
  <2>3. \/ pc' = "top" /\ cur' = None
        \/ pc' = "execute" /\ cur' # None
    BY <1>4, <2>1, <2>2 DEF Cycle
  <2> QED
    BY <1>1, <2>3 DEF PcInv
<1>5. ASSUME NEW t \in Program, TaskStep(t)
      PROVE  UNCHANGED <<pc, cur>> \/ (pc' \in {"top", "ping"} /\ cur' = None)
  BY <1>5
     DEF TaskStep, Yields, YieldZero, Finish, YieldSleep, YieldSelect, YieldCall,
         ResumeSend, YieldAgain, Acquire, Release, Register, Leaves, schedVars
<1>6. CASE pc' \in {"top", "ping"} /\ cur' = None
  BY <1>1, <1>6 DEF PcInv
<1> QED
  BY <1>2, <1>3, <1>4, <1>5, <1>6, NotTheScheduler DEF Next

LEMMA TypeStep == ASSUME TasksApart, TypeInv, PcInv, Next PROVE TypeInv' /\ PcInv'
BY ReadyStep, HubType, CurType, AnswerType, RestType, PcStep DEF TypeInv

\* Where a task in the place `from` is not.
LEMMA Elsewhere ==
  ASSUME CoreInv, NEW t \in Kept, NEW from, In(t, from)
  PROVE  /\ from # "ready" => ~Has(ready, t)
         /\ from # "returning" => ~Has(returning, t)
         /\ from # "cur" => cur # t
         /\ from # "incoming" => t \notin incoming
         /\ from # "hub" => t \notin hub
         /\ from # "waiting" => t \notin waiting
         /\ from # "worker" /\ t \in Task => working[t] \notin {"call", "append"}
         /\ from # "parent" /\ t \in Task => ~(waits[t] = "again" /\ ~rv[t])
<1>1. \A p : In(t, p) => p = from
  BY InOne
<1> QED
  BY <1>1 DEF In

\* A task is where it was.
LEMMA Stays ==
  ASSUME NEW t,
         Has(ready', t) <=> Has(ready, t), Has(returning', t) <=> Has(returning, t),
         cur' = t <=> cur = t, t \in incoming' <=> t \in incoming,
         t \in hub' <=> t \in hub, t \in waiting' <=> t \in waiting,
         t \in Task => (working'[t] \in {"call", "append"}
                          <=> working[t] \in {"call", "append"}),
         t \in Task => (waits'[t] = "again" /\ ~rv'[t] <=> waits[t] = "again" /\ ~rv[t])
  PROVE  \A p : In(t, p)' <=> In(t, p)
BY DEF In

\* The running task gives its slice back.
LEMMA GivesBack ==
  ASSUME TasksApart, TypeInv, CoreInv, NEW t \in Sleeper, cur = t, cur' = None,
         hub' = hub, returning' = returning, laterState' = laterState,
         \A u \in Sleeper \ {t} : rv'[u] = rv[u] /\ waits'[u] = waits[u],
         waits'[t] # "again",
         \/ ready' = Append(ready, t) /\ waits'[t] = None
            /\ UNCHANGED <<incoming, waiting, working>>
         \/ incoming' = incoming \cup {t} /\ UNCHANGED <<ready, waiting, working>>
         \/ waiting' = waiting \cup {t} /\ UNCHANGED <<ready, incoming, working>>
         \/ working' = [working EXCEPT ![t] = "call"]
            /\ t \in Task /\ UNCHANGED <<ready, incoming, waiting>>
         \/ UNCHANGED <<ready, incoming, waiting, working>>
  PROVE  CoreInv'
<1>1. t \in Kept /\ In(t, "cur") /\ t # None /\ t \in Runnable
  BY Names DEF In, Kept
<1>2. /\ ~Has(ready, t) /\ ~Has(returning, t)
      /\ t \notin incoming /\ t \notin hub /\ t \notin waiting
      /\ t \in Task => working[t] \notin {"call", "append"}
  BY <1>1, Elsewhere
<1>3. Once(ready) /\ Once(returning')
  BY DEF CoreInv, PlaceInv
<1>4. \A u \in Kept \ {t} : u \in Task => u \in Sleeper \ {t}
  BY Names
<1>5. cur' # t /\ \A u \in Kept \ {t} : cur' = u <=> cur = u
  BY <1>1, Names DEF Kept
<1>6. CASE ready' = Append(ready, t) /\ waits'[t] = None
           /\ UNCHANGED <<incoming, waiting, working>>
  <2>1. Once(ready') /\ \A u : Has(ready', u) <=> Has(ready, u) \/ u = t
    BY <1>1, <1>2, <1>3, <1>6, PutLastHas DEF TypeInv
  <2>2. \A p : In(t, p)' => p = "ready"
    BY <1>2, <1>5, <1>6 DEF In
  <2>3. \A u \in Kept \ {t} : \A p : In(u, p)' <=> In(u, p)
    BY <1>4, <1>5, <1>6, <2>1, Stays
  <2> QED
    BY <1>1, <1>2, <1>3, <1>6, <2>1, <2>2, <2>3, OneMoves
<1>7. CASE incoming' = incoming \cup {t} /\ UNCHANGED <<ready, waiting, working>>
  <2>1. \A p : In(t, p)' => p = "incoming"
    BY <1>2, <1>5, <1>7 DEF In
  <2>2. \A u \in Kept \ {t} : \A p : In(u, p)' <=> In(u, p)
    BY <1>4, <1>5, <1>7, Stays
  <2> QED
    BY <1>1, <1>2, <1>3, <1>7, <2>1, <2>2, OneMoves
<1>8. CASE waiting' = waiting \cup {t} /\ UNCHANGED <<ready, incoming, working>>
  <2>1. \A p : In(t, p)' => p = "waiting"
    BY <1>2, <1>5, <1>8 DEF In
  <2>2. \A u \in Kept \ {t} : \A p : In(u, p)' <=> In(u, p)
    BY <1>4, <1>5, <1>8, Stays
  <2> QED
    BY <1>1, <1>2, <1>3, <1>8, <2>1, <2>2, OneMoves
<1>9. CASE working' = [working EXCEPT ![t] = "call"]
           /\ t \in Task /\ UNCHANGED <<ready, incoming, waiting>>
  <2>1. working'[t] = "call" /\ \A u \in Task \ {t} : working'[u] = working[u]
    BY <1>9 DEF TypeInv
  <2>2. \A p : In(t, p)' => p = "worker"
    BY <1>2, <1>5, <1>9 DEF In
  <2>3. \A u \in Kept \ {t} : \A p : In(u, p)' <=> In(u, p)
    BY <1>4, <1>5, <1>9, <2>1, Stays
  <2> QED
    BY <1>1, <1>2, <1>3, <1>9, <2>1, <2>2, <2>3, OneMoves
<1>10. CASE UNCHANGED <<ready, incoming, waiting, working>>
  <2>1. \A p : In(t, p)' => p = "nowhere"
    BY <1>2, <1>5, <1>10 DEF In
  <2>2. \A u \in Kept \ {t} : \A p : In(u, p)' <=> In(u, p)
    BY <1>4, <1>5, <1>10, Stays
  <2> QED
    BY <1>1, <1>2, <1>3, <1>10, <2>1, <2>2, OneMoves
<1> QED
  BY <1>6, <1>7, <1>8, <1>9, <1>10

\* What is put into `ready` or leaves it is no task that has a place.
LEMMA Untouched ==
  ASSUME TasksApart, TypeInv, CoreInv,
         UNCHANGED <<returning, incoming, hub, waiting, laterState>>,
         \A u \in Kept : Has(ready', u) <=> Has(ready, u), Once(ready'),
         \A u \in Kept : cur' = u <=> cur = u,
         \A u \in Sleeper : rv'[u] = rv[u]
           /\ (waits'[u] = waits[u] \/ (waits'[u] = None /\ (cur = u \/ waits[u] = "send"))),
         \A u \in Task : /\ working'[u] = "append" => working[u] = "append"
                         /\ working'[u] \in {"call", "append"}
                              <=> working[u] \in {"call", "append"}
  PROVE  CoreInv'
<1>1. \A u \in Task : waits'[u] = "again" /\ ~rv'[u] <=> waits[u] = "again" /\ ~rv[u]
  <2> TAKE u \in Task
  <2>1. u \in Sleeper /\ u \in Kept /\ None # "again"
    BY Names DEF Kept, TasksApart
  <2>2. cur = u => ~(waits[u] = "again" /\ ~rv[u])
    <3>1. cur = u => In(u, "cur")
      BY DEF In
    <3> QED
      BY <2>1, <3>1, Elsewhere
  <2> QED
    BY <2>1, <2>2
<1>2. \A u \in Kept : \A p : In(u, p)' <=> In(u, p)
  BY <1>1, Stays
<1>3. Once(returning')
  BY DEF CoreInv, PlaceInv
<1>4. \A u \in Sleeper : rv'[u] = rv[u] /\ waits'[u] \in {waits[u], None}
  OBVIOUS
<1> QED
  BY <1>2, <1>3, <1>4, NoneMoves

\* The same, when `ready` does not change either.
LEMMA ReadySame ==
  ASSUME CoreInv, ready' = ready
  PROVE  Once(ready') /\ \A u : Has(ready', u) <=> Has(ready, u)
BY DEF CoreInv, PlaceInv

\* The same, when something else is put into `ready`.
LEMMA ReadyOther ==
  ASSUME TypeInv, CoreInv, NEW x \in Runnable \ Kept,
         ready' \in {Append(ready, x), <<x>> \o ready}
  PROVE  Once(ready') /\ \A u \in Kept : Has(ready', u) <=> Has(ready, u)
<1>1. ready \in Seq(Runnable) /\ Once(ready)
  BY DEF TypeInv, CoreInv, PlaceInv
<1>2. CASE ready' = Append(ready, x)
  BY <1>1, <1>2, PutLastHas
<1>3. CASE ready' = <<x>> \o ready
  BY <1>1, <1>3, PutFirstHas
<1> QED
  BY <1>2, <1>3

\* A task is in one place only.
LEMMA OnlyIn ==
  ASSUME NEW t, NEW to,
         to # "ready" => ~Has(ready', t), to # "returning" => ~Has(returning', t),
         to # "cur" => cur' # t, to # "incoming" => t \notin incoming',
         to # "hub" => t \notin hub', to # "waiting" => t \notin waiting',
         to # "worker" /\ t \in Task => working'[t] \notin {"call", "append"},
         to # "parent" /\ t \in Task => ~(waits'[t] = "again" /\ ~rv'[t])
  PROVE  \A p : In(t, p)' => p = to
BY DEF In

-----------------------------------------------------------------------------
(* The steps that move more than one task. *)

\* A task lets its subtask go first.
LEMMA AgainStep ==
  ASSUME TasksApart, TypeInv, CoreInv, NEW t \in Program, YieldAgain(t)
  PROVE  CoreInv'
<1> DEFINE s == Again(t)
<1>1. /\ t \in Task /\ s \in Sleeper /\ s \notin Task /\ t \in Sleeper
      /\ t \in Kept /\ s \in Kept /\ s # t /\ t # None /\ s # None /\ s \in Runnable
      /\ t # Starter /\ s # Starter /\ t # CallLaterTask /\ s # CallLaterTask
  BY Names DEF YieldAgain, Kept
<1>2. /\ cur = t /\ cur' = None /\ ready' = <<s>> \o ready
      /\ UNCHANGED <<returning, incoming, hub, waiting, working, laterState>>
  BY DEF YieldAgain, Resumed, Runs, PutFirst, Leaves, hubVars, lockVars, others, laterVars
<1>3. /\ waits'[t] = "again" /\ ~rv'[t]
      /\ \A u \in Sleeper \ {t} : waits'[u] = waits[u] /\ rv'[u] = rv[u]
  BY <1>1 DEF YieldAgain, WaitsFor, TypeInv
<1>4. /\ ~Has(ready, t) /\ ~Has(returning, t)
      /\ t \notin incoming /\ t \notin hub /\ t \notin waiting
      /\ working[t] \notin {"call", "append"} /\ ~In(t, "parent")
  <2>1. In(t, "cur")
    BY <1>2 DEF In
  <2> QED
    BY <1>1, <2>1, Elsewhere DEF In
<1>5. Nowhere(s) /\ waits[s] = None
  BY <1>1, <1>4 DEF CoreInv, SubtaskInv
<1>6. /\ ~Has(ready, s) /\ ~Has(returning, s)
      /\ s \notin incoming /\ s \notin hub /\ s \notin waiting
  BY <1>5 DEF Nowhere, In
<1>7. Once(ready) /\ Once(returning)
  BY DEF CoreInv, PlaceInv
<1>8. Once(ready') /\ \A u : Has(ready', u) <=> Has(ready, u) \/ u = s
  BY <1>1, <1>2, <1>6, <1>7, PutFirstHas DEF TypeInv
<1> HIDE DEF s
<1>9. \A p : In(t, p)' => p = "parent"
  BY <1>1, <1>2, <1>4, <1>8 DEF In
<1>10. \A p : In(s, p)' => p = "ready"
  BY <1>1, <1>2, <1>6, <1>8 DEF In
<1>11. \A u \in Kept \ {t, s} : \A p : In(u, p)' <=> In(u, p)
  <2> TAKE u \in Kept \ {t, s}
  <2>1. u # None /\ (u \in Task => u \in Sleeper \ {t})
    BY Names DEF Kept
  <2> QED
    BY <1>2, <1>3, <1>8, <2>1, Stays
<1>12. PlaceInv'
  <2>1. \A u \in Kept : \A p, q : In(u, p)' /\ In(u, q)' => p = q
    BY <1>9, <1>10, <1>11, InOne
  <2> QED
    BY <1>2, <1>7, <1>8, <2>1 DEF PlaceInv
<1>13. AnswerInv'
  <2>1. ASSUME NEW u \in Sleeper, (Pending(u) \/ cur = u)' PROVE waits'[u] = None \/ rv'[u]
    <3>1. Has(ready', u)
      BY <1>2, <2>1, Names DEF Has, Pending
    <3>2. u = s \/ Pending(u)
      BY <1>8, <3>1 DEF Has, Pending
    <3>3. u # t
      BY <1>1, <1>4, <1>8, <3>1
    <3> QED
      BY <1>1, <1>3, <1>5, <3>2, <3>3 DEF CoreInv, AnswerInv, Answered
  <2>2. ASSUME NEW u \in Task, working'[u] = "append" PROVE rv'[u]
    <3>1. working[u] = "append" /\ u # t /\ u \in Sleeper
      BY <1>2, <1>4, <2>2, Names
    <3> QED
      BY <1>3, <3>1 DEF CoreInv, AnswerInv
  <2> QED
    BY <2>1, <2>2 DEF AnswerInv, Answered
<1>14. SubtaskInv'
  <2> SUFFICES ASSUME NEW u \in Task, ~In(u, "parent")'
               PROVE  Nowhere(Again(u))' /\ waits'[Again(u)] = None
    BY DEF SubtaskInv
  <2>1. u # t
    BY <1>1, <1>3 DEF In
  <2>2. /\ u \in Kept \ {t, s} /\ Again(u) \in Kept \ {t, s} /\ Again(u) \in Sleeper \ {t}
    BY <1>1, <2>1, Names DEF s, Kept
  <2>3. Nowhere(Again(u)) /\ waits[Again(u)] = None
    BY <1>11, <2>2 DEF CoreInv, SubtaskInv
  <2> QED
    BY <1>3, <1>11, <2>2, <2>3 DEF Nowhere
<1>15. LaterInv'
  <2>1. {Starter, CallLaterTask} \subseteq Kept \ {t, s} /\ CallLaterTask \in Sleeper \ {t}
    BY <1>1, Names DEF Kept
  <2>2. \A u \in {Starter, CallLaterTask} : Nowhere(u)' <=> Nowhere(u)
    BY <1>11, <2>1 DEF Nowhere
  <2> QED
    BY <1>2, <1>3, <2>1, <2>2 DEF CoreInv, LaterInv
<1> QED
  BY <1>12, <1>13, <1>14, <1>15 DEF CoreInv

\* A subtask ends, and its parent runs next.
LEMMA SubtaskEnds ==
  ASSUME TasksApart, TypeInv, CoreInv, NEW t \in Task, Finish(Again(t))
  PROVE  CoreInv'
<1> DEFINE s == Again(t)
<1>1. /\ s \in Sleeper /\ s \notin Task /\ t \in Sleeper
      /\ t \in Kept /\ s \in Kept /\ s # t /\ t # None /\ s # None /\ t \in Runnable
      /\ t # Starter /\ s # Starter /\ t # CallLaterTask /\ s # CallLaterTask
  BY Names DEF Kept
<1>2. s[2] = t
  BY Names
<1>3. /\ cur = s /\ cur' = None /\ ready' = <<t>> \o ready
      /\ UNCHANGED <<returning, incoming, hub, waiting, working, laterState>>
  BY <1>1, <1>2 DEF Finish, Resumed, Runs, PutFirst, Leaves, hubVars, lockVars, others,
                    laterVars
<1>4. /\ waits'[s] = None /\ rv'[t]
      /\ \A u \in Sleeper \ {s} : waits'[u] = waits[u]
      /\ \A u \in Sleeper \ {s, t} : rv'[u] = rv[u]
  BY <1>1, <1>2 DEF Finish, TypeInv
<1>5. /\ ~Has(ready, s) /\ ~Has(returning, s)
      /\ s \notin incoming /\ s \notin hub /\ s \notin waiting /\ ~Nowhere(s)
  <2>1. In(s, "cur")
    BY <1>3 DEF In
  <2> QED
    BY <1>1, <2>1, Elsewhere DEF Nowhere
<1>6. In(t, "parent")
  BY <1>5 DEF CoreInv, SubtaskInv
<1>7. /\ ~Has(ready, t) /\ ~Has(returning, t)
      /\ t \notin incoming /\ t \notin hub /\ t \notin waiting
      /\ working[t] \notin {"call", "append"}
  BY <1>1, <1>6, Elsewhere
<1>8. Once(ready) /\ Once(returning)
  BY DEF CoreInv, PlaceInv
<1>9. Once(ready') /\ \A u : Has(ready', u) <=> Has(ready, u) \/ u = t
  BY <1>1, <1>3, <1>7, <1>8, PutFirstHas DEF TypeInv
<1> HIDE DEF s
<1>10. \A p : In(t, p)' => p = "ready"
  BY <1>1, <1>3, <1>4, <1>7, <1>9 DEF In
<1>11. \A p : ~In(s, p)'
  BY <1>1, <1>3, <1>5, <1>9 DEF In
<1>12. \A u \in Kept \ {t, s} : \A p : In(u, p)' <=> In(u, p)
  <2> TAKE u \in Kept \ {t, s}
  <2>1. u # None /\ (u \in Task => u \in Sleeper \ {t, s})
    BY Names DEF Kept
  <2> QED
    BY <1>3, <1>4, <1>9, <2>1, Stays
<1>13. PlaceInv'
  <2>1. \A u \in Kept : \A p, q : In(u, p)' /\ In(u, q)' => p = q
    BY <1>10, <1>11, <1>12, InOne
  <2> QED
    BY <1>3, <1>8, <1>9, <2>1 DEF PlaceInv
<1>14. AnswerInv'
  <2>1. ASSUME NEW u \in Sleeper, (Pending(u) \/ cur = u)' PROVE waits'[u] = None \/ rv'[u]
    <3>1. Has(ready', u)
      BY <1>3, <2>1, Names DEF Has, Pending
    <3>2. u = t \/ Pending(u)
      BY <1>9, <3>1 DEF Has, Pending
    <3>3. u # s
      BY <1>1, <1>5, <1>9, <3>1
    <3> QED
      BY <1>1, <1>4, <3>2, <3>3 DEF CoreInv, AnswerInv, Answered
  <2>2. ASSUME NEW u \in Task, working'[u] = "append" PROVE rv'[u]
    <3>1. working[u] = "append" /\ u # s /\ u \in Sleeper
      BY <1>1, <1>3, <2>2, Names
    <3> QED
      BY <1>4, <3>1 DEF CoreInv, AnswerInv
  <2> QED
    BY <2>1, <2>2 DEF AnswerInv, Answered
<1>15. SubtaskInv'
  <2> SUFFICES ASSUME NEW u \in Task, ~In(u, "parent")'
               PROVE  Nowhere(Again(u))' /\ waits'[Again(u)] = None
    BY DEF SubtaskInv
  <2>1. CASE u = t
    BY <1>4, <1>11, <2>1 DEF Nowhere, s
  <2>2. CASE u # t
    <3>1. /\ u \in Kept \ {t, s} /\ Again(u) \in Kept \ {t, s} /\ Again(u) \in Sleeper \ {s}
      BY <1>1, <2>2, Names DEF s, Kept
    <3>2. Nowhere(Again(u)) /\ waits[Again(u)] = None
      BY <1>12, <3>1 DEF CoreInv, SubtaskInv
    <3> QED
      BY <1>4, <1>12, <3>1, <3>2 DEF Nowhere
  <2> QED
    BY <2>1, <2>2
<1>16. LaterInv'
  <2>1. {Starter, CallLaterTask} \subseteq Kept \ {t, s} /\ CallLaterTask \in Sleeper \ {s}
    BY <1>1, Names DEF Kept
  <2>2. \A u \in {Starter, CallLaterTask} : Nowhere(u)' <=> Nowhere(u)
    BY <1>12, <2>1 DEF Nowhere
  <2> QED
    BY <1>3, <1>4, <2>1, <2>2 DEF CoreInv, LaterInv
<1> QED
  BY <1>13, <1>14, <1>15, <1>16 DEF CoreInv

\* The first callLater() puts the task that starts the CallLaterTask into `ready`.
LEMMA FirstCall ==
  ASSUME TasksApart, TypeInv, CoreInv, NEW f \in Thread, CallLater(f), laterState = "none"
  PROVE  CoreInv'
<1>1. /\ Starter \in Runnable /\ Starter \in Kept /\ Starter \notin Sleeper
      /\ Starter \notin Task
  BY Names DEF Kept, Sleeper, Program
<1>2. /\ ready' = Append(ready, Starter) /\ laterState' = "on"
      /\ UNCHANGED <<cur, waits, rv, returning, incoming, hub, waiting, working>>
  BY DEF CallLater, StartSchedule, Starter, taskVars, hubVars
<1>3. /\ Nowhere(Starter) /\ Nowhere(CallLaterTask) /\ waits[CallLaterTask] = None
      /\ CallLaterTask \in Kept \ {Starter}
  BY <1>1, Names DEF CoreInv, LaterInv, Kept
<1>4. Once(ready) /\ Once(returning)
  BY DEF CoreInv, PlaceInv
<1>5. Once(ready') /\ \A u : Has(ready', u) <=> Has(ready, u) \/ u = Starter
  <2>1. ~Has(ready, Starter)
    BY <1>3 DEF Nowhere, In
  <2> QED
    BY <1>1, <1>2, <1>4, <2>1, PutLastHas DEF TypeInv
<1>6. \A p : In(Starter, p)' => p = "ready"
  BY <1>1, <1>2, <1>3 DEF Nowhere, In
<1>7. \A u \in Kept \ {Starter} : \A p : In(u, p)' <=> In(u, p)
  BY <1>2, <1>5, Stays
<1>8. PlaceInv'
  <2>1. \A u \in Kept : \A p, q : In(u, p)' /\ In(u, q)' => p = q
    BY <1>6, <1>7, InOne
  <2> QED
    BY <1>2, <1>4, <1>5, <2>1 DEF PlaceInv
<1>9. AnswerInv'
  <2>1. \A u \in Sleeper : Pending(u)' => Pending(u)
    BY <1>1, <1>5 DEF Pending, Has
  <2> QED
    BY <1>2, <2>1 DEF CoreInv, AnswerInv, Answered
<1>10. SubtaskInv'
  <2> SUFFICES ASSUME NEW t \in Task, ~In(t, "parent")'
               PROVE  Nowhere(Again(t))' /\ waits'[Again(t)] = None
    BY DEF SubtaskInv
  <2>1. t \in Kept \ {Starter} /\ Again(t) \in Kept \ {Starter}
    BY <1>1, Names DEF Kept
  <2>2. Nowhere(Again(t)) /\ waits[Again(t)] = None
    BY <1>7, <2>1 DEF CoreInv, SubtaskInv
  <2> QED
    BY <1>2, <1>7, <2>1, <2>2 DEF Nowhere
<1>11. LaterInv'
  <2>1. Nowhere(CallLaterTask)'
    BY <1>3, <1>7 DEF Nowhere
  <2> QED
    BY <1>2, <1>3, <2>1 DEF LaterInv
<1> QED
  BY <1>8, <1>9, <1>10, <1>11 DEF CoreInv

\* That task puts the CallLaterTask there.
LEMMA StartsLater ==
  ASSUME TasksApart, TypeInv, CoreInv, RunScheduleTask(CallLaterTask)
  PROVE  CoreInv'
<1> DEFINE c == CallLaterTask
<1>1. /\ Starter \in Kept /\ Starter \notin Sleeper /\ Starter \notin Task
      /\ c \in Sleeper /\ c \in Runnable /\ c \in Kept /\ c # Starter /\ c \notin Task
      /\ Starter # None /\ c # None
  BY Names DEF Kept, TasksApart
<1>2. /\ cur = Starter /\ cur' = None
      /\ UNCHANGED <<waits, rv, returning, incoming, hub, waiting, working, laterState>>
      /\ IF Pending(c) THEN ready' = ready ELSE ready' = <<c>> \o ready
  BY DEF RunScheduleTask, Runs, Leaves, PutFirst, Starter, taskVars, lockVars, hubVars,
         others, laterVars
<1>3. /\ ~Nowhere(Starter) /\ ~Has(ready, Starter) /\ ~Has(returning, Starter)
      /\ Starter \notin incoming /\ Starter \notin hub /\ Starter \notin waiting
  <2>1. In(Starter, "cur")
    BY <1>2 DEF In
  <2> QED
    BY <1>1, <2>1, Elsewhere DEF Nowhere
<1>4. Nowhere(c) /\ waits[c] = None /\ laterState # "none"
  BY <1>3 DEF CoreInv, LaterInv
<1>5. ready' = <<c>> \o ready /\ ~Has(ready, c)
  <2>1. ~Has(ready, c)
    BY <1>4 DEF Nowhere, In
  <2> QED
    BY <1>2, <2>1 DEF Pending, Has
<1>6. Once(ready) /\ Once(returning)
  BY DEF CoreInv, PlaceInv
<1>7. Once(ready') /\ \A u : Has(ready', u) <=> Has(ready, u) \/ u = c
  BY <1>1, <1>5, <1>6, PutFirstHas DEF TypeInv
<1> HIDE DEF c
<1>8. \A p : In(c, p)' => p = "ready"
  BY <1>1, <1>2, <1>4 DEF Nowhere, In
<1>9. \A p : ~In(Starter, p)'
  BY <1>1, <1>2, <1>3, <1>7 DEF In
<1>10. \A u \in Kept \ {Starter, c} : \A p : In(u, p)' <=> In(u, p)
  <2> TAKE u \in Kept \ {Starter, c}
  <2>1. u # None
    BY Names DEF Kept
  <2> QED
    BY <1>2, <1>7, <2>1, Stays
<1>11. PlaceInv'
  <2>1. \A u \in Kept : \A p, q : In(u, p)' /\ In(u, q)' => p = q
    BY <1>8, <1>9, <1>10, InOne
  <2> QED
    BY <1>2, <1>6, <1>7, <2>1 DEF PlaceInv
<1>12. AnswerInv'
  <2>1. ASSUME NEW u \in Sleeper, (Pending(u) \/ cur = u)' PROVE waits'[u] = None \/ rv'[u]
    <3>1. Has(ready', u)
      BY <1>2, <2>1, Names DEF Has, Pending
    <3>2. u = c \/ Pending(u)
      BY <1>7, <3>1 DEF Has, Pending
    <3> QED
      BY <1>2, <1>4, <3>2 DEF CoreInv, AnswerInv, Answered
  <2> QED
    BY <1>2, <2>1 DEF CoreInv, AnswerInv, Answered
<1>13. SubtaskInv'
  <2> SUFFICES ASSUME NEW t \in Task, ~In(t, "parent")'
               PROVE  Nowhere(Again(t))' /\ waits'[Again(t)] = None
    BY DEF SubtaskInv
  <2>1. t \in Kept \ {Starter, c} /\ Again(t) \in Kept \ {Starter, c}
    BY <1>1, Names DEF Kept, c
  <2>2. Nowhere(Again(t)) /\ waits[Again(t)] = None
    BY <1>10, <2>1 DEF CoreInv, SubtaskInv
  <2> QED
    BY <1>2, <1>10, <2>1, <2>2 DEF Nowhere
<1>14. LaterInv'
  BY <1>2, <1>4, <1>9 DEF LaterInv, Nowhere
<1> QED
  BY <1>11, <1>12, <1>13, <1>14 DEF CoreInv

-----------------------------------------------------------------------------
(* The hub. *)

\* Tasks move within the hub, or leave it.
LEMMA HubMoves ==
  ASSUME TasksApart, TypeInv, CoreInv, Once(returning'),
         UNCHANGED <<ready, cur, waiting, waits, rv, working, laterState>>,
         \A u \in Kept :
           /\ Has(returning', u) => Has(returning, u) \/ u \in hub
           /\ u \in hub' => u \in hub \/ u \in incoming
           /\ u \in incoming' => u \in incoming
           /\ ~(u \in hub' /\ Has(returning', u)) /\ ~(u \in hub' /\ u \in incoming')
  PROVE  CoreInv'
<1>1. \A u \in Kept : \A p : p \notin {"returning", "incoming", "hub"} =>
        (In(u, p)' <=> In(u, p))
  BY DEF In
<1>2. \A u \in Kept : \A p \in {"returning", "incoming", "hub"} :
        In(u, p)' => \E q \in {"returning", "incoming", "hub"} : In(u, q)
  BY DEF In
<1>3. \A u \in Kept : \A p, q \in {"returning", "incoming", "hub"} :
        In(u, p)' /\ In(u, q)' => p = q
  <2> TAKE u \in Kept
  <2>1. ~(Has(returning, u) /\ u \in incoming) /\ ~(u \in hub /\ u \in incoming)
    <3>1. Has(returning, u) => In(u, "returning")
      BY DEF In
    <3>2. (u \in incoming => In(u, "incoming")) /\ (u \in hub => In(u, "hub"))
      BY DEF In
    <3> QED
      BY <3>1, <3>2, InOne
  <2> QED
    BY <2>1 DEF In
<1>4. PlaceInv'
  <2>1. \A u \in Kept : \A p, q : In(u, p)' /\ In(u, q)' => p = q
    BY <1>1, <1>2, <1>3, InOne
  <2> QED
    BY <2>1 DEF CoreInv, PlaceInv
<1>5. \A u \in Kept : Nowhere(u) => Nowhere(u)'
  BY <1>1, <1>2 DEF Nowhere
<1>6. /\ \A u \in Kept : \A p \in {"ready", "cur"} : In(u, p)' => In(u, p)
      /\ \A u \in Task : In(u, "parent") => In(u, "parent")'
  BY DEF In
<1> QED
  BY <1>4, <1>5, <1>6, NothingAppears

\* The hub's thread.
LEMMA HubStep == ASSUME TasksApart, TypeInv, PcInv, CoreInv, Hub PROVE CoreInv'
<1>1. \A u \in Kept : ~(u \in hub /\ Has(returning, u)) /\ ~(u \in hub /\ u \in incoming)
  <2> TAKE u \in Kept
  <2>1. (Has(returning, u) => In(u, "returning")) /\ (u \in hub => In(u, "hub"))
        /\ (u \in incoming => In(u, "incoming"))
    BY DEF In
  <2> QED
    BY <2>1, InOne
<1>2. Once(ready) /\ Once(returning)
  BY DEF CoreInv, PlaceInv
<1>3. \A S \in SUBSET hub : \A s \in SetToSeqs(S) :
        Once(s) /\ \A u : Has(s, u) => u \in S
  <2>1. IsFiniteSet(Sleeper)
    BY SleeperFinite
  <2>2. \A S \in SUBSET hub : IsFiniteSet(S)
    BY <2>1, FS_Subset DEF TypeInv
  <2> QED
    BY <2>2, OrderHas
<1>4. CASE HubScan
  <2>1. UNCHANGED <<ready, cur, waiting, waits, rv, working, laterState, incoming>>
    BY <1>4 DEF HubScan, schedVars, taskVars, others, laterVars
  <2>2. CASE quit
    <3>1. UNCHANGED <<hub, returning>>
      BY <1>4, <2>2 DEF HubScan
    <3> QED
      BY <1>1, <1>2, <2>1, <3>1, HubMoves
  <2>3. CASE ~quit
    <3>1. PICK S \in SUBSET hub : hub' = hub \ S /\ returning' \in SetToSeqs(S)
      BY <1>4, <2>3 DEF HubScan
    <3>2. Once(returning') /\ \A u : Has(returning', u) => u \in S
      BY <1>3, <3>1
    <3> QED
      BY <1>1, <2>1, <3>1, <3>2, HubMoves
  <2> QED
    BY <2>2, <2>3
<1>5. CASE HubSelect
  <2>1. UNCHANGED <<ready, cur, waiting, waits, rv, working, laterState, incoming>>
    BY <1>5 DEF HubSelect, schedVars, taskVars, others, laterVars
  <2>2. CASE \E S \in SUBSET hub : hub' = hub \ S /\ returning' \in SetToSeqs(S)
    <3>1. PICK S \in SUBSET hub : hub' = hub \ S /\ returning' \in SetToSeqs(S)
      BY <2>2
    <3>2. Once(returning') /\ \A u : Has(returning', u) => u \in S
      BY <1>3, <3>1
    <3> QED
      BY <1>1, <2>1, <3>1, <3>2, HubMoves
  <2>3. CASE \E t \in hub : hub' = hub \ {t} /\ returning' = <<t>>
    <3>1. PICK t \in hub : hub' = hub \ {t} /\ returning' = <<t>>
      BY <2>3
    <3>2. Once(returning') /\ \A u : Has(returning', u) => u = t
      BY <3>1 DEF Once, Has
    <3> QED
      BY <1>1, <2>1, <3>1, <3>2, HubMoves
  <2>4. CASE UNCHANGED <<hub, returning>>
    BY <1>1, <1>2, <2>1, <2>4, HubMoves
  <2> QED
    BY <1>5, <2>2, <2>3, <2>4 DEF HubSelect
<1>6. CASE HubDrain
  <2>1. /\ UNCHANGED <<ready, cur, waiting, waits, rv, working, laterState, returning>>
        /\ hub' = hub \cup incoming /\ incoming' = {}
    BY <1>6 DEF HubDrain, schedVars, taskVars, others, laterVars
  <2>2. \A u \in Kept : ~(u \in incoming /\ Has(returning, u))
    <3> TAKE u \in Kept
    <3>1. (Has(returning, u) => In(u, "returning")) /\ (u \in incoming => In(u, "incoming"))
      BY DEF In
    <3> QED
      BY <3>1, InOne
  <2> QED
    BY <1>1, <1>2, <2>1, <2>2, HubMoves
<1>7. CASE HubReturn
  <2> PICK t : t = Head(returning)
    OBVIOUS
  <2>1. returning # <<>>
    BY <1>7 DEF HubReturn, PcInv
  <2>2. /\ t \in Sleeper /\ t \in Kept /\ t \in Runnable /\ Has(returning, t)
        /\ Once(returning') /\ ~Has(returning', t)
        /\ \A u : u # t => (Has(returning', u) <=> Has(returning, u))
    BY <1>2, <1>7, <2>1, TakenHas, Names DEF HubReturn, TypeInv, Kept
  <2>3. /\ ready' = Append(ready, t) /\ rv' = [rv EXCEPT ![t] = TRUE]
        /\ UNCHANGED <<cur, waiting, waits, working, laterState, incoming, hub>>
    BY <1>7 DEF HubReturn, lockVars, others, laterVars
  <2>4. In(t, "returning")
    BY <2>2 DEF In
  <2>5. /\ ~Has(ready, t) /\ cur # t /\ t \notin incoming /\ t \notin hub /\ t \notin waiting
        /\ t \in Task => working[t] \notin {"call", "append"}
    BY <2>2, <2>4, Elsewhere
  <2>6. Once(ready') /\ \A u : Has(ready', u) <=> Has(ready, u) \/ u = t
    BY <1>2, <2>2, <2>3, <2>5, PutLastHas DEF TypeInv
  <2>7. rv'[t] /\ \A u \in Sleeper \ {t} : rv'[u] = rv[u]
    BY <2>2, <2>3 DEF TypeInv
  <2>8. \A p : In(t, p)' => p = "ready"
    BY <2>2, <2>3, <2>5, <2>7, OnlyIn
  <2>9. \A u \in Kept \ {t} : \A p : In(u, p)' <=> In(u, p)
    <3> TAKE u \in Kept \ {t}
    <3>1. u \in Task => u \in Sleeper \ {t}
      BY Names
    <3> QED
      BY <2>2, <2>3, <2>6, <2>7, <3>1, Stays
  <2>10. \A u \in Sleeper \ {t} : rv'[u] = rv[u] /\ waits'[u] \in {waits[u], None}
    BY <2>3, <2>7
  <2>11. laterState' = laterState /\ working' = working
    BY <2>3
  <2> QED
    BY <2>2, <2>4, <2>5, <2>6, <2>7, <2>8, <2>9, <2>10, <2>11, OneMoves
<1>8. CASE HubSet
  <2>1. UNCHANGED <<ready, cur, waiting, waits, rv, working, laterState, incoming, hub,
                    returning>>
    BY <1>8 DEF HubSet, taskVars, lockVars, others, laterVars
  <2> QED
    BY <1>1, <1>2, <2>1, HubMoves
<1> QED
  BY <1>4, <1>5, <1>6, <1>7, <1>8 DEF Hub

-----------------------------------------------------------------------------
(* The steps of the scheduler's thread. *)

\* A task that yields.
LEMMA YieldStep ==
  ASSUME TasksApart, TypeInv, CoreInv, NEW t \in Program, Yields(t)
  PROVE  CoreInv'
<1>1. t \in Sleeper /\ None # "again"
  BY Names DEF TasksApart
<1>2. ASSUME NEW v, v # "again",
             waits' = [waits EXCEPT ![t] = v],
             rv' = rv \/ rv' = [rv EXCEPT ![t] = FALSE]
      PROVE  /\ waits'[t] = v
             /\ \A u \in Sleeper \ {t} : rv'[u] = rv[u] /\ waits'[u] = waits[u]
  BY <1>1, <1>2 DEF TypeInv
<1>3. CASE YieldZero(t)
  <2>1. /\ cur = t /\ cur' = None /\ ready' = Append(ready, t)
        /\ waits' = [waits EXCEPT ![t] = None] /\ rv' = [rv EXCEPT ![t] = FALSE]
        /\ UNCHANGED <<hub, returning, laterState, incoming, waiting, working>>
    BY <1>3
       DEF YieldZero, Resumed, Runs, Leaves, WaitsFor, schedVars, taskVars, lockVars,
           hubVars, others, laterVars, threadVars
  <2> QED
    BY <1>1, <1>2, <2>1, GivesBack
<1>4. CASE Finish(t) /\ t \in Task
  <2>1. /\ cur = t /\ cur' = None /\ waits' = [waits EXCEPT ![t] = "done"] /\ rv' = rv
        /\ UNCHANGED <<ready, hub, returning, laterState, incoming, waiting, working>>
    BY <1>4
       DEF Finish, Resumed, Runs, Leaves, schedVars, taskVars, lockVars, hubVars,
           others, laterVars, threadVars
  <2> QED
    BY <1>1, <1>2, <2>1, GivesBack
<1>5. CASE Finish(t) /\ t \notin Task
  <2>1. PICK u \in Task : t = Again(u)
    BY <1>5, Names
  <2> QED
    BY <1>5, <2>1, SubtaskEnds
<1>6. CASE YieldSleep(t)
  <2>1. /\ cur = t /\ cur' = None
        /\ UNCHANGED <<hub, returning, laterState, waiting, working>>
    BY <1>6
       DEF YieldSleep, Resumed, Runs, Register, Leaves, schedVars, taskVars, lockVars,
           hubVars, others, laterVars, threadVars
  <2>2. CASE Register(t) /\ WaitsFor(t, "sleep")
    <3>1. /\ ready' = ready /\ incoming' = incoming \cup {t}
          /\ waits' = [waits EXCEPT ![t] = "sleep"] /\ rv' = [rv EXCEPT ![t] = FALSE]
      BY <2>2 DEF Register, WaitsFor
    <3> QED
      BY <1>1, <1>2, <2>1, <3>1, GivesBack
  <2>3. CASE PutLast(t) /\ WaitsFor(t, None) /\ UNCHANGED hubVars
    <3>1. /\ ready' = Append(ready, t) /\ incoming' = incoming
          /\ waits' = [waits EXCEPT ![t] = None] /\ rv' = [rv EXCEPT ![t] = FALSE]
      BY <2>3 DEF PutLast, WaitsFor, hubVars
    <3> QED
      BY <1>1, <1>2, <2>1, <3>1, GivesBack
  <2> QED
    BY <1>6, <2>2, <2>3 DEF YieldSleep
<1>7. CASE \E op \in {"recv", "send"} : YieldSelect(t, op)
  <2>1. PICK op \in {"recv", "send"} : YieldSelect(t, op)
    BY <1>7
  <2>2. /\ cur = t /\ cur' = None /\ ready' = ready /\ incoming' = incoming \cup {t}
        /\ waits' = [waits EXCEPT ![t] = op] /\ rv' = [rv EXCEPT ![t] = FALSE]
        /\ UNCHANGED <<hub, returning, laterState, waiting, working>>
    BY <2>1
       DEF YieldSelect, Resumed, Runs, Register, Leaves, WaitsFor, schedVars, taskVars,
           lockVars, hubVars, others, laterVars, threadVars
  <2> QED
    BY <1>1, <1>2, <2>2, GivesBack
<1>8. CASE YieldCall(t)
  <2>1. /\ cur = t /\ cur' = None /\ working' = [working EXCEPT ![t] = "call"] /\ t \in Task
        /\ waits' = [waits EXCEPT ![t] = "call"] /\ rv' = [rv EXCEPT ![t] = FALSE]
        /\ UNCHANGED <<ready, hub, returning, laterState, incoming, waiting>>
    BY <1>8
       DEF YieldCall, Resumed, Runs, Leaves, WaitsFor, schedVars, taskVars, lockVars,
           hubVars, others, laterVars, threadVars
  <2> QED
    BY <1>1, <1>2, <2>1, GivesBack
<1>9. CASE ResumeSend(t)
  <2>1. /\ cur = t /\ waits[t] = "send"
        /\ UNCHANGED <<hub, returning, laterState, waiting, working>>
    BY <1>9
       DEF ResumeSend, Runs, Register, schedVars, taskVars, lockVars, hubVars, others,
           laterVars, threadVars
  <2>2. CASE waits' = [waits EXCEPT ![t] = None] /\ UNCHANGED <<schedVars, rv, hubVars>>
    <3>1. UNCHANGED <<ready, cur, rv, incoming>>
      BY <2>2 DEF schedVars, hubVars
    <3>2. waits'[t] = None /\ \A u \in Sleeper \ {t} : waits'[u] = waits[u]
      BY <1>1, <2>2 DEF TypeInv
    <3> QED
      BY <2>1, <3>1, <3>2, ReadySame, Untouched
  <2>3. CASE Register(t) /\ WaitsFor(t, "send")
    <3>1. /\ cur' = None /\ ready' = ready /\ incoming' = incoming \cup {t}
          /\ waits' = [waits EXCEPT ![t] = "send"] /\ rv' = [rv EXCEPT ![t] = FALSE]
      BY <2>3 DEF Register, WaitsFor, Leaves
    <3> QED
      BY <1>1, <1>2, <2>1, <3>1, GivesBack
  <2> QED
    BY <1>9, <2>2, <2>3 DEF ResumeSend
<1> QED
  BY <1>3, <1>4, <1>5, <1>6, <1>7, <1>8, <1>9 DEF Yields

\* A task that asks for the Lock, or leaves it.
LEMMA LockStep ==
  ASSUME TasksApart, TypeInv, CoreInv, NEW t \in Program, Acquire(t) \/ Release(t)
  PROVE  CoreInv'
<1>1. t \in Sleeper /\ None # "again" /\ cur = t
  BY Names DEF TasksApart, Acquire, Release, Resumed, Runs
<1>2. UNCHANGED <<hub, returning, incoming, laterState, working>>
  BY
     DEF Acquire, Release, schedVars, taskVars, lockVars, hubVars, others, laterVars,
         threadVars
<1>3. CASE Acquire(t) /\ locked = None
  <2>1. UNCHANGED <<ready, cur, rv, waiting>> /\ waits' = [waits EXCEPT ![t] = None]
    BY <1>3 DEF Acquire, schedVars
  <2>2. waits'[t] = None /\ \A u \in Sleeper \ {t} : waits'[u] = waits[u]
    BY <1>1, <2>1 DEF TypeInv
  <2> QED
    BY <1>1, <1>2, <2>1, <2>2, ReadySame, Untouched
<1>4. CASE Acquire(t) /\ locked # None
  <2>1. /\ cur' = None /\ ready' = ready /\ waiting' = waiting \cup {t}
        /\ waits' = [waits EXCEPT ![t] = "lock"] /\ rv' = [rv EXCEPT ![t] = FALSE]
    BY <1>4 DEF Acquire, Leaves, WaitsFor
  <2>2. /\ waits'[t] = "lock"
        /\ \A u \in Sleeper \ {t} : rv'[u] = rv[u] /\ waits'[u] = waits[u]
    BY <1>1, <2>1 DEF TypeInv
  <2> QED
    BY <1>1, <1>2, <2>1, <2>2, GivesBack
<1>5. CASE Release(t) /\ waiting = {}
  <2>1. UNCHANGED <<ready, cur, rv, waiting>> /\ waits' = [waits EXCEPT ![t] = None]
    BY <1>5 DEF Release
  <2>2. waits'[t] = None /\ \A u \in Sleeper \ {t} : waits'[u] = waits[u]
    BY <1>1, <2>1 DEF TypeInv
  <2> QED
    BY <1>1, <1>2, <2>1, <2>2, ReadySame, Untouched
<1>6. CASE Release(t) /\ waiting # {}
  <2>1. PICK w \in waiting :
          /\ waiting' = waiting \ {w} /\ cur' = cur /\ ready' = Append(ready, w)
          /\ waits' = [waits EXCEPT ![t] = None] /\ rv' = [rv EXCEPT ![w] = TRUE]
    BY <1>6 DEF Release, HandOver, PutLast
  <2>2. w \in Sleeper /\ w \in Kept /\ w \in Runnable /\ In(w, "waiting") /\ t \in Kept
    BY <1>1, <2>1, Names DEF TypeInv, Kept, In
  <2>3. /\ ~Has(ready, w) /\ ~Has(returning, w) /\ cur # w
        /\ w \notin incoming /\ w \notin hub
        /\ w \in Task => working[w] \notin {"call", "append"}
    BY <2>2, Elsewhere
  <2>4. Once(ready) /\ Once(returning')
    BY <1>2 DEF CoreInv, PlaceInv
  <2>5. Once(ready') /\ \A u : Has(ready', u) <=> Has(ready, u) \/ u = w
    BY <2>1, <2>2, <2>3, <2>4, PutLastHas DEF TypeInv
  <2>6. /\ rv'[w] /\ \A u \in Sleeper \ {w} : rv'[u] = rv[u]
        /\ waits'[t] = None /\ \A u \in Sleeper \ {t} : waits'[u] = waits[u]
    BY <1>1, <2>1, <2>2 DEF TypeInv
  <2>7. t \in Task => ~(waits[t] = "again" /\ ~rv[t])
    <3>1. In(t, "cur")
      BY <1>1 DEF In
    <3> QED
      BY <2>2, <3>1, Elsewhere
  <2>8. \A p : In(w, p)' => p = "ready"
    BY <1>2, <2>1, <2>2, <2>3, <2>6 DEF In
  <2>9. \A u \in Kept \ {w} : \A p : In(u, p)' <=> In(u, p)
    <3> TAKE u \in Kept \ {w}
    <3>1. u \in Task => u \in Sleeper \ {w}
      BY Names
    <3>2. u \in Task => (waits'[u] = "again" /\ ~rv'[u] <=> waits[u] = "again" /\ ~rv[u])
      BY <1>1, <2>6, <2>7, <3>1
    <3> QED
      BY <1>2, <2>1, <2>5, <3>2, Stays
  <2>10. \A u \in Sleeper \ {w} : rv'[u] = rv[u] /\ waits'[u] \in {waits[u], None}
    BY <2>6
  <2>11. /\ laterState' = laterState
         /\ \A u \in Task \ {w} : working'[u] = "append" => working[u] = "append"
    BY <1>2
  <2>12. /\ w \in Kept /\ In(w, "waiting") /\ "waiting" # "parent" /\ "ready" # "parent"
         /\ Once(ready') /\ Once(returning')
         /\ w \in Sleeper /\ "ready" \in {"ready", "cur"} => waits'[w] = None \/ rv'[w]
         /\ w \in Task /\ working'[w] = "append" => rv'[w]
    BY <2>2, <2>4, <2>5, <2>6
  <2> QED
    BY <2>8, <2>9, <2>10, <2>11, <2>12, OneMoves
<1> QED
  BY <1>3, <1>4, <1>5, <1>6

\* The next task runs.
LEMMA CycleStep == ASSUME TasksApart, TypeInv, PcInv, CoreInv, Cycle PROVE CoreInv'
<1>1. UNCHANGED <<waiting, waits, rv, working, laterState, incoming, hub, returning>>
  BY DEF Cycle, schedVars, taskVars, lockVars, hubVars, others, laterVars, threadVars
<1>2. Once(ready) /\ Once(returning) /\ cur = None
  BY DEF CoreInv, PlaceInv, PcInv, Cycle
<1>3. CASE ready = <<>>
  BY <1>1, <1>3, ReadySame, Untouched DEF Cycle
<1>4. CASE ready # <<>>
  <2> PICK t : t = Head(ready)
    OBVIOUS
  <2>1. /\ t \in Runnable /\ t # None /\ Has(ready, t)
        /\ Once(ready') /\ (t \in Kept => ~Has(ready', t))
        /\ \A u : u # t => (Has(ready', u) <=> Has(ready, u))
        /\ cur' = t
    <3>1. cur' = t /\ ready' = Tail(ready) /\ ready \in Seq(Runnable)
      BY <1>4 DEF Cycle, TypeInv
    <3> QED
      BY <1>2, <1>4, <3>1, TakenHas, Names
  <2>2. CASE t \notin Kept
    <3>1. \A u \in Kept : u # None /\ u # t
      BY <2>2, Names DEF Kept
    <3> QED
      BY <1>1, <1>2, <2>1, <3>1, Untouched
  <2>3. CASE t \in Kept
    <3>1. In(t, "ready")
      BY <2>1 DEF In
    <3>2. /\ ~Has(returning, t) /\ t \notin incoming /\ t \notin hub /\ t \notin waiting
          /\ t \in Task => working[t] \notin {"call", "append"}
          /\ t \in Task => ~(waits[t] = "again" /\ ~rv[t])
      BY <2>3, <3>1, Elsewhere
    <3>3. \A p : In(t, p)' => p = "cur"
      BY <1>1, <2>1, <2>3, <3>2, OnlyIn
    <3>4. \A u \in Kept \ {t} : \A p : In(u, p)' <=> In(u, p)
      <4> TAKE u \in Kept \ {t}
      <4>1. u # None
        BY Names DEF Kept
      <4> QED
        BY <1>1, <1>2, <2>1, <4>1, Stays
    <3>5. t \in Sleeper => waits'[t] = None \/ rv'[t]
      <4>1. Pending(t)
        BY <2>1 DEF Has, Pending
      <4> QED
        BY <1>1, <4>1 DEF CoreInv, AnswerInv, Answered
    <3>6. /\ \A u \in Sleeper : rv'[u] = rv[u] /\ waits'[u] = waits[u]
          /\ laterState' = laterState /\ working' = working /\ Once(returning')
      BY <1>1, <1>2
    <3> QED
      BY <2>1, <2>3, <3>1, <3>2, <3>3, <3>4, <3>5, <3>6, OneMoves
  <2> QED
    BY <2>2, <2>3
<1> QED
  BY <1>3, <1>4

\* The CallLaterTask selects again, or calls what it was given.
LEMMA LaterStep ==
  ASSUME TasksApart, TypeInv, PcInv, CoreInv, RunCallLater \/ Drain
  PROVE  CoreInv'
<1>1. /\ cur = CallLaterTask /\ CallLaterTask \in Sleeper
      /\ UNCHANGED <<hub, returning, laterState, waiting, working>>
  BY Names
     DEF RunCallLater, Drain, Runs, PcInv, Register, schedVars, taskVars, lockVars,
         hubVars, others, laterVars, threadVars
<1>2. CASE Register(CallLaterTask) /\ WaitsFor(CallLaterTask, "select")
  <2>1. /\ cur' = None /\ ready' = ready /\ incoming' = incoming \cup {CallLaterTask}
        /\ waits' = [waits EXCEPT ![CallLaterTask] = "select"]
        /\ rv' = [rv EXCEPT ![CallLaterTask] = FALSE]
    BY <1>2 DEF Register, WaitsFor, Leaves
  <2>2. /\ waits'[CallLaterTask] = "select"
        /\ \A u \in Sleeper \ {CallLaterTask} : rv'[u] = rv[u] /\ waits'[u] = waits[u]
    BY <1>1, <2>1 DEF TypeInv
  <2> QED
    BY <1>1, <2>1, <2>2, GivesBack
<1>3. CASE UNCHANGED <<ready, cur, waits, rv, hubVars>>
  <2>1. incoming' = incoming
    BY <1>3 DEF hubVars
  <2> QED
    BY <1>1, <1>3, <2>1, ReadySame, Untouched
<1> QED
  BY <1>2, <1>3 DEF RunCallLater, Drain

\* The other tasks of the library.
LEMMA LibraryStep ==
  ASSUME TasksApart, TypeInv, PcInv, CoreInv,
         \/ Top \/ Idle \/ Wake \/ Ping \/ Decide \/ EndSync \/ RunConsumer
         \/ \E x \in {Consumer} \cup {Sync(f) : f \in Thread} : RunScheduleTask(x)
         \/ \E f \in Thread : RunSyncTask(f)
  PROVE  CoreInv'
<1>1. UNCHANGED <<waiting, waits, rv, working, laterState, incoming, hub, returning>>
  BY
     DEF Top, Idle, Wake, Ping, Decide, EndSync, RunConsumer, RunScheduleTask,
         RunSyncTask, schedVars, taskVars, lockVars, hubVars, others, laterVars,
         threadVars
<1>2. CASE Top \/ Idle \/ Wake \/ Ping \/ RunConsumer
  <2>1. UNCHANGED <<ready, cur>>
    BY <1>2 DEF Top, Idle, Wake, Ping, RunConsumer
  <2> QED
    BY <1>1, <2>1, ReadySame, Untouched
<1>3. ASSUME NEW x \in Runnable \ Kept, cur = x, cur' = None,
             ready' \in {ready, Append(ready, x), <<x>> \o ready}
      PROVE  CoreInv'
  <2>1. \A u \in Kept : cur' = u <=> cur = u
    BY <1>3, Names DEF Kept
  <2>2. Once(ready') /\ \A u \in Kept : Has(ready', u) <=> Has(ready, u)
    BY <1>3, ReadySame, ReadyOther
  <2> QED
    BY <1>1, <2>1, <2>2, Untouched
<1>4. CASE Decide
  <2>1. cur = Consumer /\ cur' = None /\ Consumer \in Runnable \ Kept
    BY <1>4, Names DEF Decide, PcInv, Leaves, Runnable
  <2> QED
    BY <1>3, <1>4, <2>1 DEF Decide
<1>5. CASE EndSync
  <2>1. PICK f \in Thread : cur = Sync(f)
    BY <1>5 DEF EndSync, PcInv
  <2>2. Sync(f) \in Runnable \ Kept /\ cur' = None /\ ready' = ready
    BY <1>5, Names DEF EndSync, Leaves, Runnable
  <2> QED
    BY <1>3, <2>1, <2>2
<1>6. ASSUME NEW x \in {Consumer} \cup {Sync(f) : f \in Thread}, RunScheduleTask(x)
      PROVE  CoreInv'
  <2>1. /\ Schedule(x) \in Runnable \ Kept /\ x \in Runnable \ Kept
    BY <1>6, Names DEF Runnable
  <2>2. cur = Schedule(x) /\ cur' = None /\ ready' \in {ready, <<x>> \o ready}
    BY <1>6 DEF RunScheduleTask, Runs, Leaves, PutFirst
  <2>3. \A u \in Kept : cur' = u <=> cur = u
    BY <2>1, <2>2, Names DEF Kept
  <2>4. Once(ready') /\ \A u \in Kept : Has(ready', u) <=> Has(ready, u)
    BY <2>1, <2>2, ReadySame, ReadyOther
  <2> QED
    BY <1>1, <2>3, <2>4, Untouched
<1>7. ASSUME NEW f \in Thread, RunSyncTask(f) PROVE CoreInv'
  <2>1. Sync(f) \in Runnable \ Kept /\ cur = Sync(f)
    BY <1>7, Names DEF Runnable, RunSyncTask, Runs
  <2>2. CASE syncTask[f] = "new"
    BY <1>3, <1>7, <2>1, <2>2 DEF RunSyncTask, Leaves
  <2>3. CASE syncTask[f] # "new"
    <3>1. UNCHANGED <<ready, cur>>
      BY <1>7, <2>3 DEF RunSyncTask
    <3> QED
      BY <1>1, <3>1, ReadySame, Untouched
  <2> QED
    BY <2>2, <2>3
<1> QED
  BY <1>2, <1>4, <1>5, <1>6, <1>7

-----------------------------------------------------------------------------
(* The steps of the other threads. *)

\* The thread of a CallBlocking.
LEMMA WorkerStep ==
  ASSUME TasksApart, TypeInv, CoreInv, NEW t \in Task, Worker(t)
  PROVE  CoreInv'
<1>1. t \in Sleeper /\ t \in Kept /\ t \in Runnable
  BY Names DEF Kept
<1>2. UNCHANGED <<cur, waits, waiting, laterState, incoming, hub, returning>>
  BY
     DEF Worker, WorkerAnswers, WorkerAppends, WorkerSets, schedVars, taskVars,
         lockVars, hubVars, others, laterVars, threadVars
<1>3. Once(ready) /\ Once(returning')
  BY <1>2 DEF CoreInv, PlaceInv
<1>4. ASSUME NEW v, working' = [working EXCEPT ![t] = v]
      PROVE  working'[t] = v /\ \A u \in Task \ {t} : working'[u] = working[u]
  BY <1>4 DEF TypeInv
<1>5. ASSUME working[t] \in {"call", "append"}
      PROVE  /\ In(t, "worker") /\ ~Has(ready, t) /\ ~Has(returning, t) /\ cur # t
             /\ t \notin incoming /\ t \notin hub /\ t \notin waiting
             /\ ~(waits[t] = "again" /\ ~rv[t])
  <2>1. In(t, "worker")
    BY <1>5 DEF In
  <2> QED
    BY <1>1, <2>1, Elsewhere
<1>6. CASE WorkerAnswers(t)
  <2>1. /\ working[t] = "call" /\ ready' = ready
        /\ rv' = [rv EXCEPT ![t] = TRUE] /\ working' = [working EXCEPT ![t] = "append"]
    BY <1>6 DEF WorkerAnswers, schedVars
  <2>2. rv'[t] /\ \A u \in Sleeper \ {t} : rv'[u] = rv[u]
    BY <1>1, <2>1 DEF TypeInv
  <2>3. \A p : In(t, p)' => p = "worker"
    BY <1>2, <1>5, <2>1, <2>2 DEF In
  <2>4. \A u \in Kept \ {t} : \A p : In(u, p)' <=> In(u, p)
    <3> TAKE u \in Kept \ {t}
    <3>1. u \in Task => u \in Sleeper \ {t}
      BY Names
    <3> QED
      BY <1>2, <1>4, <2>1, <2>2, <3>1, Stays
  <2> QED
    BY <1>1, <1>2, <1>3, <1>4, <1>5, <2>1, <2>2, <2>3, <2>4, OneMoves
<1>7. CASE WorkerAppends(t)
  <2>1. /\ working[t] = "append" /\ ready' = Append(ready, t) /\ rv' = rv
        /\ working' = [working EXCEPT ![t] = "set"]
    BY <1>7 DEF WorkerAppends, taskVars
  <2>2. Once(ready') /\ \A u : Has(ready', u) <=> Has(ready, u) \/ u = t
    BY <1>1, <1>3, <1>5, <2>1, PutLastHas DEF TypeInv
  <2>3. rv'[t]
    BY <2>1 DEF CoreInv, AnswerInv
  <2>4. \A p : In(t, p)' => p = "ready"
    BY <1>2, <1>4, <1>5, <2>1, <2>3 DEF In
  <2>5. \A u \in Kept \ {t} : \A p : In(u, p)' <=> In(u, p)
    BY <1>2, <1>4, <2>1, <2>2, Stays
  <2> QED
    BY <1>1, <1>2, <1>3, <1>4, <1>5, <2>1, <2>2, <2>3, <2>4, <2>5, OneMoves
<1>8. CASE WorkerSets(t)
  <2>1. /\ working[t] = "set" /\ UNCHANGED <<ready, rv>>
        /\ working' = [working EXCEPT ![t] = "no"]
    BY <1>8 DEF WorkerSets, taskVars
  <2> QED
    BY <1>2, <1>4, <2>1, ReadySame, Untouched
<1> QED
  BY <1>6, <1>7, <1>8 DEF Worker

\* The threads of users.
LEMMA ThreadStep ==
  ASSUME TasksApart, TypeInv, CoreInv, NEW f \in Thread, Goes(f) \/ Begins(f)
  PROVE  CoreInv'
<1>1. CASE CallLater(f) /\ laterState = "none"
  BY <1>1, FirstCall
<1>2. CASE ~(CallLater(f) /\ laterState = "none")
  <2>1. UNCHANGED <<cur, waits, rv, waiting, working, laterState, incoming, hub, returning>>
    BY <1>2
       DEF Goes, Begins, ThreadSets, AppendCall, PingCall, WakeConsumer, Inside,
           ExitSync,
                CallLater, AddWork, EnterSync, schedVars, taskVars, lockVars, hubVars,
                others, laterVars, threadVars
  <2>2. \/ ready' = ready
        \/ ready' \in {Append(ready, Schedule(Consumer)), Append(ready, Schedule(Sync(f)))}
    BY <1>2
       DEF Goes, Begins, ThreadSets, AppendCall, PingCall, WakeConsumer, Inside,
           ExitSync,
                CallLater, AddWork, EnterSync, StartSchedule, schedVars
  <2>3. Schedule(Consumer) \in Runnable \ Kept /\ Schedule(Sync(f)) \in Runnable \ Kept
    BY Names DEF Runnable
  <2>4. Once(ready') /\ \A u \in Kept : Has(ready', u) <=> Has(ready, u)
    BY <2>2, <2>3, ReadySame, ReadyOther
  <2> QED
    BY <2>1, <2>4, Untouched
<1> QED
  BY <1>1, <1>2

LEMMA CoreStep == ASSUME TasksApart, TypeInv, PcInv, CoreInv, Next PROVE CoreInv'
<1>1. ASSUME NEW t \in Program, TaskStep(t) PROVE CoreInv'
  BY <1>1, YieldStep, AgainStep, LockStep DEF TaskStep
<1>2. ASSUME Scheduler PROVE CoreInv'
  BY <1>2, CycleStep, LaterStep, LibraryStep, StartsLater DEF Scheduler
<1> QED
  BY <1>1, <1>2, HubStep, WorkerStep, ThreadStep DEF Next

-----------------------------------------------------------------------------
(* The Lock, synchronized() and the work queue. *)

LEMMA LockExclusionStep ==
  ASSUME TasksApart, TypeInv, LockExclusion, Next
  PROVE  LockExclusion'
<1>1. ASSUME NEW t \in Program, Acquire(t) PROVE LockExclusion'
  <2>1. t # None
    BY Names
  <2> QED
    BY <1>1, <2>1 DEF Acquire, LockExclusion
<1>2. ASSUME NEW t \in Program, Release(t) PROVE LockExclusion'
  <2>1. holds = {t} /\ locked = t
    BY <1>2 DEF Release, LockExclusion
  <2>2. CASE waiting = {}
    BY <1>2, <2>1, <2>2 DEF Release, LockExclusion
  <2>3. CASE waiting # {}
    <3>1. PICK w \in waiting : locked' = w /\ holds' = (holds \ {t}) \cup {w}
      BY <1>2, <2>3 DEF Release, HandOver
    <3>2. w # None
      BY Names DEF TypeInv
    <3> QED
      BY <2>1, <3>1, <3>2 DEF LockExclusion
  <2> QED
    BY <2>2, <2>3
<1>3. ASSUME UNCHANGED <<locked, holds>> PROVE LockExclusion'
  BY <1>3 DEF LockExclusion
<1>4. ASSUME Scheduler \/ Hub PROVE UNCHANGED <<locked, holds>>
  BY <1>4
     DEF Scheduler, Top, Idle, Wake, Cycle, Ping, Drain, Decide, RunScheduleTask,
         RunSyncTask, EndSync, RunCallLater, RunConsumer, Hub, HubScan, HubSelect,
         HubDrain, HubReturn, HubSet, schedVars, taskVars, lockVars, hubVars, others,
         laterVars, threadVars
<1>5. ASSUME NEW t \in Program, Yields(t) \/ YieldAgain(t) PROVE UNCHANGED <<locked, holds>>
  BY <1>5
     DEF Yields, YieldZero, Finish, YieldSleep, YieldSelect, YieldCall, ResumeSend,
         YieldAgain, schedVars, taskVars, lockVars, hubVars, others, laterVars,
         threadVars
<1>6. ASSUME NEW t \in Task, Worker(t) PROVE UNCHANGED <<locked, holds>>
  BY <1>6
     DEF Worker, WorkerAnswers, WorkerAppends, WorkerSets, schedVars, taskVars,
         lockVars, hubVars, others, laterVars, threadVars
<1>7. ASSUME NEW f \in Thread, Goes(f) \/ Begins(f) PROVE UNCHANGED <<locked, holds>>
  BY <1>7
     DEF Goes, Begins, ThreadSets, AppendCall, PingCall, WakeConsumer, Inside, ExitSync,
         CallLater, AddWork, EnterSync, schedVars, taskVars, lockVars, hubVars, others,
         laterVars, threadVars
<1> QED
  BY <1>1, <1>2, <1>3, <1>4, <1>5, <1>6, <1>7 DEF Next, TaskStep

LEMMA SyncStep ==
  ASSUME TasksApart, TypeInv, PcInv, SyncInv, Next
  PROVE  SyncInv'
<1>1. ASSUME UNCHANGED <<pc, cur, syncTask, thread>> PROVE SyncInv'
  BY <1>1 DEF SyncInv
<1>2. ASSUME pc # "held", UNCHANGED <<syncTask, thread>> PROVE SyncInv'
  BY <1>2 DEF SyncInv
<1>3. ASSUME NEW f \in Thread, RunSyncTask(f) PROVE SyncInv'
  <2>1. pc = "execute" /\ cur = Sync(f) /\ thread' = thread
    BY <1>3 DEF RunSyncTask, Runs
  <2>2. \A g \in Thread : syncTask[g] # "open" /\ thread[g] # "inside"
    BY <2>1 DEF SyncInv
  <2>3. CASE syncTask[f] = "new"
    <3>1. syncTask' = [syncTask EXCEPT ![f] = "sliced"]
      BY <1>3, <2>3 DEF RunSyncTask
    <3> QED
      BY <2>1, <2>2, <3>1 DEF SyncInv, TypeInv
  <2>4. CASE syncTask[f] # "new"
    <3>1. syncTask' = [syncTask EXCEPT ![f] = "open"] /\ pc' = "held" /\ cur' = cur
      BY <1>3, <2>4 DEF RunSyncTask
    <3> QED
      BY <2>1, <2>2, <3>1 DEF SyncInv, TypeInv
  <2> QED
    BY <2>3, <2>4
<1>4. CASE EndSync
  <2>1. PICK f \in Thread : cur = Sync(f)
    BY <1>4 DEF EndSync, PcInv
  <2>2. syncTask[f] = "left" /\ syncTask' = [syncTask EXCEPT ![f] = "new"] /\ thread' = thread
    BY <1>4, <2>1, Names DEF EndSync
  <2>3. \A g \in Thread : syncTask[g] # "open" /\ thread[g] # "inside"
    BY <2>1, <2>2, Names DEF SyncInv
  <2> QED
    BY <2>2, <2>3 DEF SyncInv, TypeInv
<1>5. ASSUME Scheduler, ~EndSync, \A f \in Thread : ~RunSyncTask(f) PROVE SyncInv'
  <2>1. pc # "held" /\ UNCHANGED <<syncTask, thread>>
    BY <1>5
       DEF Scheduler, Top, Idle, Wake, Cycle, Ping, Drain, Decide, RunScheduleTask,
           RunSyncTask, EndSync, RunCallLater, RunConsumer, Runs, schedVars, taskVars,
           lockVars, hubVars, others, laterVars, threadVars
  <2> QED
    BY <1>2, <2>1
<1>6. ASSUME NEW t \in Program, TaskStep(t) PROVE SyncInv'
  <2>1. pc = "execute"
    BY <1>6
       DEF TaskStep, Yields, YieldZero, Finish, YieldSleep, YieldSelect, YieldCall,
           ResumeSend, YieldAgain, Acquire, Release, Resumed, Runs
  <2>2. UNCHANGED <<syncTask, thread>>
    BY <1>6
       DEF TaskStep, Yields, YieldZero, Finish, YieldSleep, YieldSelect, YieldCall,
           ResumeSend, YieldAgain, Acquire, Release, schedVars, taskVars, lockVars,
           hubVars, others, laterVars, threadVars
  <2> QED
    BY <1>2, <2>1, <2>2
<1>7. ASSUME Hub \/ \E t \in Task : Worker(t) PROVE SyncInv'
  BY <1>1, <1>7, NotTheScheduler
<1>8. ASSUME NEW f \in Thread, Goes(f) \/ Begins(f) PROVE SyncInv'
  <2>1. UNCHANGED <<pc, cur>>
    BY <1>8, NotTheScheduler
  <2>2. \A g \in Thread \ {f} : thread'[g] = thread[g] /\ syncTask'[g] = syncTask[g]
    BY <1>8
       DEF Goes, Begins, ThreadSets, AppendCall, PingCall, WakeConsumer, Inside,
           ExitSync, CallLater, AddWork, EnterSync, StartSchedule, schedVars, taskVars,
           lockVars, hubVars, others, laterVars, threadVars, TypeInv
  <2>3. /\ syncTask'[f] = "open" => syncTask[f] = "open"
        /\ thread'[f] = "inside" => syncTask'[f] = "open"
    BY <1>8
       DEF Goes, Begins, ThreadSets, AppendCall, PingCall, WakeConsumer, Inside,
           ExitSync, CallLater, AddWork, EnterSync, StartSchedule, schedVars, taskVars,
           lockVars, hubVars, others, laterVars, threadVars, TypeInv, SyncInv
  <2> QED
    BY <2>1, <2>2, <2>3 DEF SyncInv
<1> QED
  BY <1>3, <1>4, <1>5, <1>6, <1>7, <1>8 DEF Next

\* Whoever added work has seen to it that the consumer runs.
LEMMA WorkStep ==
  ASSUME TasksApart, TypeInv, PcInv, WorkIsScheduled, Next
  PROVE  WorkIsScheduled'
<1> DEFINE c == Consumer
           s == Schedule(Consumer)
<1>1. /\ c \in Runnable /\ s \in Runnable /\ c \notin Sleeper /\ s \notin Sleeper /\ c # s
      /\ \A f : Sync(f) # c /\ Sync(f) # s
      /\ CallLaterTask # c /\ CallLaterTask # s
  BY Names DEF Runnable, Kept, TasksApart, Schedule, Sync
<1>2. \A x : Pending(x) <=> Has(ready, x)
  BY DEF Pending, Has
<1>3. \A x : Pending(x)' <=> Has(ready', x)
  BY DEF Pending, Has
<1>4. ASSUME works' = works, thread' = thread,
             \A x \in {c, s} : Has(ready, x) => Has(ready', x) \/ cur' = x,
             \A x \in {c, s} : cur = x => cur' = x
      PROVE  WorkIsScheduled'
  BY <1>2, <1>3, <1>4 DEF WorkIsScheduled
<1>5. ASSUME ready' = ready \/ \E x \in Runnable : ready' \in {Append(ready, x), <<x>> \o ready}
      PROVE  \A y : Has(ready, y) => Has(ready', y)
  <2>1. ready \in Seq(Runnable)
    BY DEF TypeInv
  <2>2. ASSUME NEW x \in Runnable, ready' = Append(ready, x)
        PROVE  \A y : Has(ready, y) => Has(ready', y)
    BY <2>1, <2>2, PutLastHas
  <2>3. ASSUME NEW x \in Runnable, ready' = <<x>> \o ready
        PROVE  \A y : Has(ready, y) => Has(ready', y)
    BY <2>1, <2>3, PutFirstHas
  <2> QED
    BY <1>5, <2>2, <2>3
<1>6. CASE Cycle
  <2>1. works' = works /\ thread' = thread /\ cur = None
    BY <1>6 DEF Cycle, PcInv, threadVars
  <2>2. CASE ready = <<>>
    BY <1>4, <1>6, <2>1, <2>2 DEF Cycle
  <2>3. CASE ready # <<>>
    <3>1. ready' = Tail(ready) /\ cur' = Head(ready)
      BY <1>6, <2>3 DEF Cycle
    <3>2. \A y : Has(ready, y) => Has(ready', y) \/ y = cur'
      BY <2>3, <3>1, TakenHas DEF TypeInv
    <3> QED
      BY <1>1, <1>4, <2>1, <3>2, Names
  <2> QED
    BY <2>2, <2>3
<1>7. ASSUME NEW x \in {CallLaterTask, Consumer} \cup {Sync(f) : f \in Thread},
             RunScheduleTask(x)
      PROVE  WorkIsScheduled'
  <2>1. /\ works' = works /\ thread' = thread /\ cur = Schedule(x) /\ cur' = None
        /\ IF Pending(x) THEN ready' = ready ELSE ready' = <<x>> \o ready
    BY <1>7 DEF RunScheduleTask, Runs, Leaves, PutFirst, others, threadVars
  <2>2. x \in Runnable
    BY <1>7, Names DEF Runnable
  <2>3. \A y : Has(ready, y) => Has(ready', y)
    BY <1>5, <2>1, <2>2
  <2>4. Has(ready', x)
    <3>1. CASE Pending(x)
      BY <1>2, <2>3, <3>1
    <3>2. CASE ~Pending(x)
      <4>1. ready' = <<x>> \o ready /\ ready \in Seq(Runnable)
        BY <2>1, <3>2 DEF TypeInv
      <4> QED
        BY <2>2, <4>1, PutFirstHas
    <3> QED
      BY <3>1, <3>2
  <2>5. CASE x = Consumer
    BY <1>3, <2>4, <2>5 DEF WorkIsScheduled
  <2>6. CASE x # Consumer
    <3>1. cur \notin {c, s}
      BY <1>7, <2>1, <2>6 DEF TasksApart, Schedule
    <3> QED
      BY <1>4, <2>1, <2>3, <3>1
  <2> QED
    BY <2>5, <2>6
<1>8. CASE RunConsumer
  <2>1. cur' = Consumer
    BY <1>8 DEF RunConsumer, Runs
  <2> QED
    BY <2>1 DEF WorkIsScheduled
<1>9. CASE Decide
  <2>1. cur = Consumer /\ works' = works
    BY <1>9 DEF Decide, PcInv, others
  <2>2. CASE works = 0
    BY <2>1, <2>2 DEF WorkIsScheduled
  <2>3. CASE works # 0
    <3>1. Has(ready', c)
      BY <1>1, <1>9, <2>3, PutLastHas DEF Decide, TypeInv
    <3> QED
      BY <1>3, <3>1 DEF WorkIsScheduled
  <2> QED
    BY <2>2, <2>3
<1>10. ASSUME Top \/ Idle \/ Wake \/ Ping PROVE WorkIsScheduled'
  <2>1. UNCHANGED <<ready, cur, works, thread>>
    BY <1>10 DEF Top, Idle, Wake, Ping, threadVars
  <2> QED
    BY <1>4, <2>1
<1>11. ASSUME Drain \/ EndSync \/ RunCallLater \/ \E f \in Thread : RunSyncTask(f)
       PROVE  WorkIsScheduled'
  <2>1. works' = works /\ thread' = thread /\ cur \notin {c, s}
    BY <1>1, <1>11 DEF Drain, EndSync, RunCallLater, RunSyncTask, Runs, PcInv, threadVars
  <2>2. ~Cycle
    BY <1>11 DEF Drain, EndSync, RunCallLater, RunSyncTask, Runs, Cycle
  <2> QED
    BY <1>4, <1>5, <2>1, <2>2, ReadyNext
<1>12. ASSUME NEW t \in Program, TaskStep(t) PROVE WorkIsScheduled'
  <2>1. works' = works /\ thread' = thread
    BY <1>12
       DEF TaskStep, Yields, YieldZero, Finish, YieldSleep, YieldSelect, YieldCall,
           ResumeSend, YieldAgain, Acquire, Release, schedVars, taskVars, lockVars,
           hubVars, others, laterVars, threadVars
  <2>2. cur = t
    BY <1>12
       DEF TaskStep, Yields, YieldZero, Finish, YieldSleep, YieldSelect, YieldCall,
           ResumeSend, YieldAgain, Acquire, Release, Resumed, Runs
  <2>3. ~Cycle
    BY <1>12
       DEF TaskStep, Yields, YieldZero, Finish, YieldSleep, YieldSelect, YieldCall,
           ResumeSend, YieldAgain, Acquire, Release, Resumed, Runs, Cycle
  <2>4. \A y : Has(ready, y) => Has(ready', y)
    BY <1>5, <2>3, ReadyNext
  <2> QED
    BY <1>1, <1>4, <2>1, <2>2, <2>4, Names
<1>13. ASSUME Hub \/ \E t \in Task : Worker(t) PROVE WorkIsScheduled'
  <2>1. UNCHANGED <<cur, thread, works>>
    BY <1>13, NotTheScheduler
  <2>2. ~Cycle
    BY <1>13, NotTheScheduler DEF Cycle
  <2> QED
    BY <1>4, <1>5, <2>1, <2>2, ReadyNext
<1>14. ASSUME NEW f \in Thread, Goes(f) \/ Begins(f) PROVE WorkIsScheduled'
  <2>1. cur' = cur
    BY <1>14, NotTheScheduler
  <2>2. ~Cycle
    BY <1>14, NotTheScheduler DEF Cycle
  <2>3. \A y : Has(ready, y) => Has(ready', y)
    BY <1>5, <2>2, ReadyNext
  <2>5. CASE AddWork(f)
    <3>1. thread'[f] = "wake"
      BY <2>5 DEF AddWork, TypeInv
    <3> QED
      BY <3>1 DEF WorkIsScheduled
  <2>6. CASE WakeConsumer(f)
    <3>1. Has(ready', s)
      BY <1>1, <2>6, PutLastHas DEF WakeConsumer, StartSchedule, TypeInv
    <3> QED
      BY <1>3, <3>1 DEF WorkIsScheduled
  <2>7. CASE ~AddWork(f) /\ ~WakeConsumer(f)
    <3>1. works' = works
      BY <1>14, <2>7
         DEF Goes, Begins, ThreadSets, AppendCall, PingCall, WakeConsumer, Inside,
             ExitSync, CallLater, AddWork, EnterSync, schedVars
    <3>2. \A g \in Thread \ {f} : thread'[g] = thread[g]
      BY <1>14
         DEF Goes, Begins, ThreadSets, AppendCall, PingCall, WakeConsumer, Inside,
             ExitSync, CallLater, AddWork, EnterSync, StartSchedule, TypeInv
    <3>3. thread[f] # "wake"
      BY <1>14, <2>7
         DEF Goes, Begins, ThreadSets, AppendCall, PingCall, WakeConsumer, Inside,
             ExitSync, CallLater, AddWork, EnterSync, Begin
    <3> QED
      BY <1>2, <1>3, <2>1, <2>3, <3>1, <3>2, <3>3 DEF WorkIsScheduled
  <2> QED
    BY <2>5, <2>6, <2>7
<1> QED
  BY <1>6, <1>7, <1>8, <1>9, <1>10, <1>11, <1>12, <1>13, <1>14 DEF Next, Scheduler

-----------------------------------------------------------------------------
(* The theorems. *)

LEMMA RecocoInit == ASSUME TasksApart, Init PROVE RecocoInv
<1>1. ready \in Seq(Task) /\ Once(ready) /\ \A y : Has(ready, y) => y \in Task
  BY OrderHas DEF Init, TasksApart
<1>2. Task \subseteq Sleeper /\ Task \subseteq Runnable /\ None \notin Runnable
  BY Names
<1>3. TypeInv
  <2>1. ready \in Seq(Runnable)
    BY <1>1, <1>2
  <2>2. returning \in Seq(Sleeper)
    BY DEF Init
  <2> QED
    BY <2>1, <2>2 DEF Init, TypeInv
<1>4. PcInv
  BY DEF Init, PcInv
<1>5. None # "again"
  BY DEF TasksApart
<1>6. \A u \in Kept : \A p : In(u, p) => p = "ready" /\ u \in Task
  <2> SUFFICES ASSUME NEW u \in Kept, NEW p, In(u, p) PROVE p = "ready" /\ u \in Task
    OBVIOUS
  <2>1. u # None
    BY Names DEF Kept
  <2>2. ~Has(returning, u) /\ cur # u /\ incoming = {} /\ hub = {} /\ waiting = {}
    BY <2>1 DEF Init, Has
  <2>3. u \in Task => working[u] = "no" /\ waits[u] = None
    BY <1>2 DEF Init
  <2> QED
    BY <1>1, <1>5, <2>2, <2>3 DEF In
<1>7. CoreInv
  <2>1. PlaceInv
    <3>1. Once(returning)
      BY EmptyHas DEF Init
    <3> QED
      BY <1>1, <1>6, <3>1 DEF PlaceInv
  <2>2. AnswerInv
    BY DEF Init, AnswerInv, Answered
  <2>3. \A u \in Kept \ Task : Nowhere(u)
    BY <1>6 DEF Nowhere
  <2>4. SubtaskInv
    BY <2>3, Names DEF SubtaskInv, Init, Kept
  <2>5. LaterInv
    BY <2>3, Names DEF LaterInv, Init, Kept
  <2> QED
    BY <2>1, <2>2, <2>4, <2>5 DEF CoreInv
<1>8. LockExclusion
  BY DEF Init, LockExclusion
<1>9. SyncInv
  BY DEF Init, SyncInv
<1>10. WorkIsScheduled
  BY DEF Init, WorkIsScheduled
<1> QED
  BY <1>3, <1>4, <1>7, <1>8, <1>9, <1>10 DEF RecocoInv

LEMMA RecocoStep == ASSUME TasksApart, RecocoInv, [Next]_vars PROVE RecocoInv'
<1>1. CASE Next
  BY <1>1, TypeStep, CoreStep, LockExclusionStep, SyncStep, WorkStep DEF RecocoInv
<1>2. CASE UNCHANGED vars
  <2>1. /\ UNCHANGED <<ready, event, quit, pc, cur, waits, rv, locked, waiting, holds>>
        /\ UNCHANGED <<incoming, hub, pinged, hubPc, returning, working>>
        /\ UNCHANGED <<laterState, calls, callPinged, works, thread, syncTask, begun>>
    BY <1>2 DEF vars, schedVars, taskVars, hubVars, laterVars, threadVars
  <2>2. TypeInv' /\ PcInv' /\ LockExclusion' /\ SyncInv' /\ WorkIsScheduled'
    BY <2>1 DEF RecocoInv, TypeInv, PcInv, LockExclusion, SyncInv, WorkIsScheduled, Pending
  <2>3. CoreInv'
    BY <2>1, ReadySame, Untouched DEF RecocoInv
  <2> QED
    BY <2>2, <2>3 DEF RecocoInv
<1> QED
  BY <1>1, <1>2

LEMMA RecocoAlways == ASSUME TasksApart PROVE Spec => []RecocoInv
<1>1. Init => RecocoInv
  BY RecocoInit
<1>2. RecocoInv /\ [Next]_vars => RecocoInv'
  BY RecocoStep
<1> QED
  BY <1>1, <1>2, PTL DEF Spec

\* A task that is in at most one place is counted at most once.
LEMMA OneTime ==
  ASSUME NEW seq, NEW x, \A j, k \in DOMAIN seq : seq[j] = x /\ seq[k] = x => j = k
  PROVE  Times(x, seq) = IF Has(seq, x) THEN 1 ELSE 0
<1> DEFINE S == {k \in DOMAIN seq : seq[k] = x}
<1>1. CASE Has(seq, x)
  <2>1. PICK k \in DOMAIN seq : seq[k] = x
    BY <1>1 DEF Has
  <2>2. S = {k}
    BY <2>1
  <2> QED
    BY <1>1, <2>2, FS_Singleton DEF Times
<1>2. CASE ~Has(seq, x)
  <2>1. S = {}
    BY <1>2 DEF Has
  <2> QED
    BY <1>2, <2>1, FS_EmptySet DEF Times
<1> QED
  BY <1>1, <1>2

LEMMA PlaceIsOne == ASSUME TasksApart, CoreInv PROVE OnePlace
<1> SUFFICES ASSUME NEW t \in Sleeper
             PROVE  Times(t, ready) + Times(t, returning) + Is(cur = t) + Is(t \in incoming)
                      + Is(t \in hub) + Is(t \in waiting)
                      + (IF t \in Task
                         THEN Is(working[t] \in {"call", "append"})
                              + Is(waits[t] = "again" /\ ~rv[t])
                         ELSE 0) <= 1
  BY DEF OnePlace
<1> DEFINE r == Has(ready, t)
           h == Has(returning, t)
           w == t \in Task /\ working[t] \in {"call", "append"}
           p == t \in Task /\ waits[t] = "again" /\ ~rv[t]
<1>1. t \in Kept
  BY DEF Kept
<1>2. Times(t, ready) = Is(r) /\ Times(t, returning) = Is(h)
  BY <1>1, OneTime DEF CoreInv, PlaceInv, Once, Is
<1>3. /\ r => In(t, "ready")
      /\ h => In(t, "returning")
      /\ cur = t => In(t, "cur")
      /\ t \in incoming => In(t, "incoming")
      /\ t \in hub => In(t, "hub")
      /\ t \in waiting => In(t, "waiting")
      /\ w => In(t, "worker")
      /\ p => In(t, "parent")
  BY DEF In
<1>4. (IF t \in Task THEN Is(working[t] \in {"call", "append"})
                          + Is(waits[t] = "again" /\ ~rv[t])
                     ELSE 0) = Is(w) + Is(p)
  BY DEF Is
<1> HIDE DEF r, h, w, p
<1>5. CASE r
  <2>1. ~h /\ cur # t /\ t \notin incoming /\ t \notin hub /\ t \notin waiting /\ ~w /\ ~p
    BY <1>1, <1>3, <1>5, InOne
  <2> QED
    BY <1>2, <1>4, <2>1 DEF Is
<1>6. CASE h /\ ~r
  <2>1. cur # t /\ t \notin incoming /\ t \notin hub /\ t \notin waiting /\ ~w /\ ~p
    BY <1>1, <1>3, <1>6, InOne
  <2> QED
    BY <1>2, <1>4, <1>6, <2>1 DEF Is
<1>7. CASE cur = t /\ ~r /\ ~h
  <2>1. t \notin incoming /\ t \notin hub /\ t \notin waiting /\ ~w /\ ~p
    BY <1>1, <1>3, <1>7, InOne
  <2> QED
    BY <1>2, <1>4, <1>7, <2>1 DEF Is
<1>8. CASE t \in incoming /\ ~r /\ ~h /\ cur # t
  <2>1. t \notin hub /\ t \notin waiting /\ ~w /\ ~p
    BY <1>1, <1>3, <1>8, InOne
  <2> QED
    BY <1>2, <1>4, <1>8, <2>1 DEF Is
<1>9. CASE t \notin incoming /\ ~r /\ ~h /\ cur # t
  <2>1. /\ t \in hub => t \notin waiting /\ ~w /\ ~p
        /\ t \in waiting => ~w /\ ~p
        /\ w => ~p
    BY <1>1, <1>3, InOne
  <2> QED
    BY <1>2, <1>4, <1>9, <2>1 DEF Is
<1> QED
  BY <1>5, <1>6, <1>7, <1>8, <1>9

\* Whatever the tasks yield and the threads do, no task is lost to a second
\* place: not run while it waits, nor registered twice in the hub.
THEOREM TasksInOnePlace == ASSUME TasksApart PROVE Spec => []OnePlace
<1>1. RecocoInv => OnePlace
  BY PlaceIsOne DEF RecocoInv
<1> QED
  BY <1>1, RecocoAlways, PTL

\* No task runs again before it has the answer to what it yielded.
THEOREM TasksAreAnswered == ASSUME TasksApart PROVE Spec => []Answered
<1>1. RecocoInv => Answered
  BY DEF RecocoInv, CoreInv, AnswerInv
<1> QED
  BY <1>1, RecocoAlways, PTL

\* Tasks exclude each other with the Lock, and threads exclude all tasks with
\* synchronized(), however many of each there are.
THEOREM LocksExclude == ASSUME TasksApart PROVE Spec => []Exclusion
<1>1. RecocoInv => Exclusion
  BY DEF RecocoInv, SyncInv, Exclusion, SyncExclusion
<1> QED
  BY <1>1, RecocoAlways, PTL

\* Work that was added to a consumer never waits for a consumer that is asleep,
\* however its threads and the scheduler's interleave.
THEOREM ConsumersAreScheduled == ASSUME TasksApart PROVE Spec => []WorkIsScheduled
<1>1. RecocoInv => WorkIsScheduled
  BY DEF RecocoInv
<1> QED
  BY <1>1, RecocoAlways, PTL
==============================================================================
