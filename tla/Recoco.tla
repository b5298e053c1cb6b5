------------------------------- MODULE Recoco -------------------------------
(***************************************************************************)
(* recoco, the cooperative scheduler of POX (pox/lib/recoco/recoco.py),    *)
(* with its work queue (consumer.py).                                      *)
(*                                                                         *)
(* Three kinds of threads share the scheduler's state.  The scheduler's    *)
(* own thread takes a task from `ready`, runs it until it yields, and      *)
(* carries out what it yielded.  The thread of the SelectHub waits for     *)
(* timers and file descriptors and puts tasks back into `ready`.  Any      *)
(* other thread may call callLater(), schedule a task, stop the tasks for  *)
(* a while with synchronized(), or be the worker of a CallBlocking.        *)
(* Putting a task into `ready` (fast_schedule) is two steps, the append    *)
(* and break_idle(); so is handing one to the SelectHub, the put into its  *)
(* queue and the ping.                                                     *)
(***************************************************************************)
EXTENDS Integers, FiniteSets, Sequences, SequencesExt

CONSTANTS
  Task,           \* tasks written by users of the library
  CallLaterTask,  \* Scheduler._callLaterTask
  Consumer,       \* a BaseConsumer
  None,           \* no task
  Thread,         \* threads that are not the scheduler's
  Ops,            \* [Program -> SUBSET AllOps], what each task may yield
  MaxBegins       \* bound: what a thread does with the library, all in all

AllOps == {"zero", "sleep", "recv", "send", "call", "again", "lock"}

ASSUME BoundAssumption == MaxBegins \in Nat

\* Tasks the library makes for others: AgainTask, ScheduleTask and SyncTask.
Again(t) == <<"again", t>>
Schedule(x) == <<"schedule", x>>
Sync(f) == <<"sync", f>>
Program == Task \cup {Again(t) : t \in Task}  \* run code of users
ASSUME OpsAssumption == Ops \in [Program -> SUBSET AllOps]
Sleeper == Program \cup {CallLaterTask}       \* may be in the SelectHub

VARIABLES
  ready,     \* Scheduler._ready
  event,     \* SelectHub._event, which ends idle()
  quit,      \* Scheduler._hasQuit
  pc, cur,   \* the scheduler's thread, and the task it runs
  waits,     \* [Sleeper -> what the task has yielded, or "none"]
  rv,        \* [Sleeper -> BOOLEAN]: the answer is in the task's rv
  locked, waiting,  \* a Lock
  holds,     \* tasks that were told they have the lock
  incoming,  \* SelectHub._incoming
  hub,       \* SelectHub._tasks
  pinged,    \* SelectHub._pinger
  hubPc, returning, \* its thread, and the tasks it is about to return
  working,   \* [Task -> the step of the thread of its CallBlocking]
  laterState, calls, callPinged,  \* the CallLaterTask, its queue and pinger
  works,     \* BaseConsumer.queue: how many
  thread,    \* [Thread -> what it is doing]
  syncTask,  \* [Thread -> how far its SyncTask is]
  begun      \* [Thread -> what it has done with the library, how often]

schedVars == <<ready, event, quit, pc, cur>>
taskVars == <<waits, rv, locked, waiting, holds>>
hubVars == <<incoming, hub, pinged, hubPc, returning>>
laterVars == <<laterState, calls, callPinged>>
threadVars == <<thread, syncTask, begun>>
vars == <<schedVars, taskVars, hubVars, working, laterVars, works, threadVars>>

Init ==
  /\ \E s \in SetToSeqs(Task) : ready = s
  /\ event = FALSE /\ quit = FALSE
  /\ pc = "top" /\ cur = None
  /\ waits = [t \in Sleeper |-> None] /\ rv = [t \in Sleeper |-> FALSE]
  /\ locked = None /\ waiting = {} /\ holds = {}
  /\ incoming = {} /\ hub = {} /\ pinged = FALSE
  /\ hubPc = "scan" /\ returning = <<>>
  /\ working = [t \in Task |-> "no"]
  /\ laterState = "none" /\ calls = <<>> /\ callPinged = FALSE
  /\ works = 0
  /\ thread = [f \in Thread |-> "out"]
  /\ syncTask = [f \in Thread |-> "new"] /\ begun = [f \in Thread |-> 0]

-----------------------------------------------------------------------------
(* Scheduler.run and Scheduler.cycle. *)

\* The head of the loop: stop, wait for a task, or take one.
Top ==
  /\ pc = "top"
  /\ pc' = IF quit THEN "done" ELSE IF ready = <<>> THEN "idle" ELSE "cycle"
  /\ pinged' = (pinged \/ quit)  \* finally: self._selectHub._cycle()
  /\ UNCHANGED <<ready, event, quit, cur, taskVars, incoming, hub, hubPc,
                 returning, working, laterVars, works, threadVars>>

\* SelectHub.idle: the event was set, or CYCLE_MAXIMUM is over.
Idle ==
  /\ pc = "idle"
  /\ pc' = "wake"
  /\ UNCHANGED <<ready, event, quit, cur, taskVars, hubVars, working, laterVars,
                 works, threadVars>>

\* self._event.clear(), then "if self._hasQuit: break".
Wake ==
  /\ pc = "wake"
  /\ event' = FALSE
  /\ pc' = IF quit THEN "top" ELSE "cycle"
  /\ UNCHANGED <<ready, quit, cur, taskVars, hubVars, working, laterVars,
                 works, threadVars>>

\* The next task runs; one that was only woken by the time-out of idle() finds
\* nothing.
Cycle ==
  /\ pc = "cycle"
  /\ IF ready = <<>>
     THEN pc' = "top" /\ UNCHANGED <<ready, cur>>
     ELSE /\ cur' = Head(ready) /\ ready' = Tail(ready)
          /\ pc' = "execute"
  /\ UNCHANGED <<event, quit, taskVars, hubVars, working, laterVars, works,
                 threadVars>>

Runs(x) == pc = "execute" /\ cur = x
\* The running task gives its slice back.
Leaves(next) == pc' = next /\ cur' = None

\* fast_schedule by the scheduler's own thread.
PutLast(x) == ready' = Append(ready, x) /\ event' = TRUE
PutFirst(x) == ready' = <<x>> \o ready /\ event' = TRUE

\* registerSelect: put into the queue of the hub; the ping comes next.
Register(x) ==
  /\ incoming' = incoming \cup {x}
  /\ Leaves("ping")
  /\ UNCHANGED <<ready, event, quit, hub, pinged, hubPc, returning>>

\* Mutant: the hub is not pinged.
PingNobody ==
  /\ pc = "ping"
  /\ pc' = "top"
  /\ UNCHANGED <<pinged, ready, event, quit, cur, taskVars, incoming, hub,
                 hubPc, returning, working, laterVars, works, threadVars>>

Ping ==
  /\ pc = "ping"
  /\ pinged' = TRUE
  /\ pc' = "top"
  /\ UNCHANGED <<ready, event, quit, cur, taskVars, incoming, hub, hubPc,
                 returning, working, laterVars, works, threadVars>>

-----------------------------------------------------------------------------
(* What tasks yield. *)

\* execute() hands the answer of the last operation to the generator; from here
\* on the task waits for nothing.
Resumed(t) == Runs(t) /\ waits[t] \notin {"send", "done"}
WaitsFor(t, op) ==
  /\ waits' = [waits EXCEPT ![t] = op]
  /\ rv' = [rv EXCEPT ![t] = FALSE]
others == <<working, laterVars, works, threadVars>>
lockVars == <<locked, waiting, holds>>

\* yield 0
YieldZero(t) ==
  /\ Resumed(t) /\ "zero" \in Ops[t]
  /\ ready' = Append(ready, t)
  /\ Leaves("top") /\ WaitsFor(t, None)
  /\ UNCHANGED <<event, quit, hubVars, lockVars, others>>

\* The generator ends; a subtask makes its parent run next.
Finish(t) ==
  /\ Resumed(t) /\ t \notin holds
  /\ IF t \in Task
     THEN UNCHANGED <<ready, event>> /\ waits' = [waits EXCEPT ![t] = "done"]
          /\ UNCHANGED rv
     ELSE /\ PutFirst(t[2])
          /\ waits' = [waits EXCEPT ![t] = None]
          /\ rv' = [rv EXCEPT ![t[2]] = TRUE, ![t] = FALSE]
  /\ Leaves("top")
  /\ UNCHANGED <<quit, hubVars, lockVars, others>>

\* Sleep: to the hub, or at once back into `ready` when the time has passed.
YieldSleep(t) ==
  /\ Resumed(t) /\ "sleep" \in Ops[t]
  /\ \/ Register(t) /\ WaitsFor(t, "sleep")
     \/ PutLast(t) /\ Leaves("top") /\ WaitsFor(t, None)
        /\ UNCHANGED <<quit, hubVars>>
  /\ UNCHANGED <<lockVars, others>>

\* Select, Recv and RecvFrom; Send comes back here until all is sent.
YieldSelect(t, op) ==
  /\ Resumed(t) /\ op \in Ops[t] \cap {"recv", "send"}
  /\ Register(t) /\ WaitsFor(t, op)
  /\ UNCHANGED <<lockVars, others>>

\* Send._sendReturnFunc: everything is sent, or it selects again (ABORT).
ResumeSend(t) ==
  /\ Runs(t) /\ waits[t] = "send"
  /\ \/ /\ waits' = [waits EXCEPT ![t] = None]
        /\ UNCHANGED <<schedVars, rv, hubVars>>
     \/ Register(t) /\ WaitsFor(t, "send")
  /\ UNCHANGED <<lockVars, others>>

\* CallBlocking: the function runs in a thread of its own.
YieldCall(t) ==
  /\ Resumed(t) /\ t \in Task /\ "call" \in Ops[t]
  /\ working' = [working EXCEPT ![t] = "call"]
  /\ Leaves("top") /\ WaitsFor(t, "call")
  /\ UNCHANGED <<ready, event, quit, hubVars, lockVars, laterVars, works,
                 threadVars>>

\* Again: the subtask runs next, its parent when it ends.
YieldAgain(t) ==
  /\ Resumed(t) /\ t \in Task /\ "again" \in Ops[t]
  /\ PutFirst(Again(t))
  /\ Leaves("top") /\ WaitsFor(t, "again")
  /\ UNCHANGED <<quit, hubVars, lockVars, others>>

\* Lock._do_acquire: True means the task goes on running.
Acquire(t) ==
  /\ Resumed(t) /\ t \in Task \ holds /\ "lock" \in Ops[t]
  /\ IF locked = None
     THEN /\ locked' = t /\ holds' = holds \cup {t}
          /\ waits' = [waits EXCEPT ![t] = None]
          /\ UNCHANGED <<schedVars, rv, waiting>>
     ELSE /\ waiting' = waiting \cup {t}
          /\ WaitsFor(t, "lock") /\ Leaves("top")
          /\ UNCHANGED <<ready, event, quit, locked, holds>>
  /\ UNCHANGED <<hubVars, others>>

\* Mutant: the lock is free while the waiting task is on its way.
HandOverLater(w) == locked' = None /\ waiting' = waiting \ {w}

\* The lock goes to one of those who wait.
HandOver(w) == locked' = w /\ waiting' = waiting \ {w}

\* Lock._do_release
Release(t) ==
  /\ Resumed(t) /\ t \in holds
  /\ IF waiting = {}
     THEN /\ locked' = None /\ holds' = holds \ {t}
          /\ waits' = [waits EXCEPT ![t] = None]
          /\ UNCHANGED <<ready, event, rv, waiting>>
     ELSE \E w \in waiting :
            /\ HandOver(w)
            /\ holds' = (holds \ {t}) \cup {w}
            /\ waits' = [waits EXCEPT ![t] = None]
            /\ rv' = [rv EXCEPT ![w] = TRUE]
            /\ PutLast(w)
  /\ UNCHANGED <<quit, pc, cur, hubVars, others>>

-----------------------------------------------------------------------------
(* Tasks of the library. *)

Pending(x) == \E k \in DOMAIN ready : ready[k] = x

\* ScheduleTask.run: only if it is not there yet, and then first.
RunScheduleTask(x) ==
  /\ Runs(Schedule(x))
  /\ IF Pending(x) THEN UNCHANGED <<ready, event>> ELSE PutFirst(x)
  /\ Leaves("top")
  /\ UNCHANGED <<quit, taskVars, hubVars, others>>

\* SyncTask.run: one slice is given away, then the scheduler's thread releases
\* inlock and waits for outlock.
RunSyncTask(f) ==
  /\ Runs(Sync(f))
  /\ IF syncTask[f] = "new"
     THEN /\ syncTask' = [syncTask EXCEPT ![f] = "sliced"]
          /\ ready' = Append(ready, Sync(f))
          /\ Leaves("top")
     ELSE /\ syncTask' = [syncTask EXCEPT ![f] = "open"]
          /\ pc' = "held"
          /\ UNCHANGED <<ready, cur>>
  /\ UNCHANGED <<event, quit, taskVars, hubVars, working, laterVars, works,
                 thread, begun>>

\* Synchronizer.__exit__ releases outlock, and the SyncTask ends.
EndSync ==
  /\ pc = "held"
  /\ syncTask[cur[2]] = "left"
  /\ syncTask' = [syncTask EXCEPT ![cur[2]] = "new"]
  /\ Leaves("top")
  /\ UNCHANGED <<ready, event, quit, taskVars, hubVars, working, laterVars,
                 works, thread, begun>>

\* CallLaterTask.run, up to its Select, or on from there: pongAll().
RunCallLater ==
  /\ Runs(CallLaterTask)
  /\ IF waits[CallLaterTask] = None
     THEN Register(CallLaterTask) /\ WaitsFor(CallLaterTask, "select")
          /\ UNCHANGED callPinged
     ELSE /\ callPinged' = FALSE /\ pc' = "drain"
          /\ UNCHANGED <<ready, event, quit, cur, waits, rv, hubVars>>
  /\ UNCHANGED <<lockVars, working, laterState, calls, works, threadVars>>

\* Its inner loop: one call after the other, until popleft fails.
Drain ==
  /\ pc = "drain"
  /\ IF calls # <<>>
     THEN /\ calls' = Tail(calls)
          /\ quit' = (quit \/ Head(calls) = "quit")  \* callLater(scheduler.quit)
          /\ UNCHANGED <<ready, event, pc, cur, waits, rv, hubVars>>
     ELSE /\ Register(CallLaterTask) /\ WaitsFor(CallLaterTask, "select")
          /\ UNCHANGED calls
  /\ UNCHANGED <<lockVars, working, laterState, callPinged, works,
                 threadVars>>

\* BaseConsumer.run: a batch of one, and then a look whether there is more.
RunConsumer ==
  /\ Runs(Consumer)
  /\ works' = IF works > 0 THEN works - 1 ELSE 0
  /\ pc' = "decide"
  /\ UNCHANGED <<ready, event, quit, cur, taskVars, hubVars, working, laterVars,
                 threadVars>>

Decide ==
  /\ pc = "decide"
  /\ ready' = IF works = 0 THEN ready ELSE Append(ready, Consumer)
  /\ Leaves("top")
  /\ UNCHANGED <<event, quit, taskVars, hubVars, others>>

-----------------------------------------------------------------------------
(* SelectHub._select, in the thread of the hub. *)

Timed(t) == waits[t] # "select"  \* Select without a timeout
\* Its file descriptor can be read or written.  Those of tasks may be at any
\* time; the pinger of the CallLaterTask is when it was pinged.
MayBeReady(t) == IF t = CallLaterTask THEN callPinged
                 ELSE waits[t] \in {"recv", "send"}

\* Mutant: what has expired stays in the table.
HubScanKeeps ==
  /\ hubPc = "scan"
  /\ IF quit THEN hubPc' = "done" /\ UNCHANGED returning
     ELSE \E expired \in SUBSET {t \in hub : Timed(t)} :
            /\ \E s \in SetToSeqs(expired) : returning' = s
            /\ hubPc' = IF expired = {} THEN "select" ELSE "expire"
  /\ UNCHANGED <<hub, schedVars, taskVars, incoming, pinged, others>>

\* The head of the loop: tasks whose time is over are deleted, to be returned.
\* Which of the others is next matters only once select() has timed out.
HubScan ==
  /\ hubPc = "scan"
  /\ IF quit THEN hubPc' = "done" /\ UNCHANGED <<hub, returning>>
     ELSE \E expired \in SUBSET {t \in hub : Timed(t)} :
            /\ hub' = hub \ expired
            /\ \E s \in SetToSeqs(expired) : returning' = s
            /\ hubPc' = IF expired = {} THEN "select" ELSE "expire"
  /\ UNCHANGED <<schedVars, taskVars, incoming, pinged, others>>

\* select() returns: with what is readable and writable, or with nothing when
\* the time of the first timer is over, or CYCLE_MAXIMUM without one.
HubSelect ==
  /\ hubPc = "select"
  /\ \E io \in SUBSET {t \in hub : MayBeReady(t)} :
       /\ CallLaterTask \in hub /\ callPinged => CallLaterTask \in io
       /\ \/ /\ io # {} \/ pinged
             /\ hub' = hub \ io
             /\ \E s \in SetToSeqs(io) : returning' = s
             /\ pinged' = FALSE
             /\ hubPc' = IF pinged THEN "drain" ELSE "return"
          \/ /\ io = {} /\ ~pinged
             /\ IF \E t \in hub : Timed(t)
                THEN \E t \in hub : /\ Timed(t)
                                    /\ hub' = hub \ {t}
                                    /\ returning' = <<t>>
                                    /\ hubPc' = "return"
                ELSE hubPc' = "scan" /\ UNCHANGED <<hub, returning>>
             /\ UNCHANGED pinged
  /\ UNCHANGED <<schedVars, taskVars, incoming, others>>

\* The pinger was read: move the queue into the table.
HubDrain ==
  /\ hubPc = "drain"
  /\ hub' = hub \cup incoming
  /\ incoming' = {}
  /\ hubPc' = IF returning = <<>> THEN "scan" ELSE "return"
  /\ UNCHANGED <<schedVars, taskVars, pinged, returning, others>>

HubSets == {"set", "set, then select"}

\* _return: the answer, and the first half of fast_schedule.
HubReturn ==
  /\ hubPc \in {"expire", "return"}
  /\ rv' = [rv EXCEPT ![Head(returning)] = TRUE]
  /\ ready' = Append(ready, Head(returning))
  /\ returning' = Tail(returning)
  /\ hubPc' = IF hubPc = "expire" THEN "set, then select" ELSE "set"
  /\ UNCHANGED <<event, quit, pc, cur, waits, lockVars, incoming, hub, pinged,
                 others>>

\* break_idle(); the expired are followed by the select, the others are last.
HubSet ==
  /\ hubPc \in HubSets
  /\ event' = TRUE
  /\ hubPc' = CASE hubPc = "set" -> IF returning # <<>> THEN "return" ELSE "scan"
               [] OTHER -> IF returning # <<>> THEN "expire" ELSE "select"
  /\ UNCHANGED <<ready, quit, pc, cur, taskVars, incoming, hub, pinged, returning,
                 others>>

-----------------------------------------------------------------------------
(* Other threads. *)

\* Mutant: the task is scheduled before it has the answer.
WorkerForgets(t) ==
  /\ working[t] = "call"
  /\ working' = [working EXCEPT ![t] = "append"]
  /\ UNCHANGED <<schedVars, taskVars, hubVars, laterVars, works, threadVars>>

\* CallBlocking._proc
WorkerAnswers(t) ==
  /\ working[t] = "call"
  /\ rv' = [rv EXCEPT ![t] = TRUE]
  /\ working' = [working EXCEPT ![t] = "append"]
  /\ UNCHANGED <<schedVars, waits, lockVars, hubVars, laterVars, works,
                 threadVars>>

WorkerAppends(t) ==
  /\ working[t] = "append"
  /\ ready' = Append(ready, t)
  /\ working' = [working EXCEPT ![t] = "set"]
  /\ UNCHANGED <<event, quit, pc, cur, taskVars, hubVars, laterVars, works,
                 threadVars>>

WorkerSets(t) ==
  /\ working[t] = "set"
  /\ event' = TRUE
  /\ working' = [working EXCEPT ![t] = "no"]
  /\ UNCHANGED <<ready, quit, pc, cur, taskVars, hubVars, laterVars, works,
                 threadVars>>

\* schedule() by a thread that is not the scheduler's: ScheduleTask.start.
StartSchedule(f, x, then) ==
  /\ ready' = Append(ready, Schedule(x))
  /\ thread' = [thread EXCEPT ![f] = then]

\* break_idle(), and on with what the thread was doing.
ThreadSets(f) ==
  /\ thread[f] \in {"set", "set, then call", "set, then enter"}
  /\ event' = TRUE
  /\ thread' = [thread EXCEPT ![f] = CASE thread[f] = "set" -> "out"
                                       [] thread[f] = "set, then call" -> "call"
                                       [] OTHER -> "enter"]
  /\ UNCHANGED <<ready, quit, pc, cur, taskVars, hubVars, working, laterVars,
                 works, syncTask, begun>>

\* Bound: a thread does MaxBegins things.
Begin(f) ==
  /\ thread[f] = "out" /\ begun[f] < MaxBegins
  /\ begun' = [begun EXCEPT ![f] = @ + 1]

\* Scheduler.callLater: the first caller starts the task, under a lock.
CallLater(f) ==
  /\ Begin(f)
  /\ IF laterState = "none"
     THEN /\ laterState' = "on"
          /\ StartSchedule(f, CallLaterTask, "set, then call")
     ELSE thread' = [thread EXCEPT ![f] = "call"] /\ UNCHANGED <<ready, laterState>>
  /\ UNCHANGED <<event, quit, pc, cur, taskVars, hubVars, working, calls,
                 callPinged, works, syncTask>>

\* CallLaterTask.callLater
AppendCall(f) ==
  /\ thread[f] = "call"
  /\ \E c \in {"function", "quit"} : calls' = Append(calls, c)
  /\ thread' = [thread EXCEPT ![f] = "ping"]
  /\ UNCHANGED <<schedVars, taskVars, hubVars, working, laterState, callPinged,
                 works, syncTask, begun>>

PingCall(f) ==
  /\ thread[f] = "ping"
  /\ callPinged' = TRUE
  /\ thread' = [thread EXCEPT ![f] = "out"]
  /\ UNCHANGED <<schedVars, taskVars, hubVars, working, laterState, calls,
                 works, syncTask, begun>>

\* BaseConsumer.add_work, first the queue, then schedule().
AddWork(f) ==
  /\ Begin(f)
  /\ works' = works + 1
  /\ thread' = [thread EXCEPT ![f] = "wake"]
  /\ UNCHANGED <<schedVars, taskVars, hubVars, working, laterVars, syncTask>>

\* Mutant: it wakes the scheduler, and schedules nothing.
WakeNobody(f) ==
  /\ thread[f] = "wake"
  /\ thread' = [thread EXCEPT ![f] = "set"]
  /\ UNCHANGED <<schedVars, taskVars, hubVars, working, laterVars, works,
                 syncTask, begun>>

WakeConsumer(f) ==
  /\ thread[f] = "wake"
  /\ StartSchedule(f, Consumer, "set")
  /\ UNCHANGED <<event, quit, pc, cur, taskVars, hubVars, working, laterVars,
                 works, syncTask, begun>>

\* Synchronizer.__enter__; then it waits for inlock.
EnterSync(f) ==
  /\ Begin(f)
  /\ syncTask[f] = "new"
  /\ StartSchedule(f, Sync(f), "set, then enter")
  /\ UNCHANGED <<event, quit, pc, cur, taskVars, hubVars, working, laterVars,
                 works, syncTask>>

\* It has inlock: the block runs.
Inside(f) ==
  /\ thread[f] = "enter" /\ syncTask[f] = "open"
  /\ thread' = [thread EXCEPT ![f] = "inside"]
  /\ UNCHANGED <<schedVars, taskVars, hubVars, working, laterVars, works,
                 syncTask, begun>>

\* Synchronizer.__exit__
ExitSync(f) ==
  /\ thread[f] = "inside"
  /\ thread' = [thread EXCEPT ![f] = "out"]
  /\ syncTask' = [syncTask EXCEPT ![f] = "left"]
  /\ UNCHANGED <<schedVars, taskVars, hubVars, working, laterVars, works,
                 begun>>

-----------------------------------------------------------------------------
Yields(t) ==
  \/ YieldZero(t) \/ Finish(t) \/ YieldSleep(t)
  \/ \E op \in {"recv", "send"} : YieldSelect(t, op)
  \/ YieldCall(t) \/ ResumeSend(t)

TaskStep(t) == Yields(t) \/ YieldAgain(t) \/ Acquire(t) \/ Release(t)

Scheduler ==
  \/ Top \/ Idle \/ Wake \/ Cycle \/ Ping \/ Drain \/ Decide
  \/ \E x \in {CallLaterTask, Consumer} \cup {Sync(f) : f \in Thread} :
       RunScheduleTask(x)
  \/ \E f \in Thread : RunSyncTask(f)
  \/ EndSync
  \/ RunCallLater \/ RunConsumer

Hub == HubScan \/ HubSelect \/ HubDrain \/ HubReturn \/ HubSet
Worker(t) == WorkerAnswers(t) \/ WorkerAppends(t) \/ WorkerSets(t)
Goes(f) == ThreadSets(f) \/ AppendCall(f) \/ PingCall(f) \/ WakeConsumer(f)
           \/ Inside(f) \/ ExitSync(f)
Begins(f) == CallLater(f) \/ AddWork(f) \/ EnterSync(f)

Next ==
  \/ Scheduler
  \/ \E t \in Program : TaskStep(t)
  \/ Hub
  \/ \E t \in Task : Worker(t)
  \/ \E f \in Thread : Goes(f) \/ Begins(f)

Spec == Init /\ [][Next]_vars

\* Every thread goes on, and a task gives its slice back in the end, however
\* often it takes and leaves locks or lets a subtask go first (which keeps its
\* place at the head of `ready`: a task that did so for ever starves the rest).
Fairness ==
  /\ WF_vars(Scheduler) /\ WF_vars(Hub)
  /\ \A t \in Program : SF_vars(Yields(t)) /\ WF_vars(Release(t))
  /\ \A f \in Thread : WF_vars(Goes(f))

FairSpec == Spec /\ Fairness

-----------------------------------------------------------------------------
(* Properties. *)

Times(x, seq) == Cardinality({k \in DOMAIN seq : seq[k] = x})
Is(p) == IF p THEN 1 ELSE 0

\* A task is in one place: in `ready`, running, in the hub or on its way there,
\* being returned by the hub, waiting for the lock, for its worker or for its
\* subtask.  A task in two places would be run while it waits, or be registered
\* twice, which ends the hub's thread ("assert task not in tasks").
OnePlace ==
  \A t \in Sleeper :
    Times(t, ready) + Times(t, returning) + Is(cur = t) + Is(t \in incoming)
      + Is(t \in hub) + Is(t \in waiting)
      + (IF t \in Task
         THEN Is(working[t] \in {"call", "append"})
              + Is(waits[t] = "again" /\ ~rv[t])
         ELSE 0) <= 1

\* A task that runs again has the answer to what it yielded.
Answered ==
  \A t \in Sleeper : Pending(t) \/ cur = t => waits[t] = None \/ rv[t]

\* Two tasks never both hold the Lock, and who was told to hold it does.
LockExclusion == holds = IF locked = None THEN {} ELSE {locked}

\* "Do stuff which assumes co-op tasks aren't running" (synchronized): while a
\* thread is inside, the scheduler's thread waits for it, and for it alone.
SyncExclusion == \A f \in Thread :
  thread[f] = "inside" => pc = "held" /\ cur = Sync(f)

\* Tasks exclude each other with the Lock, and threads exclude tasks.
Exclusion == LockExclusion /\ SyncExclusion

\* "Since we have work, make sure we're scheduled" (BaseConsumer.add_work): work
\* that is waiting has a consumer that is about to run, whoever added it.
WorkIsScheduled ==
  works > 0 =>
    \/ Pending(Consumer) \/ cur = Consumer
    \/ Pending(Schedule(Consumer)) \/ cur = Schedule(Consumer)
    \/ \E f \in Thread : thread[f] = "wake"

\* What was given to callLater() is called in the end, unless POX quits.
CallsHappen == calls # <<>> ~> (calls = <<>> \/ quit)
=============================================================================
