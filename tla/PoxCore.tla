------------------------------ MODULE PoxCore -------------------------------
(***************************************************************************)
(* POX's core (pox/core.py) and its events (pox/lib/revent/revent.py):     *)
(* components that are registered, callbacks that wait for components, and *)
(* handlers that listen to events.  Everything runs in one thread, but all *)
(* of it calls code of components, and that may register, wait, listen,    *)
(* stop listening and raise events again: `stack` is the call stack.       *)
(*                                                                         *)
(* A handler list is changed in place by addListener and replaced by       *)
(* removeListener: a raiseEvent that is under way goes on with the list it *)
(* has.  All priorities are the default.                                   *)
(***************************************************************************)
EXTENDS Integers, Sequences, FiniteSets, SequencesExt

CONSTANTS
  Component,
  Event,        \* besides ComponentRegistered
  MaxCalls      \* bound: calls into the core

Events == Event \cup {"ComponentRegistered"}

VARIABLES
  components,   \* POXCore.components
  waiters,      \* _waiters: [id, needs]
  served,       \* ids of the waiters whose callback was called, each time
  handlers,     \* _eventMixin_handlers: [id, once] in a sequence for each event
  stack,
  calls         \* how many; they number handlers and waiters

vars == <<components, waiters, served, handlers, stack, calls>>

\* Frames: code of a component, an event that is raised, and _try_waiters.
Code(guarded) == [kind |-> "code", guarded |-> guarded]
\* An event finds those that listen; while it is attached, its list is that in handlers.
Raising(e, guarded) ==
  [kind |-> "raise", event |-> e, guarded |-> guarded, next |-> 1, attached |-> TRUE,
   list |-> <<>>, called |-> <<>>, listening |-> ToSet(handlers[e])]
TryWaiters == [kind |-> "waiters", todo |-> <<>>, changed |-> TRUE]

Init ==
  /\ components = {} /\ waiters = <<>> /\ served = <<>>
  /\ handlers = [e \in Events |-> <<>>]
  /\ stack = <<>> /\ calls = 0

Depth == Len(stack)
Top == stack[Depth]
Below == SubSeq(stack, 1, Depth - 1)
WithTop(frame) == Append(Below, frame)

\* The core is called by what runs at the top: code of a component, or anything
\* when nothing else runs.
CanCall == (IF Depth = 0 THEN TRUE ELSE Top.kind = "code") /\ calls < MaxCalls
Called == CanCall /\ calls' = calls + 1

-----------------------------------------------------------------------------
(* Events                                                                   *)

addListener ==
  /\ Called
  /\ \E e \in Events, once \in BOOLEAN :
       handlers' = [handlers EXCEPT ![e] = Append(@, [id |-> calls, once |-> once])]
  /\ UNCHANGED <<components, waiters, served, stack>>

\* Mutant: the handler is taken out of the list itself, which an event may be
\* walking along.
RemovedInPlace(frames, e) == frames
\* What becomes of the frames when the list of an event is replaced.
Replaced(frames, e) ==
  [i \in DOMAIN frames |->
     IF frames[i].kind = "raise" /\ frames[i].event = e /\ frames[i].attached
     THEN [frames[i] EXCEPT !.attached = FALSE, !.list = handlers[e]] ELSE frames[i]]

Remaining(e, id) == SelectSeq(handlers[e], LAMBDA h : h.id # id)

removeListener ==
  /\ Called
  /\ \E e \in Events : \E h \in ToSet(handlers[e]) :
       /\ handlers' = [handlers EXCEPT ![e] = Remaining(e, h.id)]
       /\ stack' = Replaced(stack, e)
  /\ UNCHANGED <<components, waiters, served>>

\* raiseEvent, or raiseEventNoErrors if it is guarded.
raiseEvent ==
  /\ Called
  /\ \E e \in Event, guarded \in BOOLEAN : stack' = Append(stack, Raising(e, guarded))
  /\ UNCHANGED <<components, waiters, served, handlers>>

ListOf(frame) == IF frame.attached THEN handlers[frame.event] ELSE frame.list

\* The loop of raiseEvent comes to the next handler.
Invoke ==
  /\ Depth > 0 /\ Top.kind = "raise" /\ Top.next <= Len(ListOf(Top))
  /\ LET h == ListOf(Top)[Top.next] IN
     stack' = Append(WithTop([Top EXCEPT !.next = @ + 1, !.called = Append(@, h)]), Code(FALSE))
  /\ UNCHANGED <<components, waiters, served, handlers, calls>>

EndRaise ==
  /\ Depth > 0 /\ Top.kind = "raise" /\ Top.next > Len(ListOf(Top))
  /\ stack' = Below
  /\ UNCHANGED <<components, waiters, served, handlers, calls>>

\* A handler returns: it may want to be removed, and to halt the event.
Return ==
  /\ Depth > 1 /\ Top.kind = "code" /\ stack[Depth - 1].kind = "raise"
  /\ \E remove, halt \in BOOLEAN :
       LET frame == stack[Depth - 1]
           h == frame.called[Len(frame.called)]
           e == frame.event
           left == IF remove \/ h.once THEN Replaced(Below, e) ELSE Below
       IN /\ handlers' = IF remove \/ h.once THEN [handlers EXCEPT ![e] = Remaining(e, h.id)]
                         ELSE handlers
          /\ stack' = IF halt THEN SubSeq(left, 1, Depth - 2) ELSE left
  /\ UNCHANGED <<components, waiters, served, calls>>

-----------------------------------------------------------------------------
(* Components and those that wait for them                                 *)

register ==
  /\ Called
  /\ \E c \in Component : components' = components \cup {c}
  /\ stack' = stack \o <<TryWaiters, Raising("ComponentRegistered", TRUE)>>
  /\ UNCHANGED <<waiters, served, handlers>>

Ready(w) == w.needs \subseteq components
Without(w) == SelectSeq(waiters, LAMBDA v : v # w)

Unlisted(w) == Without(w)

\* Once it is off the list, the callback is called; what it raises is caught.
Serve(w, frames) ==
  /\ waiters' = Unlisted(w)
  /\ served' = Append(served, w.id)
  /\ stack' = Append(frames, Code(TRUE))

call_when_ready ==
  /\ Called
  /\ \E needs \in SUBSET Component :
       LET w == [id |-> calls, needs |-> needs] IN
       IF Ready(w)
       THEN /\ served' = Append(served, w.id)
            /\ stack' = Append(stack, Code(TRUE))
            /\ UNCHANGED waiters
       ELSE waiters' = Append(waiters, w) /\ UNCHANGED <<served, stack>>
  /\ UNCHANGED <<components, handlers>>

\* _try_waiters: around as long as one was called, over a copy of the list.
NextRound ==
  /\ Depth > 0 /\ Top.kind = "waiters" /\ Top.todo = <<>>
  /\ stack' = IF Top.changed THEN WithTop([Top EXCEPT !.todo = waiters, !.changed = FALSE])
              ELSE Below
  /\ UNCHANGED <<components, waiters, served, handlers, calls>>

_try_waiter ==
  /\ Depth > 0 /\ Top.kind = "waiters" /\ Top.todo # <<>>
  /\ LET w == Head(Top.todo)
         rest == [Top EXCEPT !.todo = Tail(@)]
     IN IF w \in ToSet(waiters) /\ Ready(w)
        THEN Serve(w, WithTop([rest EXCEPT !.changed = TRUE]))
        ELSE stack' = WithTop(rest) /\ UNCHANGED <<waiters, served>>
  /\ UNCHANGED <<components, handlers, calls>>

\* A callback returns.
Done ==
  /\ Depth > 0 /\ Top.kind = "code" /\ Top.guarded
  /\ stack' = Below
  /\ UNCHANGED <<components, waiters, served, handlers, calls>>

\* An exception ends everything up to what catches it: a callback that was waiting, or an
\* event that was raised with raiseEventNoErrors.
Throw ==
  /\ Depth > 0 /\ Top.kind = "code"
  /\ LET catches == {i \in 1..Depth : stack[i].kind # "waiters" /\ stack[i].guarded}
         up == IF catches = {} THEN 1 ELSE CHOOSE i \in catches : \A j \in catches : j <= i
     IN stack' = SubSeq(stack, 1, up - 1)
  /\ UNCHANGED <<components, waiters, served, handlers, calls>>

Next ==
  \/ addListener \/ removeListener \/ raiseEvent \/ Invoke \/ EndRaise \/ Return
  \/ register \/ call_when_ready \/ NextRound \/ _try_waiter \/ Done \/ Throw

Spec == Init /\ [][Next]_vars

-----------------------------------------------------------------------------
\* An event that was not halted has come to each handler that listened all the time,
\* and to none twice, whatever the handlers added, removed and raised.
NobodySkipped ==
  \A i \in DOMAIN stack :
    LET frame == stack[i] IN
    frame.kind = "raise" /\ frame.next > Len(ListOf(frame)) =>
      /\ frame.listening \cap ToSet(handlers[frame.event]) \subseteq ToSet(frame.called)
      /\ IsInjective(frame.called)

\* A callback is called once, when all it needs is there, and at the latest when the
\* call that registered the last of it is over: also if callbacks register what
\* others wait for, wait themselves, or fail.
CalledOnceReady ==
  /\ IsInjective(served)
  /\ Depth = 0 => \A w \in ToSet(waiters) : ~Ready(w)
=============================================================================
