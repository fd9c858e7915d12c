------------------------------- MODULE EventBus -------------------------------
(***************************************************************************)
(* EventBus of include/cgs/plugin/event_bus.hpp for one type of event:     *)
(* handlers in the order of their priorities, events published at once or  *)
(* deferred.  Every operation holds mutex_ only to read or change the      *)
(* tables; handlers are called afterwards, from a copy, and may use the    *)
(* bus themselves (ProcessDeferred() excepted), as other threads may       *)
(* meanwhile.                                                              *)
(***************************************************************************)
EXTENDS Naturals, Sequences, FiniteSets, SequencesExt

CONSTANTS BusThreads, HandlerPriorities,
          MaxSubscriptions, MaxDeferred, MaxDue      \* bounds: the last one on the
                                                         \* handler calls due on a thread
ASSUME BusAssumption ==
  /\ MaxSubscriptions \in Nat /\ MaxDeferred \in Nat /\ MaxDue \in Nat
  /\ HandlerPriorities \subseteq Nat

VARIABLES subscribed,        \* handlers_: [id, priority] in calling order
          nextSubscription,  \* nextId_
          deferredQueue,     \* deferredQueue_: events by number
          dispatching,       \* per thread, the swapped queue of ProcessDeferred()
          calls,             \* per thread, the handler calls that are due
          deferrals,         \* ghost: events deferred so far
          dispatched         \* ghost: those that have been published

busVars == <<subscribed, nextSubscription, deferredQueue, dispatching, calls, deferrals, dispatched>>

BusInit ==
  /\ subscribed = <<>> /\ nextSubscription = 1 /\ deferredQueue = <<>>
  /\ dispatching = [t \in BusThreads |-> <<>>] /\ calls = [t \in BusThreads |-> <<>>]
  /\ deferrals = 0 /\ dispatched = <<>>

\* Subscribe(): pushed back and stably sorted into a list that is sorted, which puts it
\* behind the last handler of at most its priority.
Subscribe(priority) ==
  /\ nextSubscription <= MaxSubscriptions
  /\ \E at \in 1..(Len(subscribed) + 1) :
       /\ \A i \in DOMAIN subscribed : subscribed[i].priority <= priority <=> i < at
       /\ subscribed' = InsertAt(subscribed, at, [id |-> nextSubscription, priority |-> priority])
  /\ nextSubscription' = nextSubscription + 1
  /\ UNCHANGED <<deferredQueue, dispatching, calls, deferrals, dispatched>>

\* Unsubscribe(), unsubscribeInternal(): no two handlers have one id.
Unsubscribe(id) ==
  /\ \E at \in DOMAIN subscribed : subscribed[at].id = id /\ subscribed' = RemoveAt(subscribed, at)
  /\ UNCHANGED <<nextSubscription, deferredQueue, dispatching, calls, deferrals, dispatched>>

UnsubscribeAll ==
  /\ subscribed # <<>> /\ subscribed' = <<>>
  /\ UNCHANGED <<nextSubscription, deferredQueue, dispatching, calls, deferrals, dispatched>>

\* Publish(): the copy comes before the calls this thread is in the middle of.
Snapshot(t) == calls' = [calls EXCEPT ![t] = subscribed \o @]

Publish(t) ==
  /\ Len(subscribed) + Len(calls[t]) <= MaxDue /\ subscribed # <<>>
  /\ Snapshot(t)
  /\ UNCHANGED <<subscribed, nextSubscription, deferredQueue, dispatching, deferrals, dispatched>>

\* The next handler of the copy, subscribed or not by now.
CallHandler(t) ==
  /\ calls[t] # <<>>
  /\ calls' = [calls EXCEPT ![t] = Tail(@)]
  /\ UNCHANGED <<subscribed, nextSubscription, deferredQueue, dispatching, deferrals, dispatched>>

PublishDeferred ==
  /\ deferrals < MaxDeferred /\ deferrals' = deferrals + 1
  /\ deferredQueue' = Append(deferredQueue, deferrals + 1)
  /\ UNCHANGED <<subscribed, nextSubscription, dispatching, calls, dispatched>>

\* A mutant of ProcessDeferred(): the queue is copied and not swapped.
ProcessCopied(t) ==
  /\ dispatching[t] = <<>> /\ calls[t] = <<>> /\ deferredQueue # <<>>
  /\ dispatching' = [dispatching EXCEPT ![t] = deferredQueue]
  /\ UNCHANGED <<subscribed, nextSubscription, deferredQueue, calls, deferrals, dispatched>>

\* ProcessDeferred(): the queue is swapped for an empty one ...
ProcessDeferred(t) ==
  /\ dispatching[t] = <<>> /\ calls[t] = <<>> /\ deferredQueue # <<>>
  /\ dispatching' = [dispatching EXCEPT ![t] = deferredQueue] /\ deferredQueue' = <<>>
  /\ UNCHANGED <<subscribed, nextSubscription, calls, deferrals, dispatched>>

\* ... and its events are published one after the other.
DispatchNext(t) ==
  /\ dispatching[t] # <<>> /\ calls[t] = <<>>
  /\ dispatched' = Append(dispatched, Head(dispatching[t]))
  /\ dispatching' = [dispatching EXCEPT ![t] = Tail(@)]
  /\ Snapshot(t)
  /\ UNCHANGED <<subscribed, nextSubscription, deferredQueue, deferrals>>

\* Nothing is left to do within the bounds.
BusExhausted ==
  nextSubscription > MaxSubscriptions /\ deferrals = MaxDeferred /\ UNCHANGED busVars

BusNext ==
  \/ \E p \in HandlerPriorities : Subscribe(p)
  \/ \E h \in ToSet(subscribed) : Unsubscribe(h.id)
  \/ UnsubscribeAll \/ PublishDeferred \/ BusExhausted
  \/ \E t \in BusThreads : Publish(t) \/ CallHandler(t) \/ ProcessDeferred(t) \/ DispatchNext(t)

BusSpec == BusInit /\ [][BusNext]_busVars

(***************************************************************************)
(* Properties.                                                             *)
(***************************************************************************)

Handler == [id : Nat, priority : HandlerPriorities]

\* Handlers, queues and due calls are well formed.
BusTypeOK ==
  /\ subscribed \in Seq(Handler) /\ nextSubscription \in Nat /\ deferrals \in Nat
  /\ deferredQueue \in Seq(1..deferrals) /\ dispatched \in Seq(1..deferrals)
  /\ dispatching \in [BusThreads -> Seq(1..deferrals)] /\ calls \in [BusThreads -> Seq(Handler)]

\* Handlers are called in priority order and, for equal priorities, in the order of their
\* subscription; a deferred event is published exactly once, and one thread publishes
\* those it took in the order they were deferred, whatever handlers and threads
\* subscribe, unsubscribe, publish and defer in between.
EventsSound ==
  LET Times(e, s) == Cardinality({i \in DOMAIN s : s[i] = e})
      Rising(s) == \A i, j \in DOMAIN s : i < j => s[i] < s[j]
  IN  /\ \A i, j \in DOMAIN subscribed : i < j =>
           \/ subscribed[i].priority < subscribed[j].priority
           \/ subscribed[i].priority = subscribed[j].priority /\ subscribed[i].id < subscribed[j].id
      /\ \A e \in 1..deferrals :
           Times(e, deferredQueue) + Times(e, dispatched)
             + Cardinality({t \in BusThreads : e \in ToSet(dispatching[t])}) = 1
      /\ Rising(deferredQueue) /\ \A t \in BusThreads : Rising(dispatching[t])
=============================================================================
