------------------------------- MODULE EventBus -------------------------------
(***************************************************************************)
(* The event buses: SubscriberStorage under SyncEventBus, which publishes  *)
(* at once, or under AsyncEventBus, which queues what is published until   *)
(* dispatch().                                                             *)
(*                                                                         *)
(* A bus has no lock: everything happens on one thread, but a callback may *)
(* call the bus it is called from.  `calls` is the call stack of the bus;  *)
(* a call that throws (a modification during a publish, an empty callback) *)
(* changes nothing and is no step.  A definition whose name extends the    *)
(* next one's is a faulty variant of it that no action uses.               *)
(***************************************************************************)
EXTENDS Integers, SequencesExt, FiniteSets

CONSTANTS
  Types,        \* the types of events
  Callbacks,    \* the callbacks; each one is moved into the bus once
  None,         \* a callback that was not subscribed
  MaxEvents,    \* bound: calls of publish()
  MaxDepth      \* bound: nested calls

ASSUME NoTypeAssumption == None \notin Types

ASSUME DepthAssumption == MaxEvents \in Nat /\ MaxDepth \in Nat \ {0}

VARIABLES
  deferred,     \* the bus is an AsyncEventBus
  indexOf,      \* eventIndex<EVENT>(), counted from 1; 0 before the first use
  slots,        \* m_callbacks
  wants,        \* the type each callback casts its argument to
  publishCount, \* m_publishCount
  queue,        \* m_eventPublishers
  calls,        \* calls of dispatch() and of the storage's publish(), outermost first
  published,    \* events published so far
  received,     \* history: the invocations of callbacks, in their order
  nested        \* history: a callback has called dispatch()

storageVars == <<indexOf, slots, wants>>
historyVars == <<received, nested>>
vars == <<deferred, storageVars, publishCount, queue, calls, published, historyVars>>

Init ==
  /\ deferred \in BOOLEAN
  /\ indexOf = [t \in Types |-> 0]
  /\ slots = <<>>
  /\ wants = [c \in Callbacks |-> None]
  /\ publishCount = 0
  /\ queue = <<>> /\ calls = <<>>
  /\ published = 0 /\ received = <<>> /\ nested = FALSE

EventIndexFromSize(t) == IF indexOf[t] # 0 THEN indexOf[t] ELSE Len(slots) + 1

\* One counter for all types and all buses of the program.
EventIndex(t) ==
  IF indexOf[t] # 0 THEN indexOf[t] ELSE Cardinality({u \in Types : indexOf[u] # 0}) + 1

\* reserveAndResizeIfNecessary
Resized(i) == slots \o [k \in 1 .. i - Len(slots) |-> <<>>]

\* Code outside the bus runs: its user, or the callback that was invoked last.
UserRuns ==
  calls # <<>> => Last(calls).kind = "publish" /\ Last(calls).next > 1

-------------------------------------------------------------------------------
(* SubscriberStorage.                                                      *)

MayModify == publishCount = 0

Subscribe(c, t) ==
  /\ UserRuns /\ MayModify
  /\ wants[c] = None
  /\ wants' = [wants EXCEPT ![c] = t]
  /\ indexOf' = [indexOf EXCEPT ![t] = EventIndex(t)]
  /\ slots' = [Resized(EventIndex(t)) EXCEPT ![EventIndex(t)] = Append(@, c)]
  /\ UNCHANGED <<deferred, publishCount, queue, calls, published, historyVars>>

\* Another bus, or a publish without subscribers, is the first to use a type.
UsedElsewhere(t) ==
  /\ UserRuns
  /\ indexOf[t] = 0
  /\ indexOf' = [indexOf EXCEPT ![t] = EventIndex(t)]
  /\ UNCHANGED <<deferred, slots, wants, publishCount, queue, calls, published,
                 historyVars>>

\* publish up to its loop, called from a call stack `below`.
StorePublish(event, below) ==
  /\ indexOf' = [indexOf EXCEPT ![event.type] = EventIndex(event.type)]
  /\ IF EventIndex(event.type) > Len(slots)
     THEN calls' = below /\ UNCHANGED publishCount
     ELSE /\ calls' = Append(below, [kind |-> "publish", event |-> event, next |-> 1])
          /\ publishCount' = publishCount + 1

Audience(call) == slots[indexOf[call.event.type]]

InvokeNext ==
  /\ calls # <<>> /\ Last(calls).kind = "publish"
  /\ LET call == Last(calls) IN
       /\ call.next <= Len(Audience(call))
       /\ received' = Append(received, [by |-> Audience(call)[call.next],
                                        event |-> call.event])
       /\ calls' = Append(Front(calls), [call EXCEPT !.next = @ + 1])
  /\ UNCHANGED <<deferred, storageVars, publishCount, queue, published, nested>>

LeavePublishAtOnce == publishCount' = 0

\* ~PublishGuard
LeavePublish == publishCount' = publishCount - 1

PublishReturns ==
  /\ calls # <<>> /\ Last(calls).kind = "publish"
  /\ Last(calls).next > Len(Audience(Last(calls)))
  /\ calls' = Front(calls)
  /\ LeavePublish
  /\ UNCHANGED <<deferred, storageVars, queue, published, historyVars>>

-------------------------------------------------------------------------------
(* The buses.                                                              *)

NewEvent(t) == [no |-> published + 1, type |-> t]

\* SyncEventBus::publish
PublishNow(t) ==
  /\ ~deferred /\ UserRuns
  /\ published < MaxEvents /\ Len(calls) < MaxDepth
  /\ published' = published + 1
  /\ StorePublish(NewEvent(t), calls)
  /\ UNCHANGED <<deferred, slots, wants, queue, historyVars>>

\* AsyncEventBus::publish
PublishLater(t) ==
  /\ deferred /\ UserRuns
  /\ published < MaxEvents
  /\ published' = published + 1
  /\ queue' = Append(queue, NewEvent(t))
  /\ UNCHANGED <<deferred, storageVars, publishCount, calls, historyVars>>

\* dispatch() of an empty queue changes nothing and is no step.
Dispatch ==
  /\ deferred /\ UserRuns /\ queue # <<>>
  /\ Len(calls) < MaxDepth
  /\ calls' = Append(calls, [kind |-> "dispatch"])
  /\ nested' = (nested \/ calls # <<>>)
  /\ UNCHANGED <<deferred, storageVars, publishCount, queue, published, received>>

InDispatch == calls # <<>> /\ Last(calls).kind = "dispatch"

DispatchLatest ==
  /\ InDispatch /\ queue # <<>>
  /\ queue' = Front(queue)
  /\ StorePublish(Last(queue), calls)
  /\ UNCHANGED <<deferred, slots, wants, published, historyVars>>

\* One iteration of the loop; the event leaves the queue before it is published.
DispatchNext ==
  /\ InDispatch /\ queue # <<>>
  /\ queue' = Tail(queue)
  /\ StorePublish(Head(queue), calls)
  /\ UNCHANGED <<deferred, slots, wants, published, historyVars>>

DispatchReturnsEarly ==
  /\ InDispatch
  /\ calls' = Front(calls)
  /\ UNCHANGED <<deferred, storageVars, publishCount, queue, published, historyVars>>

DispatchReturns ==
  /\ InDispatch /\ queue = <<>>
  /\ calls' = Front(calls)
  /\ UNCHANGED <<deferred, storageVars, publishCount, queue, published, historyVars>>

\* clear() of the storage, then of the queue.
Clear ==
  /\ UserRuns /\ MayModify
  /\ slots' = <<>> /\ queue' = <<>>
  /\ UNCHANGED <<deferred, indexOf, wants, publishCount, calls, published, historyVars>>

-------------------------------------------------------------------------------

BusRuns == InvokeNext \/ PublishReturns \/ DispatchNext \/ DispatchReturns

Next ==
  \/ \E t \in Types :
       \/ \E c \in Callbacks : Subscribe(c, t)
       \/ UsedElsewhere(t) \/ PublishNow(t) \/ PublishLater(t)
  \/ Dispatch \/ Clear
  \/ BusRuns

Spec == Init /\ [][Next]_vars

\* A callback returns; nobody need call the bus.
FairSpec == Spec /\ WF_vars(BusRuns)

-------------------------------------------------------------------------------
(* Properties.                                                             *)

ActivePublishes == {i \in DOMAIN calls : calls[i].kind = "publish"}

\* The callbacks are not added to or destroyed while some publish iterates over them,
\* however deep the one that calls back is nested (SubscribersStorage.hpp:84-146).
StorageIsStable ==
  [][ActivePublishes # {} => slots' = slots]_vars

\* A callback is only called with events of the type it was subscribed for, so that
\* the cast of the erased argument is sound (SubscribersStorage.hpp:99, 124-129).
CastsAreSound ==
  \A k \in DOMAIN received : wants[received[k].by] = received[k].event.type

\* The positions of the invocations with an event.
Deliveries(event) == {k \in DOMAIN received : received[k].event.no = event.no}

\* An event is given to each callback subscribed to its type exactly once and in the
\* order of subscription, also when the callback dispatches or publishes itself; and
\* only to these (SubscribersStorage.hpp:96-129, AsyncEventBus.hpp:46-55).
DeliveredOnce ==
  /\ \A i \in ActivePublishes :
       LET Got == Deliveries(calls[i].event) IN
         /\ Cardinality(Got) = calls[i].next - 1
         /\ \A k \in Got :
              received[k].by = Audience(calls[i])[Cardinality({j \in Got : j <= k})]
  /\ CastsAreSound

\* An AsyncEventBus starts events in the order in which they were published, whatever
\* the callbacks do: an event is only overtaken by later ones that a callback of its own
\* dispatched, never before its first callback.  Unless a callback calls dispatch(), each
\* callback sees the events in that order (AsyncEventBus.hpp:38-55).
SeenInOrder ==
  deferred =>
    /\ \A j, k \in DOMAIN received :
         j < k /\ received[k].event.no < received[j].event.no =>
           \E i \in DOMAIN received : i < j /\ received[i].event.no = received[k].event.no
    /\ ~nested =>
         \A j, k \in DOMAIN received :
           j < k /\ received[j].by = received[k].by =>
             received[j].event.no < received[k].event.no

\* dispatch() returns once no callback publishes any more, and leaves no event behind,
\* those published during it included (AsyncEventBus.hpp:46-55).
DispatchDrains ==
  /\ [][calls # <<>> /\ calls' = <<>> => queue' = <<>>]_vars
  /\ calls # <<>> ~> calls = <<>>
===============================================================================
