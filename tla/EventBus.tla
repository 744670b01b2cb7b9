------------------------------- MODULE EventBus -------------------------------
(***************************************************************************)
(* core/events.py: EventBus.  publish stores the event and copies the list *)
(* of handlers under a lock that is never held across an await, and then   *)
(* calls the handlers one after the other outside of it: several publish   *)
(* calls interleave between handlers, and subscriptions may change         *)
(* meanwhile.  A handler that raises ends the publish call that called it. *)
(***************************************************************************)
EXTENDS Integers, Sequences, SequencesExt

CONSTANTS
  Publishers,     \* coroutines that publish
  Handlers,
  Names,          \* event names
  HistoryLimit

VARIABLES
  handlers,    \* EventBus._handlers
  history,     \* EventBus._history
  publishing,  \* the event each publisher publishes, NoEvent when it publishes none
  pending,     \* the calls that publish has still to make
  seen         \* how often each call has been made for an event

Event == [name: Names, by: Publishers]
NoEvent == [name |-> "none"]

\* A call of a handler, for it is on the list of a name or on that of everything.
Lists == Names \cup {"*"}
Call == [handler: Handlers, list: Lists]

BusTypeOK ==
  /\ handlers \in [Lists -> Seq(Handlers)]
  /\ history \in Seq(Event) /\ Len(history) <= HistoryLimit
  /\ publishing \in [Publishers -> Event \cup {NoEvent}]
  /\ pending \in [Publishers -> Seq(Call)]
  /\ seen \in [Call -> [Names \X Publishers -> Nat]]

BusInit(subscribed) ==
  /\ handlers = subscribed
  /\ history = <<>>
  /\ publishing = [p \in Publishers |-> NoEvent]
  /\ pending = [p \in Publishers |-> <<>>]
  /\ seen = [c \in Call |-> [e \in Names \X Publishers |-> 0]]

\* deque(maxlen=history_limit).
Retained(events) ==
  IF Len(events) <= HistoryLimit THEN events ELSE Tail(events)

Calls(list) ==
  [i \in DOMAIN handlers[list] |-> [handler |-> handlers[list][i], list |-> list]]

\* publish up to its first handler.
Publish(p, name) ==
  LET event == [name |-> name, by |-> p]
  IN  /\ publishing[p] = NoEvent
      /\ history' = Retained(Append(history, event))
      /\ publishing' = [publishing EXCEPT ![p] = event]
      /\ pending' = [pending EXCEPT ![p] = Calls(name) \o Calls("*")]
      /\ UNCHANGED <<handlers, seen>>

\* The next handler is called and returns.
Deliver(p) ==
  /\ pending[p] # <<>>
  /\ seen' = [seen EXCEPT ![Head(pending[p])][<<publishing[p].name, p>>] = @ + 1]
  /\ pending' = [pending EXCEPT ![p] = Tail(@)]
  /\ UNCHANGED <<handlers, history, publishing>>

\* Mutant of Published: publish does not wait for its handlers.
PublishedAtOnce(p) ==
  /\ publishing[p] # NoEvent
  /\ publishing' = [publishing EXCEPT ![p] = NoEvent]
  /\ pending' = [pending EXCEPT ![p] = <<>>]
  /\ UNCHANGED <<handlers, history, seen>>

\* Every handler has returned: publish does.
Published(p) ==
  /\ publishing[p] # NoEvent /\ pending[p] = <<>>
  /\ publishing' = [publishing EXCEPT ![p] = NoEvent]
  /\ UNCHANGED <<handlers, history, pending, seen>>

\* The next handler is called and raises, and so does publish.
DeliveryRaises(p) ==
  /\ pending[p] # <<>>
  /\ seen' = [seen EXCEPT ![Head(pending[p])][<<publishing[p].name, p>>] = @ + 1]
  /\ pending' = [pending EXCEPT ![p] = <<>>]
  /\ publishing' = [publishing EXCEPT ![p] = NoEvent]
  /\ UNCHANGED <<handlers, history>>

\* Mutant of Subscribe: a handler that is subscribed already is not looked for.
SubscribeAgain(name, h) ==
  /\ handlers' = [handlers EXCEPT ![name] = Append(@, h)]
  /\ UNCHANGED <<history, publishing, pending, seen>>

Subscribe(name, h) ==
  /\ handlers' = [handlers EXCEPT ![name] = IF Contains(@, h) THEN @ ELSE Append(@, h)]
  /\ UNCHANGED <<history, publishing, pending, seen>>

\* list.remove takes the first one.
Unsubscribe(name, h) ==
  /\ \/ ~Contains(handlers[name], h) /\ UNCHANGED handlers
     \/ \E i \in DOMAIN handlers[name] :
          /\ handlers[name][i] = h /\ \A j \in 1..(i - 1) : handlers[name][j] # h
          /\ handlers' = [handlers EXCEPT ![name] = RemoveAt(@, i)]
  /\ UNCHANGED <<history, publishing, pending, seen>>

-----------------------------------------------------------------------------
\* However publish calls and subscriptions interleave, a handler is called at most
\* once for an event as a subscriber to its name, at most once as one to "*", and never
\* as one to another name (subscribe is idempotent and publish copies the lists).
CalledOncePerName ==
  \A c \in Call, name \in Names, p \in Publishers :
    seen[c][<<name, p>>] <= IF c.list \in {name, "*"} THEN 1 ELSE 0
=============================================================================
