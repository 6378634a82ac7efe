---------------------------- MODULE EventSystem ----------------------------
(***************************************************************************)
(* The EventSystem of rpc/namespaces/ethereum/eth/filters: the goroutines  *)
(* eventLoop (installs and uninstalls subscriptions) and consumeEvents     *)
(* (passes the node's events on to the topics), and the subscribe calls.   *)
(* Who calls, and who reads a subscription's channel, is the subject of    *)
(* the modules that extend this one.                                       *)
(*                                                                         *)
(* A subscription is of one of three types, each with its own query, so    *)
(* the type and the query are one value, event[s].  A goroutine that sends *)
(* on a closed channel panics, and with it the process.                    *)
(***************************************************************************)
EXTENDS EventBus

CONSTANT MaxEvents    \* bound: the events that the node sends

ASSUME EventSystemAssumption == MaxEvents \in Nat

Idle == "idle"
NoEvent == "none"

VARIABLES event,       \* the query of a subscription
          call,        \* how far its subscribe call has come
          index,       \* EventSystem.index
          topicChans,  \* EventSystem.topicChans
          uninstalls,  \* subscriptions some goroutine offers on the uninstall channel
          loop,        \* the subscription eventLoop is closing the topic of
          errClosed,   \* subscriptions whose err channel is closed
          consumer,    \* consumeEvents: idle, or what it sends and where
          received,    \* how many events it took from the node
          nodeSubs,    \* the queries the node has a subscription for
          panicked

sysVars == <<event, call, index, topicChans, uninstalls, loop, errClosed,
             consumer, received, nodeSubs, panicked>>

NoSend == [chan |-> NoChan, msg |-> "event"]

SystemInit ==
  /\ BusInit
  /\ event = [s \in Subs |-> NoEvent]
  /\ call = [s \in Subs |-> "new"]
  /\ index = {}
  /\ topicChans = [e \in Events |-> NoChan]
  /\ uninstalls = {}
  /\ loop = Idle
  /\ errClosed = {}
  /\ consumer = NoSend
  /\ received = 0
  /\ nodeSubs = {}
  /\ panicked = FALSE

-----------------------------------------------------------------------------
(* subscribe, a step for each look at state that others change. *)

Goto(s, pc) == call' = [call EXCEPT ![s] = pc]

\* A caller enters subscribe for query e.
Subscribe(s, e) ==
  /\ call[s] = "new"
  /\ event' = [event EXCEPT ![s] = e]
  /\ Goto(s, "topics")
  /\ UNCHANGED <<busVars, index, topicChans, uninstalls, loop, errClosed, consumer,
                 received, nodeSubs, panicked>>

\* A topic the bus has is only subscribed to, not installed.
LookAtTopics(s) ==
  /\ call[s] = "topics"
  /\ Goto(s, IF topics[event[s]] # NoChan THEN "check" ELSE "request")
  /\ UNCHANGED <<busVars, event, index, topicChans, uninstalls, loop, errClosed,
                 consumer, received, nodeSubs, panicked>>

\* tmWSClient.Subscribe, which may fail.
RequestEvents(s) ==
  /\ call[s] = "request"
  /\ \/ nodeSubs' = nodeSubs \cup {event[s]} /\ Goto(s, "install")
     \/ nodeSubs' = nodeSubs /\ Goto(s, "failed")
  /\ UNCHANGED <<busVars, event, index, topicChans, uninstalls, loop, errClosed,
                 consumer, received, panicked>>

\* eventBus.Subscribe's look at the topics, and then its registration.
CheckTopic(s) ==
  /\ call[s] = "check"
  /\ Goto(s, IF topics[event[s]] # NoChan THEN "add" ELSE "failed")
  /\ UNCHANGED <<busVars, event, index, topicChans, uninstalls, loop, errClosed,
                 consumer, received, nodeSubs, panicked>>

JoinTopic(s) ==
  /\ call[s] = "add"
  /\ AddSubscriber(s, event[s])
  /\ Goto(s, "subscribed")
  /\ UNCHANGED <<topics, chans, closed, reader, event, index, topicChans, uninstalls,
                 loop, errClosed, consumer, received, nodeSubs, panicked>>

SubscribeStep(s) ==
  LookAtTopics(s) \/ RequestEvents(s) \/ CheckTopic(s) \/ JoinTopic(s)

-----------------------------------------------------------------------------
(* eventLoop; loop # Idle while it holds indexMux. *)

InstallAnyway(s) ==
  /\ loop = Idle
  /\ call[s] = "install"
  /\ index' = index \cup {s}
  /\ topics' = [topics EXCEPT ![event[s]] = IF @ = NoChan THEN Len(chans) + 1 ELSE @]
  /\ chans' = Append(chans, [name |-> event[s], open |-> TRUE, pc |-> "receive",
                             msg |-> "event"])
  /\ topicChans' = [topicChans EXCEPT ![event[s]] = Len(chans) + 1]
  /\ Goto(s, "check")
  /\ UNCHANGED <<subscribers, closed, reader, event, uninstalls, loop, errClosed,
                 consumer, received, nodeSubs, panicked>>

\* The caller waits for installed, which is closed whatever AddTopic returns.
Install(s) ==
  /\ loop = Idle
  /\ call[s] = "install"
  /\ index' = index \cup {s}
  /\ AddTopic(event[s])
  /\ topicChans' = IF topics[event[s]] = NoChan
                   THEN [topicChans EXCEPT ![event[s]] = Len(chans) + 1]
                   ELSE topicChans
  /\ Goto(s, "check")
  /\ UNCHANGED <<subscribers, closed, reader, event, uninstalls, loop, errClosed,
                 consumer, received, nodeSubs, panicked>>

ChannelInUse(s) == \E t \in index \ {s} : event[t] = event[s]

\* tmWSClient.Unsubscribe may fail, and is then only logged.
Uninstall(s) ==
  /\ loop = Idle
  /\ s \in uninstalls
  /\ uninstalls' = uninstalls \ {s}
  /\ index' = index \ {s}
  /\ nodeSubs' \in IF ChannelInUse(s) THEN {nodeSubs}
                   ELSE {nodeSubs, nodeSubs \ {event[s]}}
  /\ IF ChannelInUse(s) \/ topicChans[event[s]] = NoChan
     THEN /\ errClosed' = errClosed \cup {s}
          /\ UNCHANGED <<topics, loop>>
     ELSE /\ RemoveTopic(event[s])
          /\ loop' = s
          /\ UNCHANGED errClosed
  /\ UNCHANGED <<subscribers, chans, closed, reader, event, call, topicChans, consumer,
                 received, panicked>>

CloseTopic ==
  /\ loop # Idle
  /\ LET e == event[loop] IN
       /\ chans' = [chans EXCEPT ![topicChans[e]].open = FALSE]
       /\ topicChans' = [topicChans EXCEPT ![e] = NoChan]
  /\ errClosed' = errClosed \cup {loop}
  /\ loop' = Idle
  /\ UNCHANGED <<topics, subscribers, closed, reader, event, call, index, uninstalls,
                 consumer, received, nodeSubs, panicked>>

EventLoop ==
  \/ \E s \in Subs : Install(s) \/ Uninstall(s)
  \/ CloseTopic

-----------------------------------------------------------------------------
(* consumeEvents, which looks the channel up under indexMux and sends      *)
(* after it has given the lock back.  An event without a channel, or an    *)
(* error in place of one, is skipped.                                      *)

ReceiveEvent(e, m) ==
  /\ consumer = NoSend
  /\ loop = Idle
  /\ topicChans[e] # NoChan
  /\ received < MaxEvents
  /\ received' = received + 1
  /\ consumer' = [chan |-> topicChans[e], msg |-> m]
  /\ UNCHANGED <<busVars, event, call, index, topicChans, uninstalls, loop, errClosed,
                 nodeSubs, panicked>>

\* The publisher takes the event, or a second passes, or the channel was closed.
SendEvent ==
  /\ consumer # NoSend
  /\ consumer' = NoSend
  /\ \/ UNCHANGED <<chans, panicked>>
     \/ /\ chans[consumer.chan].open
        /\ chans[consumer.chan].pc = "receive"
        /\ chans' = [chans EXCEPT ![consumer.chan].pc = "publish",
                                  ![consumer.chan].msg = consumer.msg]
        /\ UNCHANGED panicked
     \/ /\ ~chans[consumer.chan].open
        /\ panicked' = TRUE
        /\ UNCHANGED chans
  /\ UNCHANGED <<topics, subscribers, closed, reader, event, call, index, topicChans,
                 uninstalls, loop, errClosed, received, nodeSubs>>

ConsumeEvents ==
  \/ \E e \in Events, m \in Messages : ReceiveEvent(e, m)
  \/ SendEvent

Unsubscribe(S) == uninstalls' = uninstalls \cup S

Goroutines ==
  \/ \E s \in Subs : SubscribeStep(s)
  \/ EventLoop
  \/ ConsumeEvents
  \/ \E c \in DOMAIN chans : PublishTopic(c) /\ UNCHANGED sysVars

SystemTypeOK ==
  /\ BusTypeOK
  /\ event \in [Subs -> Events \cup {NoEvent}]
  /\ call \in [Subs -> {"new", "topics", "request", "install", "check", "add",
                        "subscribed", "failed", "returned"}]
  /\ index \subseteq Subs /\ uninstalls \subseteq Subs /\ errClosed \subseteq Subs
  /\ topicChans \in [Events -> 0 .. Len(chans)]
  /\ loop \in Subs \cup {Idle}
  /\ consumer \in [chan : 0 .. Len(chans), msg : Messages]
  /\ received \in 0 .. MaxEvents
  /\ nodeSubs \subseteq Events
  /\ panicked \in BOOLEAN
=============================================================================
