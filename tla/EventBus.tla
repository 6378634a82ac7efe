------------------------------ MODULE EventBus ------------------------------
(***************************************************************************)
(* memEventBus of rpc/ethereum/pubsub: named topics, each fed by a source  *)
(* channel and published by a goroutine of its own to the channels of the  *)
(* subscribers.                                                            *)
(*                                                                         *)
(* A source channel is its place in the sequence chans, whose record also  *)
(* holds its publisher goroutine; a subscriber's channel is named by the   *)
(* subscription that owns it.  All the channels are unbuffered.  topicsMux *)
(* and subscribersMux are taken for one step at a time, so a step here is  *)
(* what happens under one of them.                                         *)
(***************************************************************************)
EXTENDS Naturals, Sequences

CONSTANTS Subs,     \* subscriptions, hence subscribers' channels
          Events    \* topic names: the queries "logs", "txs", "heads"

ASSUME BusAssumption == Events \subseteq {"logs", "txs", "heads"}

NoChan == 0
Messages == {"event", "undecodable"}

VARIABLES topics,       \* topic -> source channel
          subscribers,  \* topic -> subscribers
          chans,        \* the source channels and their publishers
          closed,       \* the subscribers' channels that are closed
          reader        \* what the goroutine that reads a subscriber's channel does

busVars == <<topics, subscribers, chans, closed, reader>>

Publisher == [name : Events, open : BOOLEAN,
              pc : {"receive", "publish", "delete", "done"}, msg : Messages]

BusInit ==
  /\ topics = [e \in Events |-> NoChan]
  /\ subscribers = [e \in Events |-> {}]
  /\ chans = <<>>
  /\ closed = {}
  /\ reader = [s \in Subs |-> "none"]

\* AddTopic(name, src) with a channel just made: it fails when the name is
\* taken, and otherwise starts the publisher.
AddTopic(e) ==
  IF topics[e] # NoChan
  THEN UNCHANGED <<topics, chans>>
  ELSE /\ chans' = Append(chans, [name |-> e, open |-> TRUE, pc |-> "receive",
                                  msg |-> "event"])
       /\ topics' = [topics EXCEPT ![e] = Len(chans) + 1]

KeepTopic(e) == topics' = topics

RemoveTopic(e) == topics' = [topics EXCEPT ![e] = NoChan]

\* The second half of Subscribe, after its look at topics.
AddSubscriber(s, e) == subscribers' = [subscribers EXCEPT ![e] = @ \cup {s}]

\* The UnsubscribeFunc that Subscribe returns.
RemoveSubscriber(s, e) == subscribers' = [subscribers EXCEPT ![e] = @ \ {s}]

\* publishAllSubscribers: a send that would block is skipped, so that only
\* readers waiting in their select get the message, and perhaps not all.
PublishAllSubscribers(c) ==
  /\ chans[c].pc = "publish"
  /\ \E got \in SUBSET {s \in subscribers[chans[c].name] : reader[s] = "select"} :
       reader' = [s \in Subs |-> IF s \in got THEN chans[c].msg ELSE reader[s]]
  /\ chans' = [chans EXCEPT ![c].pc = "receive"]
  /\ UNCHANGED <<topics, subscribers, closed>>

KeepClosedSubscribers(c) ==
  /\ chans[c].pc = "receive"
  /\ ~chans[c].open
  /\ closed' = closed \cup subscribers[chans[c].name]
  /\ chans' = [chans EXCEPT ![c].pc = "delete"]
  /\ UNCHANGED <<topics, reader, subscribers>>

\* publishTopic finds its source closed.
CloseAllSubscribers(c) ==
  /\ chans[c].pc = "receive"
  /\ ~chans[c].open
  /\ closed' = closed \cup subscribers[chans[c].name]
  /\ subscribers' = [subscribers EXCEPT ![chans[c].name] = {}]
  /\ chans' = [chans EXCEPT ![c].pc = "delete"]
  /\ UNCHANGED <<topics, reader>>

\* publishTopic's last step, which deletes the topic by its name.
EndPublisher(c) ==
  /\ chans[c].pc = "delete"
  /\ topics' = [topics EXCEPT ![chans[c].name] = NoChan]
  /\ chans' = [chans EXCEPT ![c].pc = "done"]
  /\ UNCHANGED <<subscribers, closed, reader>>

PublishTopic(c) ==
  \/ PublishAllSubscribers(c)
  \/ CloseAllSubscribers(c)
  \/ EndPublisher(c)

BusTypeOK ==
  /\ topics \in [Events -> 0 .. Len(chans)]
  /\ subscribers \in [Events -> SUBSET Subs]
  /\ chans \in Seq(Publisher)
  /\ closed \subseteq Subs
  /\ reader \in [Subs -> {"none", "select", "delete", "deleteAgain", "leave", "exit"}
                         \cup Messages]
=============================================================================
