------------------------------ MODULE WsServer ------------------------------
(***************************************************************************)
(* websocketsServer of rpc/websockets.go with its pubSubAPI: a readLoop    *)
(* per connection and a goroutine per subscription, around an EventSystem  *)
(* of their own.                                                           *)
(*                                                                         *)
(* The server never uninstalls a subscription: unsubscribing removes it    *)
(* from the bus only.  So no topic is closed, which SubscriptionIsFed says,*)
(* and the readers' cases for closed channels are left out; a reader that  *)
(* gets no more events waits for ever.  Requests that are forwarded to the *)
(* HTTP server, refused requests and the contents of messages change       *)
(* nothing here.                                                           *)
(***************************************************************************)
EXTENDS EventSystem

CONSTANTS Conns,      \* connections
          NoConn

Reading == "reading"

VARIABLES conn,      \* a connection, as its reads and writes find it
          serving,   \* its readLoop: reading, in subscribe for a subscription,
                     \* unsubscribing what is left, or ended
          held,      \* the map subscriptions of its readLoop
          owner      \* the connection a subscription was made for

wsVars == <<conn, serving, held, owner>>
vars == <<busVars, sysVars, wsVars>>

\* A peer that is gone makes reads and writes fail; a silent one only writes.
ConnStates == {"open", "gone", "silent", "closed"}

Init ==
  /\ SystemInit
  /\ conn = [c \in Conns |-> "open"]
  /\ serving = [c \in Conns |-> Reading]
  /\ held = [c \in Conns |-> {}]
  /\ owner = [s \in Subs |-> NoConn]

-----------------------------------------------------------------------------
(* readLoop *)

\* eth_subscribe, up to the event system.
EthSubscribe(c, s, e) ==
  /\ serving[c] = Reading
  /\ conn[c] = "open"
  /\ Subscribe(s, e)
  /\ serving' = [serving EXCEPT ![c] = s]
  /\ owner' = [owner EXCEPT ![s] = c]
  /\ UNCHANGED <<conn, held>>

\* The rest of it.  A response that cannot be written is noticed by the next read.
StartReader(c) ==
  /\ \E s \in Subs :
       /\ serving[c] = s
       /\ call[s] = "subscribed"
       /\ Goto(s, "returned")
       /\ reader' = [reader EXCEPT ![s] = "select"]
       /\ held' = [held EXCEPT ![c] = @ \cup {s}]
  /\ serving' = [serving EXCEPT ![c] = Reading]
  /\ UNCHANGED <<topics, subscribers, chans, closed, event, index, topicChans,
                 uninstalls, loop, errClosed, consumer, received, nodeSubs, panicked,
                 conn, owner>>

RefuseSubscription(c) ==
  /\ \E s \in Subs :
       /\ serving[c] = s
       /\ call[s] = "failed"
       /\ Goto(s, "returned")
  /\ serving' = [serving EXCEPT ![c] = Reading]
  /\ UNCHANGED <<busVars, event, index, topicChans, uninstalls, loop, errClosed,
                 consumer, received, nodeSubs, panicked, conn, held, owner>>

EthUnsubscribe(c, s) ==
  /\ serving[c] = Reading
  /\ conn[c] = "open"
  /\ s \in held[c]
  /\ held' = [held EXCEPT ![c] = @ \ {s}]
  /\ RemoveSubscriber(s, event[s])
  /\ UNCHANGED <<topics, chans, closed, reader, sysVars, conn, serving, owner>>

\* Mutant: the subscriptions are left to the garbage collector.
LeaveSubscriptions(c) ==
  /\ serving[c] = Reading
  /\ conn[c] \in {"gone", "closed"}
  /\ conn' = [conn EXCEPT ![c] = "closed"]
  /\ serving' = [serving EXCEPT ![c] = "unsubscribing"]
  /\ held' = [held EXCEPT ![c] = {}]
  /\ UNCHANGED <<busVars, sysVars, owner>>

\* ReadMessage fails: the loop closes the connection and returns.
StopReading(c) ==
  /\ serving[c] = Reading
  /\ conn[c] \in {"gone", "closed"}
  /\ conn' = [conn EXCEPT ![c] = "closed"]
  /\ serving' = [serving EXCEPT ![c] = "unsubscribing"]
  /\ UNCHANGED <<busVars, sysVars, held, owner>>

\* The deferred function calls one unsubFn after the other.
CancelSubscription(c) ==
  /\ serving[c] = "unsubscribing"
  /\ \E s \in held[c] :
       /\ RemoveSubscriber(s, event[s])
       /\ held' = [held EXCEPT ![c] = @ \ {s}]
  /\ UNCHANGED <<topics, chans, closed, reader, sysVars, conn, serving, owner>>

EndReadLoop(c) ==
  /\ serving[c] = "unsubscribing"
  /\ held[c] = {}
  /\ serving' = [serving EXCEPT ![c] = "ended"]
  /\ UNCHANGED <<busVars, sysVars, conn, held, owner>>

ReadLoop(c) ==
  \/ StartReader(c) \/ RefuseSubscription(c)
  \/ StopReading(c) \/ CancelSubscription(c) \/ EndReadLoop(c)

-----------------------------------------------------------------------------
(* The goroutine of a subscription. *)

\* Mutant: the error is only logged.
IgnoreWriteError(s) ==
  /\ reader[s] = "event"
  /\ reader' = [reader EXCEPT ![s] = "select"]
  /\ UNCHANGED <<topics, subscribers, chans, closed, sysVars, wsVars>>

\* WriteJSON, and Close after an error other than ErrCloseSent, which a peer
\* that has closed the connection may cause.
Notify(s) ==
  /\ reader[s] = "event"
  /\ reader' = [reader EXCEPT ![s] = "select"]
  /\ conn' \in {[conn EXCEPT ![owner[s]] = state] :
                  state \in CASE conn[owner[s]] = "silent" -> {"closed"}
                              [] conn[owner[s]] = "gone" -> {"gone", "closed"}
                              [] OTHER -> {conn[owner[s]]}}
  /\ UNCHANGED <<topics, subscribers, chans, closed, sysVars, serving, held, owner>>

\* An event of which nothing is written: it is of another type or not of an
\* Ethereum transaction, no log matches, or, which ends the goroutine of a log
\* subscription, the response cannot be decoded.
SkipEvent(s) ==
  /\ reader[s] = "undecodable"
  /\ \E next \in {"select"} \cup (IF event[s] = "logs" THEN {"exit"} ELSE {}) :
       reader' = [reader EXCEPT ![s] = next]
  /\ UNCHANGED <<topics, subscribers, chans, closed, sysVars, wsVars>>

Reader(s) == Notify(s) \/ SkipEvent(s)

-----------------------------------------------------------------------------
\* The peer closes the connection, or vanishes.
LosePeer(c, state) ==
  /\ conn[c] \in {"open", "silent"} /\ state # conn[c]
  /\ conn' = [conn EXCEPT ![c] = state]
  /\ UNCHANGED <<busVars, sysVars, serving, held, owner>>

Next ==
  /\ ~panicked
  /\ \/ \E c \in Conns :
          \/ \E s \in Subs : (\E e \in Events : EthSubscribe(c, s, e)) \/ EthUnsubscribe(c, s)
          \/ ReadLoop(c)
          \/ \E state \in {"gone", "silent"} : LosePeer(c, state)
     \/ \E s \in Subs : Reader(s)
     \/ Goroutines /\ UNCHANGED wsVars

Spec == Init /\ [][Next]_vars

-----------------------------------------------------------------------------
TypeOK ==
  /\ SystemTypeOK
  /\ conn \in [Conns -> ConnStates]
  /\ serving \in [Conns -> Subs \cup {Reading, "unsubscribing", "ended"}]
  /\ held \in [Conns -> SUBSET Subs]
  /\ owner \in [Subs -> Conns \cup {NoConn}]

\* readLoop, "cancel all subscriptions when connection closed": every
\* subscriber on the bus is in the map of a connection that will cancel it,
\* or its eth_subscribe call is about to put it there.
SubscribersAreHeld ==
  \A e \in Events : \A s \in subscribers[e] :
    s \in held[owner[s]] \/ (serving[owner[s]] = s /\ call[s] = "subscribed")

\* A subscription that the client was told of gets the node's events: the
\* node sends its query, the event system's channel for it is the one that
\* the topic's publisher reads, the bus has its subscriber, and nothing closes
\* the topic, even when the subscription that opened it is cancelled.
SubscriptionIsFed ==
  /\ \A c \in Conns : \A s \in held[c] :
       LET e == event[s]
       IN /\ e \in nodeSubs
          /\ topicChans[e] # NoChan
          /\ topics[e] = topicChans[e]
          /\ s \in subscribers[e]
  /\ uninstalls = {} /\ closed = {} /\ errClosed = {} /\ ~panicked
  /\ \A i \in DOMAIN chans : chans[i].open

\* A connection whose peer is gone, or that a goroutine has closed after it
\* could not write to a silent peer, ends with its subscriptions cancelled,
\* also when it was lost while its readLoop waited for the event system; and a
\* goroutine that writes to a silent peer has the connection closed.
LostPeerIsDropped ==
  LET lost == {c \in Conns : conn[c] \in {"gone", "closed"}}
  IN /\ (lost # {}) ~> (\A c \in lost : serving[c] = "ended" /\ held[c] = {})
     /\ \A c \in Conns :
          (conn[c] = "silent" /\ \E s \in Subs : reader[s] = "event" /\ owner[s] = c)
          ~> (conn[c] = "closed")
=============================================================================
