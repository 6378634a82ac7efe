----------------------------- MODULE MCClients -----------------------------
(***************************************************************************)
(* The two servers that clients follow events with, each with an           *)
(* EventSystem of its own: a behaviour is of one of them.  Subscriptions   *)
(* and connections differ by name only, so one of each is taken to be the  *)
(* first.  The node sends events of one query, of which all subscriptions  *)
(* of connections are.                                                     *)
(***************************************************************************)
EXTENDS FilterAPI

CONSTANTS Conns, NoConn, FirstSub, FirstConn, SentEvent

VARIABLES conn, serving, held, owner, server

W == INSTANCE WsServer

http == server = "http"
ws == server = "ws"

ClientInit == Init /\ W!Init /\ server \in {"http", "ws"}

InScope ==
  /\ \A s \in Subs : call'[s] # "new" => call'[FirstSub] # "new"
  /\ received' > received => consumer'.chan = topicChans[SentEvent]
  /\ ws => /\ owner'[FirstSub] \in {NoConn, FirstConn}
           /\ \A s \in Subs : event'[s] \in {NoEvent, SentEvent}

ClientNext ==
  /\ \/ http /\ Next /\ UNCHANGED <<conn, serving, held, owner>>
     \/ ws /\ W!Next /\ UNCHANGED apiVars
  /\ UNCHANGED server
  /\ InScope

wsVars == <<conn, serving, held, owner>>
allVars == <<vars, wsVars, server>>

\* What the callers of subscribe, the publishers, and the goroutines of
\* connections do when they can run.  A behaviour has finitely many such
\* steps, so fairness to each kind is fairness to each goroutine.
CallStep ==
  \/ \E s \in Subs : SubscribeStep(s) /\ UNCHANGED <<apiVars, wsVars, server>>
  \/ http /\ \E s \in Subs : Finish(s) /\ UNCHANGED <<wsVars, server>>
  \/ ws /\ \E c \in Conns : W!ReadLoop(c) /\ UNCHANGED <<apiVars, server>>

PublishStep ==
  \/ \E c \in DOMAIN chans : PublishTopic(c) /\ UNCHANGED <<sysVars, apiVars, wsVars, server>>
  \/ ws /\ \E s \in Subs : W!Reader(s) /\ UNCHANGED <<apiVars, server>>

\* Every goroutine that can run does, sooner or later, and the select of a
\* filter's goroutine, which chooses at random, does not pass over the closed
\* topic forever.  What clients and peers do, when a deadline passes and what
\* the node sends is not up to the scheduler.
Fairness ==
  /\ WF_allVars(~panicked /\ CallStep)
  /\ WF_allVars(~panicked /\ PublishStep)
  /\ WF_allVars(~panicked /\ EventLoop /\ UNCHANGED <<apiVars, wsVars, server>>)
  /\ \A s \in Subs :
       /\ WF_vars(http /\ ~panicked /\ ReadLoop(s))
       /\ SF_vars(http /\ ~panicked /\ SeeClosed(s))

ClientSpec == ClientInit /\ [][ClientNext]_allVars /\ Fairness

(* readLoop, "cancel all subscriptions when connection closed": every      *)
(* subscriber on the bus is in the map of a connection that will cancel    *)
(* it, or is about to be put there; and the server's state is well typed.  *)
SubscribersAreHeld == ws => W!TypeOK /\ W!SubscribersAreHeld

(* subscribe and eventLoop: the subscriptions that connections were told   *)
(* of get the node's events, and no cancelled one closes their topic.      *)
SubscriptionIsFed == ws => W!SubscriptionIsFed

(* readLoop and the writers' Close: lost connections end with their        *)
(* subscriptions cancelled, also those whose peer has vanished.            *)
LostPeerIsDropped == W!LostPeerIsDropped
=============================================================================
