----------------------------- MODULE FilterAPI -----------------------------
(***************************************************************************)
(* PublicFilterAPI: the filters a client polls with eth_getFilterChanges,  *)
(* the goroutine that reads each one's channel, and timeoutLoop, around an *)
(* EventSystem of their own.  filtersMu is held by a call that creates a   *)
(* filter from its first to its last step, and otherwise for one step.     *)
(*                                                                         *)
(* Left out: what a filter has collected, the criteria of log filters, and *)
(* NewHeads, Logs and NewPendingTransactions, whose notifier an HTTP       *)
(* connection does not have.  An RPC that returns an error changes nothing *)
(* and is no step.                                                         *)
(***************************************************************************)
EXTENDS EventSystem, FiniteSets

CONSTANT RPCFilterCap

ASSUME FilterAssumption == RPCFilterCap \in Nat

Free == "free"

VARIABLES filters,   \* the ids of the filters
          expired,   \* those whose deadline timer has fired
          mu         \* the call that holds filtersMu

apiVars == <<filters, expired, mu>>
vars == <<busVars, sysVars, apiVars>>

Init ==
  /\ SystemInit
  /\ filters = {}
  /\ expired = {}
  /\ mu = Free

NewFilterUnlocked(s, e) ==
  /\ Cardinality(filters) < RPCFilterCap
  /\ Subscribe(s, e)
  /\ mu' = s
  /\ UNCHANGED <<filters, expired>>

\* NewFilter, NewBlockFilter and NewPendingTransactionFilter, up to subscribe.
NewFilter(s, e) ==
  /\ mu = Free
  /\ Cardinality(filters) < RPCFilterCap
  /\ Subscribe(s, e)
  /\ mu' = s
  /\ UNCHANGED <<filters, expired>>

\* The rest of them, after subscribe has returned.
StartFilter(s) ==
  /\ call[s] = "subscribed"
  /\ filters' = filters \cup {s}
  /\ reader' = [reader EXCEPT ![s] = "select"]
  /\ mu' = Free
  /\ Goto(s, "returned")
  /\ UNCHANGED <<topics, subscribers, chans, closed, event, index, topicChans,
                 uninstalls, loop, errClosed, consumer, received, nodeSubs, panicked,
                 expired>>

FailFilterLocked(s) ==
  /\ call[s] = "failed"
  /\ Goto(s, "returned")
  /\ UNCHANGED <<busVars, event, index, topicChans, uninstalls, loop, errClosed,
                 consumer, received, nodeSubs, panicked, apiVars>>

FailFilter(s) ==
  /\ call[s] = "failed"
  /\ mu' = Free
  /\ Goto(s, "returned")
  /\ UNCHANGED <<busVars, event, index, topicChans, uninstalls, loop, errClosed,
                 consumer, received, nodeSubs, panicked, filters, expired>>

UninstallFilter(s) ==
  /\ mu = Free
  /\ s \in filters
  /\ filters' = filters \ {s}
  /\ expired' = expired \ {s}
  /\ Unsubscribe({s})
  /\ UNCHANGED <<busVars, event, call, index, topicChans, loop, errClosed, consumer,
                 received, nodeSubs, panicked, mu>>

\* Polling rearms the deadline, also one that has fired.
GetFilterChanges(s) ==
  /\ mu = Free
  /\ s \in filters
  /\ expired' = expired \ {s}
  /\ UNCHANGED <<busVars, sysVars, filters, mu>>

DeadlinePasses(s) ==
  /\ s \in filters \ expired
  /\ expired' = expired \cup {s}
  /\ UNCHANGED <<busVars, sysVars, filters, mu>>

\* A tick of timeoutLoop.
Timeout ==
  /\ mu = Free
  /\ expired # {}
  /\ filters' = filters \ expired
  /\ expired' = {}
  /\ Unsubscribe(expired)
  /\ UNCHANGED <<busVars, event, call, index, topicChans, loop, errClosed, consumer,
                 received, nodeSubs, panicked, mu>>

-----------------------------------------------------------------------------
(* The goroutine of a filter: its select, and what it does next. *)

Becomes(s, pc) == reader' = [reader EXCEPT ![s] = pc]

SeeClosed(s) ==
  /\ reader[s] = "select"
  /\ s \in closed
  /\ Becomes(s, "delete")
  /\ UNCHANGED <<topics, subscribers, chans, closed, sysVars, apiVars>>

SeeUninstalledAgain(s) ==
  /\ reader[s] = "select"
  /\ s \in errClosed
  /\ Becomes(s, "deleteAgain")
  /\ UNCHANGED <<topics, subscribers, chans, closed, sysVars, apiVars>>

\* The err channel is closed; the reader of a pending transaction filter
\* deletes the filter and does not return.
SeeUninstalled(s) ==
  /\ reader[s] = "select"
  /\ s \in errClosed
  /\ Becomes(s, IF event[s] = "txs" THEN "deleteAgain" ELSE "delete")
  /\ UNCHANGED <<topics, subscribers, chans, closed, sysVars, apiVars>>

\* The event goes into the filter's list, if the filter is still there.
HandleEvent(s) ==
  /\ reader[s] = "event"
  /\ mu = Free
  /\ Becomes(s, "select")
  /\ UNCHANGED <<topics, subscribers, chans, closed, sysVars, apiVars>>

\* A log filter's goroutine gives up at a transaction it cannot decode.
HandleUndecodable(s) ==
  /\ reader[s] = "undecodable"
  /\ Becomes(s, IF event[s] = "logs" THEN "leave" ELSE "select")
  /\ UNCHANGED <<topics, subscribers, chans, closed, sysVars, apiVars>>

LeaveFilterBehind(s) ==
  /\ reader[s] \in {"delete", "deleteAgain"}
  /\ mu = Free
  /\ Becomes(s, IF reader[s] = "delete" THEN "leave" ELSE "select")
  /\ UNCHANGED <<topics, subscribers, chans, closed, sysVars, filters, expired, mu>>

DeleteFilter(s) ==
  /\ reader[s] \in {"delete", "deleteAgain"}
  /\ mu = Free
  /\ filters' = filters \ {s}
  /\ expired' = expired \ {s}
  /\ Becomes(s, IF reader[s] = "delete" THEN "leave" ELSE "select")
  /\ UNCHANGED <<topics, subscribers, chans, closed, sysVars, mu>>

\* The deferred cancelSubs.
Leave(s) ==
  /\ reader[s] = "leave"
  /\ RemoveSubscriber(s, event[s])
  /\ Becomes(s, "exit")
  /\ UNCHANGED <<topics, chans, closed, sysVars, apiVars>>

ReadLoop(s) ==
  \/ SeeClosed(s) \/ SeeUninstalled(s)
  \/ HandleEvent(s) \/ HandleUndecodable(s)
  \/ DeleteFilter(s) \/ Leave(s)

-----------------------------------------------------------------------------
Finish(s) == StartFilter(s) \/ FailFilter(s)

Next ==
  /\ ~panicked
  /\ \/ \E s \in Subs, e \in Events : NewFilter(s, e)
     \/ \E s \in Subs : \/ Finish(s)
                        \/ UninstallFilter(s)
                        \/ GetFilterChanges(s)
                        \/ DeadlinePasses(s)
                        \/ ReadLoop(s)
     \/ Timeout
     \/ Goroutines /\ UNCHANGED apiVars

Spec == Init /\ [][Next]_vars

-----------------------------------------------------------------------------
TypeOK ==
  /\ SystemTypeOK
  /\ filters \subseteq Subs /\ expired \subseteq filters
  /\ mu \in Subs \cup {Free}

\* There are never more filters than RPCFilterCap, although a call compares
\* the number first and adds its filter only after subscribe has returned; and
\* only filters have timers.
CapRespected == TypeOK /\ Cardinality(filters) <= RPCFilterCap

\* No channel is closed twice, which would panic: the err channel of a
\* subscription that waits to be uninstalled, the source channel of a topic,
\* and the channels of the subscribers that its publisher will close.
NothingClosedTwice ==
  /\ uninstalls \cap errClosed = {}
  /\ \A e \in Events : /\ topicChans[e] # NoChan => chans[topicChans[e]].open
                       /\ subscribers[e] \cap closed = {}

\* An installed subscription has a topic channel (the first expectation of
\* TestFilterSystem), whatever is uninstalled around it, and the bus has a
\* topic only while the event system can feed and close it.
TopicHasSource ==
  loop = Idle =>
    /\ \A s \in index : topicChans[event[s]] # NoChan
    /\ \A e \in Events : topics[e] \in {NoChan, topicChans[e]}

\* A filter that can be polled has a goroutine that fills it, unless a log
\* filter's met a transaction that it could not decode.
FilterHasReader ==
  \A s \in filters : reader[s] \in {"leave", "exit"} => event[s] = "logs"

\* eventLoop serves every request: the call that holds filtersMu, which waits
\* for it meanwhile, gives the lock back, and every subscription a goroutine
\* wants to uninstall is uninstalled.
RequestsAreServed ==
  /\ (mu # Free) ~> (mu = Free \/ panicked)
  /\ \A s \in Subs : (s \in uninstalls) ~> (s \in errClosed \/ panicked)

\* When a topic is closed, the goroutines of all its subscribers end; and the
\* goroutines of uninstalled filters end, for the two types whose goroutine
\* returns when it sees the err channel closed.
ReaderEnds ==
  /\ \A s \in Subs :
       (\E c \in DOMAIN chans : /\ ~chans[c].open /\ chans[c].pc = "receive"
                               /\ s \in subscribers[chans[c].name])
       ~> (reader[s] = "exit" \/ panicked)
  /\ (errClosed # {}) ~> (panicked \/ \A s \in errClosed : reader[s] = "exit" \/ event[s] = "txs")

\* filter_system.go:299, "gracefully handle lagging subscribers": a topic that
\* takes an event late, or not at all, costs the event only.
SendIsGraceful == ~panicked
=============================================================================
