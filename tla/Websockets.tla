----------------------------- MODULE Websockets -----------------------------
(***************************************************************************)
(* The websocket server of the JSON-RPC API over its event system:         *)
(* rpc/websockets.go.  readLoop reads the requests of one connection and   *)
(* keeps the unsubscribe functions of its subscriptions; every             *)
(* subscription has a goroutine that writes its events to the connection.  *)
(* The connections run side by side: no mutex orders their subscribes, as  *)
(* filtersMu does for the polling filters.                                 *)
(*                                                                         *)
(* The server never calls Subscription.Unsubscribe.  The uninstall case of *)
(* eventLoop, and what follows it, is not reached from here.               *)
(***************************************************************************)
EXTENDS EventSystem

CONSTANTS
  Conn,              \* websocket connections
  NoConn,            \* a subscription nobody asked for yet
  MaxNotifications   \* bound on the logs or transactions of one event

ASSUME ConnAssumption == NoConn \notin Conn /\ 0 \notin Sub
ASSUME NotificationAssumption == MaxNotifications \in Nat \ {0}

VARIABLES
  conn,       \* a connection: open, its peer gone, or closed by the server
  loop,       \* the readLoop goroutine of a connection
  serving,    \* the subscription readLoop is making, or 0
  subs,       \* readLoop: the subscriptions it has an unsubscribe function of
  owner,      \* the connection of a subscription
  todo,       \* notifications its goroutine has still to write for its event
  pushed,     \* history: the notifications a client received
  cutoff      \* history: the last event when a client cancelled it

connVars == <<conn, loop, serving, subs, owner>>
wsVars == <<connVars, todo, pushed, cutoff>>
serverVars == <<eventVars, wsVars>>

ServerInit ==
  /\ EventInit
  /\ conn = [c \in Conn |-> "open"] /\ loop = [c \in Conn |-> "reading"]
  /\ serving = [c \in Conn |-> 0] /\ subs = [c \in Conn |-> {}]
  /\ owner = [s \in Sub |-> NoConn] /\ todo = [s \in Sub |-> 0]
  /\ pushed = [s \in Sub |-> <<>>] /\ cutoff = [s \in Sub |-> MaxEvents]

(* The peer goes away.  What it sent before may still be read.             *)
Disconnect(c) ==
  /\ running
  /\ conn[c] = "open"
  /\ conn' = [conn EXCEPT ![c] = "gone"]
  /\ UNCHANGED <<eventVars, loop, serving, subs, owner, todo, pushed, cutoff>>

-----------------------------------------------------------------------------
(* readLoop.                                                               *)

(* An eth_subscribe with a fresh identifier: its parameters are refused    *)
(* with an error response, or the event system is asked.                   *)
ReadSubscribe(c, s) ==
  /\ running
  /\ loop[c] = "reading" /\ conn[c] # "closed"
  /\ call[s] = "new" /\ \A r \in Sub : r < s => call[r] # "new"
  /\ owner' = [owner EXCEPT ![s] = c]
  /\ \/ /\ call' = [call EXCEPT ![s] = "failed"]
        /\ UNCHANGED <<loop, serving>>
     \/ /\ call' = [call EXCEPT ![s] = "called"]
        /\ loop' = [loop EXCEPT ![c] = "subscribing"]
        /\ serving' = [serving EXCEPT ![c] = s]
  /\ UNCHANGED <<busVars, loopVars, consumer, remote, leaving, sent, readerVars, crash,
                 conn, subs, todo, pushed, cutoff>>

(* The steps of EventSystem.subscribe; an error is answered and the next   *)
(* request read.                                                           *)
AskEventSystem(c) ==
  /\ loop[c] = "subscribing"
  /\ StartSubscribe(serving[c]) \/ FindTopic(serving[c])
  /\ loop' = [loop EXCEPT ![c] = IF call'[serving[c]] = "failed" THEN "reading" ELSE @]
  /\ serving' = [serving EXCEPT ![c] = IF call'[@] = "failed" THEN 0 ELSE @]
  /\ UNCHANGED <<conn, subs, owner, todo, pushed, cutoff>>

(* The subscription has its channel, its goroutine starts, and readLoop    *)
(* keeps the unsubscribe function.  Whether the answer is written or not,  *)
(* the next message is read: the break only leaves the switch.             *)
Subscribed(c) ==
  LET s == serving[c]
  IN /\ running
     /\ loop[c] = "subscribing" /\ call[s] = "adding"
     /\ AddSubscriber(s)
     /\ call' = [call EXCEPT ![s] = "subscribed"]
     /\ reader' = [reader EXCEPT ![s] = "waiting"]
     /\ subs' = [subs EXCEPT ![c] = @ \cup {s}]
     /\ loop' = [loop EXCEPT ![c] = "reading"] /\ serving' = [serving EXCEPT ![c] = 0]
     /\ UNCHANGED <<topics, eventClosed, loopVars, consumer, remote, leaving, sent, held,
                    conn, owner, todo, pushed, cutoff>>

ReadUnsubscribe_lost(c, s) ==   \* faulty variant: unsubFn is not called
  /\ running
  /\ loop[c] = "reading" /\ conn[c] # "closed"
  /\ s \in subs[c]
  /\ subs' = [subs EXCEPT ![c] = @ \ {s}]
  /\ cutoff' = [cutoff EXCEPT ![s] = sent]
  /\ UNCHANGED <<eventVars, conn, loop, serving, owner, todo, pushed>>

(* An eth_unsubscribe of one of its subscriptions, and its answer.         *)
ReadUnsubscribe(c, s) ==
  /\ running
  /\ loop[c] = "reading" /\ conn[c] # "closed"
  /\ s \in subs[c]
  /\ unsubscribe(s)
  /\ subs' = [subs EXCEPT ![c] = @ \ {s}]
  /\ cutoff' = [cutoff EXCEPT ![s] = sent]
  /\ UNCHANGED <<topics, eventClosed, loopVars, consumer, remote, call, leaving, sent,
                 readerVars, conn, loop, serving, owner, todo, pushed>>

ReadFails_early(c) ==   \* faulty variant: the deferred function is missing
  /\ running
  /\ loop[c] = "reading" /\ conn[c] # "open"
  /\ conn' = [conn EXCEPT ![c] = "closed"] /\ loop' = [loop EXCEPT ![c] = "ended"]
  /\ UNCHANGED <<eventVars, serving, subs, owner, todo, pushed, cutoff>>

ReadFails_ignored(c) ==   \* faulty variant: the loop reads on
  /\ running
  /\ loop[c] = "reading" /\ conn[c] # "open"
  /\ conn' = [conn EXCEPT ![c] = "closed"]
  /\ UNCHANGED <<eventVars, loop, serving, subs, owner, todo, pushed, cutoff>>

(* ReadMessage fails: the loop closes the connection and returns.          *)
ReadFails(c) ==
  /\ running
  /\ loop[c] = "reading" /\ conn[c] # "open"
  /\ conn' = [conn EXCEPT ![c] = "closed"] /\ loop' = [loop EXCEPT ![c] = "cancelling"]
  /\ UNCHANGED <<eventVars, serving, subs, owner, todo, pushed, cutoff>>

(* The deferred function: "cancel all subscriptions when connection        *)
(* closed", in the order of the map.                                       *)
CancelOne(c, s) ==
  /\ running
  /\ loop[c] = "cancelling" /\ s \in subs[c]
  /\ unsubscribe(s)
  /\ subs' = [subs EXCEPT ![c] = @ \ {s}]
  /\ UNCHANGED <<topics, eventClosed, loopVars, consumer, remote, call, leaving, sent,
                 readerVars, conn, loop, serving, owner, todo, pushed, cutoff>>

CancelDone(c) ==
  /\ running
  /\ loop[c] = "cancelling" /\ subs[c] = {}
  /\ loop' = [loop EXCEPT ![c] = "ended"]
  /\ UNCHANGED <<eventVars, conn, serving, subs, owner, todo, pushed, cutoff>>

-----------------------------------------------------------------------------
(* The goroutine of a subscription: subscribeNewHeads, subscribeLogs and   *)
(* subscribePendingTransactions, by its topic.                             *)

(* A header is one notification; a transaction has one for each log that   *)
(* matches, or one for each Ethereum message in it.                        *)
notifications(s) ==
  IF TopicOf[s] = "headerEvents" THEN {1} ELSE 0 .. MaxNotifications

TakeEvent(s) ==
  /\ running
  /\ reader[s] = "holding"
  /\ \E n \in notifications(s) :
       /\ todo' = [todo EXCEPT ![s] = n]
       /\ reader' = [reader EXCEPT ![s] = IF n = 0 THEN "waiting" ELSE "writing"]
       /\ held' = [held EXCEPT ![s] = IF n = 0 THEN 0 ELSE @]
  /\ UNCHANGED <<busVars, loopVars, consumer, remote, call, leaving, sent, crash,
                 connVars, pushed, cutoff>>

(* A response that does not decode ends the goroutine of a log             *)
(* subscription; the subscription stays with the bus.                      *)
LogsUndecoded(s) ==
  /\ running
  /\ reader[s] = "holding" /\ TopicOf[s] = "evmEvents"
  /\ reader' = [reader EXCEPT ![s] = "done"] /\ held' = [held EXCEPT ![s] = 0]
  /\ UNCHANGED <<busVars, loopVars, consumer, remote, call, leaving, sent, crash, wsVars>>

WriteNotification_again(s) ==   \* faulty variant: the notification stays to be written
  LET c == owner[s]
  IN /\ running
     /\ reader[s] = "writing" /\ conn[c] = "open" /\ Len(pushed[s]) < 2
     /\ pushed' = [pushed EXCEPT ![s] = Append(@, <<held[s], todo[s]>>)]
     /\ UNCHANGED <<eventVars, connVars, todo, cutoff>>

(* One WriteJSON.  To a peer that is gone it may still succeed, for        *)
(* nobody; when it fails the server closes the connection, unless a close  *)
(* message was sent, and goes on with the next notification.               *)
WriteNotification(s) ==
  LET c == owner[s]
      last == todo[s] = 1
  IN /\ running
     /\ reader[s] = "writing"
     /\ IF conn[c] = "open"
        THEN /\ pushed' = [pushed EXCEPT ![s] = Append(@, <<held[s], todo[s]>>)]
             /\ UNCHANGED conn
        ELSE /\ conn' \in {conn, [conn EXCEPT ![c] = "closed"]}
             /\ UNCHANGED pushed
     /\ todo' = [todo EXCEPT ![s] = @ - 1]
     /\ reader' = [reader EXCEPT ![s] = IF last THEN "waiting" ELSE @]
     /\ held' = [held EXCEPT ![s] = IF last THEN 0 ELSE @]
     /\ UNCHANGED <<busVars, loopVars, consumer, remote, call, leaving, sent, crash,
                    loop, serving, subs, owner, cutoff>>

-----------------------------------------------------------------------------
(* The steps of the event system the websocket server reaches.             *)
InstallStep == (\E s \in Sub : Install(s)) /\ UNCHANGED wsVars
PublishStep(ch) == (\E s \in Sub : PublishOne(ch, s)) /\ UNCHANGED wsVars
ConsumeStep == (SendEvent \/ DropEvent) /\ UNCHANGED wsVars

ReadLoopStep(c) ==
  \/ AskEventSystem(c) \/ Subscribed(c) \/ ReadFails(c) \/ CancelDone(c)
  \/ \E s \in Sub : CancelOne(c, s)

ServerNext ==
  \/ InstallStep \/ ConsumeStep
  \/ \E ch \in Chan : PublishStep(ch)
  \/ \E t \in Topic : ReceiveEvent(t) /\ UNCHANGED wsVars
  \/ \E c \in Conn : \/ Disconnect(c) \/ ReadLoopStep(c)
                     \/ \E s \in Sub : ReadSubscribe(c, s) \/ ReadUnsubscribe(c, s)
  \/ \E s \in Sub : TakeEvent(s) \/ LogsUndecoded(s) \/ WriteNotification(s)

(* The readLoop of a connection and eventLoop go on when they can; nothing *)
(* is asked of clients, Tendermint and the other goroutines, which they do *)
(* not wait for.                                                           *)
ServerFairness == WF_serverVars(InstallStep) /\ \A c \in Conn : WF_serverVars(ReadLoopStep(c))

ServerSpec == ServerInit /\ [][ServerNext]_serverVars /\ ServerFairness

-----------------------------------------------------------------------------
(* The variables have their types, and no channel a goroutine of the       *)
(* server reads is ever closed.                                            *)
ServerTypeOK ==
  /\ conn \in [Conn -> {"open", "gone", "closed"}]
  /\ loop \in [Conn -> {"reading", "subscribing", "cancelling", "ended"}]
  /\ serving \in [Conn -> Sub \cup {0}] /\ subs \in [Conn -> SUBSET Sub]
  /\ owner \in [Sub -> Conn \cup {NoConn}] /\ todo \in [Sub -> 0 .. MaxNotifications]
  /\ reader \in [Sub -> {"none", "waiting", "holding", "writing", "done"}]
  /\ call \in [Sub -> {"new", "called", "installing", "joining", "adding",
                       "subscribed", "failed"}]
  /\ pushed \in [Sub -> Seq((1 .. MaxEvents) \X (1 .. MaxNotifications))]
  /\ cutoff \in [Sub -> 0 .. MaxEvents]
  /\ eventClosed = {} /\ errClosed = {} /\ closed = {} /\ subscribers \in [Topic -> SUBSET Sub]
  /\ crash \in {"none", "concurrent map access"}

(* A client receives the notifications of a subscription in the order of   *)
(* the events and none of them twice, whatever connections subscribe to    *)
(* the topic meanwhile.  CHANGELOG.md: "Fix websocket server push          *)
(* duplicated messages to subscriber".                                     *)
PushedInOrder ==
  \A s \in Sub : \A i, j \in DOMAIN pushed[s] :
    i < j => LET a == pushed[s][i]
                 b == pushed[s][j]
             IN a[1] < b[1] \/ (a[1] = b[1] /\ a[2] > b[2])

(* Every subscription the bus has is one that the readLoop of its          *)
(* connection will cancel: no break, failed write or closed connection     *)
(* between subscribe and the end of readLoop leaves one behind.            *)
NoOrphanSubscription ==
  \A t \in Topic : \A s \in subscribers[t] :
    owner[s] \in Conn /\ s \in subs[owner[s]] /\ loop[owner[s]] # "ended"

(* From eth_unsubscribe on, no event the server receives is notified; one  *)
(* it had received, which a publisher or the goroutine of the subscription *)
(* is at, may still be.                                                    *)
NothingAfterUnsubscribe ==
  \A s \in Sub : \A i \in DOMAIN pushed[s] : pushed[s][i][1] <= cutoff[s]

(* A connection whose peer is gone, or that a failed write closed, leaves  *)
(* the bus: readLoop ends and its subscriptions are cancelled, also when   *)
(* it is in the middle of a subscribe.                                     *)
PeerDropped == \A c \in Conn : (conn[c] # "open") ~> (loop[c] = "ended" \/ ~running)

(* EventSystem.subscribe: "The subscription creates a unidirectional       *)
(* receive event channel to receive the ResultEvent".  The channel         *)
(* consumeEvents sends the events of a topic to is one with a publisher.   *)
TopicPublished ==
  \A t \in Topic : topicChans[t] # NoChan => publisher[topicChans[t]].pc # "none"

=============================================================================
