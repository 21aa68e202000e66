----------------------------- MODULE EventSystem -----------------------------
(***************************************************************************)
(* The event system of the JSON-RPC filters and its event bus:             *)
(* rpc/namespaces/ethereum/eth/filters/filter_system.go, subscription.go   *)
(* and rpc/ethereum/pubsub/pubsub.go.                                      *)
(*                                                                         *)
(* Four kinds of goroutines meet here.  A caller of subscribe hands its    *)
(* subscription to eventLoop, which makes a channel for the topic and      *)
(* registers it with the bus; consumeEvents takes the events of the        *)
(* Tendermint client and sends each to the channel of its topic; the       *)
(* publishTopic goroutine of a channel passes them on to the subscribers;  *)
(* and the reader of a subscription takes them from its own channel.       *)
(*                                                                         *)
(* A section under one mutex is one step.  A send on a closed channel, a   *)
(* second close, and a write to a map another goroutine iterates over end  *)
(* the process: the first two always, the last by chance.                  *)
(***************************************************************************)
EXTENDS Integers, Sequences, FiniteSets

CONSTANTS
  Sub,       \* subscriptions, each made by one call of subscribe
  Topic,     \* Tendermint queries, one for each type of subscription
  TopicOf,   \* the query of a subscription
  MaxEvents  \* bound on the events Tendermint sends

ASSUME SubAssumption ==
  /\ IsFiniteSet(Sub) /\ Sub \subseteq Nat
  /\ Topic \subseteq {"headerEvents", "evmEvents", "txEvents"}
  /\ TopicOf \in [Sub -> Topic]
ASSUME EventAssumption == MaxEvents \in Nat

NoChan == 0
Chan == 1 .. Cardinality(Sub)   \* the channels eventLoop may make

VARIABLES
  topics,       \* the bus: topic -> the channel it was added with
  subscribers,  \* the bus: topic -> subscriptions with a channel in its map
  eventClosed,  \* subscriptions whose event channel the bus closed
  index,        \* subscriptions in the index of the event system
  topicChans,   \* topic -> channel consumeEvents sends on
  made,         \* channels made so far
  closed,       \* channels eventLoop closed
  publisher,    \* the publishTopic goroutine of each channel
  consumer,     \* the consumeEvents goroutine
  remote,       \* queries the Tendermint client is subscribed to
  call,         \* where the subscribe call of a subscription is
  leaving,      \* Unsubscribe goroutines waiting for eventLoop
  errClosed,    \* subscriptions whose error channel eventLoop closed
  sent,         \* events received from Tendermint
  reader,       \* the goroutine that reads a subscription
  held,         \* the event it is handling
  crash         \* why the process ended, "none" while it runs

busVars == <<topics, subscribers, eventClosed, publisher>>
loopVars == <<index, topicChans, made, closed, errClosed>>
readerVars == <<reader, held>>
eventVars == <<busVars, loopVars, consumer, remote, call, leaving, sent, readerVars,
               crash>>

running == crash = "none"
Crash(reason) == crash' = reason

(* The goroutine that publishes the events of a channel.                   *)
Publisher == [pc : {"none", "receiving", "publishing", "deleting", "done"},
              topic : Topic \cup {"none"}, event : 0 .. MaxEvents, batch : SUBSET Sub,
              shared : BOOLEAN]
noPublisher == [pc |-> "none", topic |-> "none", event |-> 0, batch |-> {},
                shared |-> FALSE]
waitingConsumer == [pc |-> "waiting", ch |-> NoChan, event |-> 0]

EventInit ==
  /\ topics = [t \in Topic |-> NoChan] /\ subscribers = [t \in Topic |-> {}]
  /\ eventClosed = {} /\ publisher = [c \in Chan |-> noPublisher]
  /\ index = {} /\ topicChans = [t \in Topic |-> NoChan]
  /\ made = 0 /\ closed = {} /\ errClosed = {}
  /\ consumer = waitingConsumer /\ remote = {} /\ sent = 0
  /\ call = [s \in Sub |-> "new"] /\ leaving = [s \in Sub |-> 0]
  /\ reader = [s \in Sub |-> "none"] /\ held = [s \in Sub |-> 0]
  /\ crash = "none"

-----------------------------------------------------------------------------
(* The bus.                                                                *)

(* A publisher with an event left for these subscriptions; with none, it   *)
(* receives again.                                                         *)
Publishing(p, event, batch) ==
  IF batch = {} THEN [noPublisher EXCEPT !.pc = "receiving", !.topic = p.topic]
  ELSE [p EXCEPT !.pc = "publishing", !.event = event, !.batch = batch]

(* The publishers that iterate over the map of a topic, which a write to   *)
(* the map would race with.                                                *)
iterating(t) == {c \in Chan : /\ publisher[c].pc = "publishing" /\ publisher[c].shared
                              /\ publisher[c].topic = t}

(* memEventBus.Subscribe, its second half: the subscription enters the     *)
(* map, and iterations under way may or may not come across it.            *)
AddSubscriber(s) ==
  LET t == TopicOf[s]
  IN /\ subscribers' = [subscribers EXCEPT ![t] = @ \cup {s}]
     /\ \E seen \in SUBSET iterating(t) :
          publisher' = [c \in Chan |->
            IF c \in seen THEN [publisher[c] EXCEPT !.batch = @ \cup {s}]
                          ELSE publisher[c]]
     /\ \/ UNCHANGED crash
        \/ iterating(t) # {} /\ Crash("concurrent map access")

(* The UnsubscribeFunc: the subscription leaves the map its topic has now. *)
(* An iteration does not come across it any more, unless it was there when *)
(* the subscription left: picked, but the send not yet tried.              *)
unsubscribe(s) ==
  LET t == TopicOf[s]
      picks == {c \in iterating(t) : /\ s \in publisher[c].batch
                                     /\ publisher[c].batch \subseteq subscribers[t]}
  IN /\ subscribers' = [subscribers EXCEPT ![t] = @ \ {s}]
     /\ \E picked \in SUBSET picks :
          publisher' = [c \in Chan |->
            LET rest == publisher[c].batch \ {s}
            IN IF c \in iterating(t) \ picked
               THEN Publishing(publisher[c], publisher[c].event, rest) ELSE publisher[c]]
     /\ \/ UNCHANGED crash
        \/ iterating(t) # {} /\ Crash("concurrent map access")

(* publishAllSubscribers: a send that does not wait for its reader.        *)
PublishOne(c, s) ==
  LET rest == publisher[c].batch \ {s}
  IN /\ running
     /\ publisher[c].pc = "publishing" /\ s \in publisher[c].batch
     /\ publisher' = [publisher EXCEPT ![c] = Publishing(@, @.event, rest)]
     /\ IF s \in eventClosed
        THEN Crash("send on closed event channel") /\ UNCHANGED readerVars
        ELSE /\ IF reader[s] = "waiting"
                THEN /\ reader' = [reader EXCEPT ![s] = "holding"]
                     /\ held' = [held EXCEPT ![s] = publisher[c].event]
                ELSE UNCHANGED readerVars
             /\ UNCHANGED crash
     /\ UNCHANGED <<topics, subscribers, eventClosed, loopVars, consumer, remote,
                    call, leaving, sent>>

(* closeAllSubscribers of the bus, once the channel is closed.  A map some *)
(* other publisher iterates over stays with that publisher only.           *)
CloseAllSubscribers(c) ==
  LET t == publisher[c].topic
  IN /\ running
     /\ publisher[c].pc = "receiving" /\ c \in closed
     /\ eventClosed' = eventClosed \cup subscribers[t]
     /\ subscribers' = [subscribers EXCEPT ![t] = {}]
     /\ publisher' = [d \in Chan |->
          IF d = c THEN [publisher[d] EXCEPT !.pc = "deleting"]
          ELSE IF d \in iterating(t) THEN [publisher[d] EXCEPT !.shared = FALSE]
          ELSE publisher[d]]
     /\ IF subscribers[t] \cap eventClosed # {} THEN Crash("second close")
                                                ELSE UNCHANGED crash
     /\ UNCHANGED <<topics, loopVars, consumer, remote, call, leaving, sent, readerVars>>

(* ... and the end of publishTopic: the topic goes, whoever added it.      *)
DeleteTopic(c) ==
  /\ running
  /\ publisher[c].pc = "deleting"
  /\ topics' = [topics EXCEPT ![publisher[c].topic] = NoChan]
  /\ publisher' = [publisher EXCEPT ![c].pc = "done"]
  /\ UNCHANGED <<subscribers, eventClosed, loopVars, consumer, remote, call, leaving,
                 sent, readerVars, crash>>

-----------------------------------------------------------------------------
(* subscribe, up to the channel of the subscription.                       *)

(* Either the bus has the topic, or the Tendermint client subscribes to    *)
(* it, or that fails.                                                      *)
StartSubscribe(s) ==
  LET t == TopicOf[s]
  IN /\ running
     /\ call[s] = "called"
     /\ \/ /\ topics[t] # NoChan
           /\ call' = [call EXCEPT ![s] = "joining"] /\ UNCHANGED remote
        \/ /\ topics[t] = NoChan
           /\ call' = [call EXCEPT ![s] = "installing"] /\ remote' = remote \cup {t}
        \/ /\ topics[t] = NoChan
           /\ call' = [call EXCEPT ![s] = "failed"] /\ UNCHANGED remote
     /\ UNCHANGED <<busVars, loopVars, consumer, leaving, sent, readerVars, crash>>

(* memEventBus.Subscribe, its first half.                                  *)
FindTopic(s) ==
  /\ running
  /\ call[s] = "joining"
  /\ call' = [call EXCEPT ![s] = IF topics[TopicOf[s]] = NoChan THEN "failed"
                                                                ELSE "adding"]
  /\ UNCHANGED <<busVars, loopVars, consumer, remote, leaving, sent, readerVars, crash>>

-----------------------------------------------------------------------------
(* eventLoop.                                                              *)

(* The install case.  AddTopic refuses a topic the bus has; the channel    *)
(* then has no publisher.                                                  *)
Install(s) ==
  LET t == TopicOf[s]
      ch == made + 1
  IN /\ running
     /\ call[s] = "installing"
     /\ call' = [call EXCEPT ![s] = "joining"]
     /\ index' = index \cup {s} /\ made' = ch
     /\ topicChans' = [topicChans EXCEPT ![t] = ch]
     /\ IF topics[t] = NoChan
        THEN /\ topics' = [topics EXCEPT ![t] = ch]
             /\ publisher' = [publisher EXCEPT
                  ![ch] = [noPublisher EXCEPT !.pc = "receiving", !.topic = t]]
        ELSE UNCHANGED <<topics, publisher>>
     /\ UNCHANGED <<subscribers, eventClosed, closed, errClosed, consumer, remote,
                    leaving, sent, readerVars, crash>>

(* Whether another subscription of the index uses the topic of s.          *)
channelInUse(s) == \E x \in index \ {s} : TopicOf[x] = TopicOf[s]

Uninstall_silent(s) ==   \* faulty variant: the error channel stays open
  LET t == TopicOf[s]
      ch == topicChans[t]
  IN /\ running
     /\ leaving[s] > 0
     /\ leaving' = [leaving EXCEPT ![s] = @ - 1]
     /\ index' = index \ {s}
     /\ remote' = IF channelInUse(s) THEN remote ELSE remote \ {t}
     /\ IF channelInUse(s) \/ ch = NoChan
        THEN UNCHANGED <<topics, topicChans, closed>>
        ELSE /\ topics' = [topics EXCEPT ![t] = NoChan]
             /\ closed' = closed \cup {ch}
             /\ topicChans' = [topicChans EXCEPT ![t] = NoChan]
     /\ UNCHANGED <<subscribers, eventClosed, publisher, made, consumer, call, sent,
                    readerVars, errClosed, crash>>

(* The uninstall case.  Unsubscribing from Tendermint may fail, which is   *)
(* only logged.                                                            *)
Uninstall(s) ==
  LET t == TopicOf[s]
      ch == topicChans[t]
  IN /\ running
     /\ leaving[s] > 0
     /\ leaving' = [leaving EXCEPT ![s] = @ - 1]
     /\ index' = index \ {s}
     /\ remote' \in IF channelInUse(s) THEN {remote} ELSE {remote, remote \ {t}}
     /\ IF channelInUse(s) \/ ch = NoChan
        THEN UNCHANGED <<topics, topicChans, closed>>
        ELSE /\ topics' = [topics EXCEPT ![t] = NoChan]
             /\ closed' = closed \cup {ch}
             /\ topicChans' = [topicChans EXCEPT ![t] = NoChan]
     /\ errClosed' = errClosed \cup {s}
     /\ IF s \in errClosed THEN Crash("second close") ELSE UNCHANGED crash
     /\ UNCHANGED <<subscribers, eventClosed, publisher, made, consumer, call, sent,
                    readerVars>>

-----------------------------------------------------------------------------
(* consumeEvents.                                                          *)

ReceiveEvent(t) ==
  /\ running
  /\ consumer.pc = "waiting" /\ t \in remote /\ sent < MaxEvents
  /\ sent' = sent + 1
  /\ consumer' = IF topicChans[t] = NoChan THEN consumer
                 ELSE [pc |-> "sending", ch |-> topicChans[t], event |-> sent + 1]
  /\ UNCHANGED <<busVars, loopVars, remote, call, leaving, readerVars, crash>>

(* The publisher takes the event and the map of its topic.                 *)
SendEvent ==
  LET c == consumer.ch
      batch == subscribers[publisher[c].topic]
  IN /\ running
     /\ consumer.pc = "sending" /\ c \notin closed
     /\ publisher[c].pc = "receiving"
     /\ consumer' = waitingConsumer
     /\ publisher' = [publisher EXCEPT
          ![c] = Publishing([@ EXCEPT !.shared = TRUE], consumer.event, batch)]
     /\ UNCHANGED <<topics, subscribers, eventClosed, loopVars, remote, call, leaving,
                    sent, readerVars, crash>>

(* A second went by without a publisher taking the event.                  *)
DropEvent ==
  /\ running
  /\ consumer.pc = "sending" /\ consumer.ch \notin closed
  /\ consumer' = waitingConsumer
  /\ UNCHANGED <<busVars, loopVars, remote, call, leaving, sent, readerVars, crash>>

SendClosed ==
  /\ running
  /\ consumer.pc = "sending" /\ consumer.ch \in closed
  /\ Crash("send on closed topic channel")
  /\ UNCHANGED <<busVars, loopVars, consumer, remote, call, leaving, sent, readerVars>>

EventStep ==
  \/ \E s \in Sub : Install(s) \/ Uninstall(s)
  \/ \E c \in Chan : CloseAllSubscribers(c) \/ DeleteTopic(c)
  \/ \E c \in Chan : \E s \in Sub : PublishOne(c, s)
  \/ \E t \in Topic : ReceiveEvent(t)
  \/ SendEvent \/ DropEvent \/ SendClosed

=============================================================================
