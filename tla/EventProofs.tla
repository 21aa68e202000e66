----------------------------- MODULE EventProofs -----------------------------
(***************************************************************************)
(* Theorems about the event system and the websocket server that uses it,  *)
(* for every set of subscriptions, topics and connections and any number   *)
(* of events.                                                              *)
(*                                                                         *)
(* They rest on EventInv, what the steps of the event system keep whoever  *)
(* uses it: an event has one publisher, and nobody but consumeEvents has   *)
(* the newest one while it waits to be sent.  FilterProofs uses it too.    *)
(***************************************************************************)
EXTENDS Websockets, TLAPS

(* Zenon is tried first, the SMT solver on what it leaves, then both again *)
(* with more time.                                                         *)
USE ZenonT(5), SMTT(20), Z3T(20), ZenonT(30), SMTT(30)

-----------------------------------------------------------------------------
(* The invariant of the event system.                                      *)

CallState == {"new", "called", "installing", "joining", "adding", "subscribed", "failed"}
ReaderState == {"none", "waiting", "holding", "writing", "ended", "erred", "returning", "done"}

(* The last event that consumeEvents is done with.                         *)
Past == IF consumer.pc = "sending" THEN sent - 1 ELSE sent

EventTypes ==
  /\ topics \in [Topic -> Nat] /\ topicChans \in [Topic -> Nat] /\ made \in Nat
  /\ subscribers \in [Topic -> SUBSET Sub] /\ remote \subseteq Topic
  /\ publisher \in [Chan -> Publisher]
  /\ consumer \in [pc : {"waiting", "sending"}, ch : Nat, event : 0 .. MaxEvents]
  /\ sent \in 0 .. MaxEvents /\ call \in [Sub -> CallState]
  /\ reader \in [Sub -> ReaderState] /\ held \in [Sub -> 0 .. MaxEvents]

(* The event consumeEvents is sending is the last one received; the others *)
(* hold earlier ones.                                                      *)
EventsPast ==
  /\ consumer.pc = "sending" => consumer.event = sent /\ sent > 0
  /\ \A c \in Chan : publisher[c].event <= Past
  /\ \A s \in Sub : held[s] <= Past

(* A publisher with an event is publishing it, and no other one has it.    *)
PublishersApart ==
  /\ \A c \in Chan :
       IF publisher[c].pc = "publishing" THEN publisher[c].event > 0
                                         ELSE publisher[c].batch = {}
  /\ \A c, d \in Chan :
       publisher[c].pc = "publishing" /\ publisher[d].pc = "publishing" /\ c # d
         => publisher[c].event # publisher[d].event

(* The bus and the publishers know subscriptions of their topic only, and  *)
(* only once subscribe returned.                                           *)
Registered ==
  /\ \A c \in Chan : publisher[c].pc # "none" => publisher[c].topic \in Topic
  /\ \A t \in Topic : \A s \in subscribers[t] : TopicOf[s] = t /\ call[s] = "subscribed"
  /\ \A c \in Chan : \A s \in publisher[c].batch :
       TopicOf[s] = publisher[c].topic /\ call[s] = "subscribed"
  /\ \A s \in Sub : call[s] # "subscribed" => reader[s] = "none" /\ held[s] = 0

EventInv == EventTypes /\ EventsPast /\ PublishersApart /\ Registered

-----------------------------------------------------------------------------
(* The invariant of the websocket server.                                  *)

(* Whose subscriptions the bus has, and what readLoop is at.               *)
Owned ==
  /\ \A t \in Topic : \A s \in subscribers[t] : owner[s] \in Conn /\ s \in subs[owner[s]]
  /\ \A c \in Conn : \A s \in subs[c] :
       owner[s] = c /\ call[s] = "subscribed" /\ cutoff[s] = MaxEvents
  /\ \A c \in Conn : loop[c] = "ended" => subs[c] = {}
  /\ \A c \in Conn : loop[c] = "subscribing" =>
       /\ serving[c] \in Sub /\ owner[serving[c]] = c
       /\ call[serving[c]] \in {"called", "installing", "joining", "adding"}

(* A topic has one publisher.                                              *)
OnePublisher ==
  \A c \in Chan : publisher[c].pc # "none" => topics[publisher[c].topic] = c

Older(seq, e) == \A i \in DOMAIN seq : seq[i][1] < e
Precedes(a, b) == a[1] < b[1] \/ (a[1] = b[1] /\ a[2] > b[2])

(* What the goroutine of a subscription holds is newer than what it wrote, *)
(* what a publisher has for it newer than that, and nothing is newer than  *)
(* the eth_unsubscribe.                                                    *)
Ahead ==
  \A s \in Sub :
    /\ held[s] <= cutoff[s]
    /\ reader[s] \in {"holding", "writing"} => held[s] > 0
    /\ reader[s] = "holding" => Older(pushed[s], held[s])
    /\ reader[s] = "writing" =>
         todo[s] > 0 /\ \A i \in DOMAIN pushed[s] : Precedes(pushed[s][i], <<held[s], todo[s]>>)
    /\ \A c \in Chan : s \in publisher[c].batch =>
         /\ held[s] < publisher[c].event /\ Older(pushed[s], publisher[c].event)
         /\ publisher[c].event <= cutoff[s]

Pushed ==
  \A s \in Sub :
    /\ call[s] # "subscribed" => pushed[s] = <<>> /\ cutoff[s] = MaxEvents
    /\ \A i \in DOMAIN pushed[s] : pushed[s][i][1] <= Past /\ pushed[s][i][1] <= cutoff[s]

ServerInv ==
  /\ EventInv /\ ServerTypeOK /\ Owned /\ OnePublisher /\ Ahead /\ Pushed /\ PushedInOrder

-----------------------------------------------------------------------------
(* Numbers.                                                                *)

(* What is at most an event is below the events after it.                  *)
LEMMA LessThan ==
  ASSUME NEW a \in Int, NEW b \in Int, NEW e \in Int, a <= b, b < e
  PROVE  a < e
OBVIOUS

(* A goroutine that has written a notification of event h holds nothing    *)
(* when it was the last one, and h otherwise.                              *)
LEMMA HeldOrNothing ==
  ASSUME NEW h \in Int, h > 0, NEW next \in {0, h}
  PROVE  next \in Int /\ next <= h
OBVIOUS

(* ... which is at most what h was at most.                                *)
LEMMA AtMost ==
  ASSUME NEW a \in Int, NEW b \in Int, NEW e \in Int, a <= b, b <= e
  PROVE  a <= e
OBVIOUS

(* After one of several notifications there are more.                      *)
LEMMA MoreToWrite ==
  ASSUME NEW t \in Int, t > 0, t # 1
  PROVE  t - 1 > 0
OBVIOUS

(* What precedes the notification being written, and that notification,    *)
(* precede the next one of the same event.                                 *)
LEMMA WrittenPrecedes ==
  ASSUME NEW a, a[1] \in Int, a[2] \in Int, NEW n, NEW h \in Int, NEW t \in Int,
         n[1] = h, n[2] = t, a = n \/ Precedes(a, n)
  PROVE  a[1] <= h /\ Precedes(a, <<h, t - 1>>)
BY DEF Precedes

(* The events are numbers.                                                 *)
LEMMA EventNumbers ==
  ASSUME EventInv
  PROVE  \A c \in Chan : publisher[c].event \in Int
<1>1. \A c \in Chan : publisher[c] \in Publisher
  BY DEF EventInv, EventTypes
<1> QED BY <1>1 DEF Publisher

LEMMA PastNumber ==
  ASSUME EventInv
  PROVE  Past \in Int
BY DEF EventInv, EventTypes, Past

-----------------------------------------------------------------------------
(* The steps of the event system keep EventInv.                            *)

(* Publishing gives a publisher that has the event for the subscriptions   *)
(* left, or, with none left, waits for the next one.                       *)
LEMMA PublishingFields ==
  ASSUME NEW p \in Publisher, NEW e \in 0 .. MaxEvents, NEW B \in SUBSET Sub
  PROVE  LET q == Publishing(p, e, B)
         IN /\ q \in Publisher /\ q.topic = p.topic /\ q.batch = B
            /\ B = {} => q.pc = "receiving" /\ q.event = 0
            /\ B # {} => q.pc = "publishing" /\ q.event = e
<1>1. CASE B = {}
  <2> DEFINE r == [pc |-> "receiving", topic |-> p.topic, event |-> 0, batch |-> {},
                   shared |-> FALSE]
  <2>1. Publishing(p, e, B) = r
    BY <1>1, ZenonT(30) DEF Publishing, noPublisher
  <2>2. 0 \in 0 .. MaxEvents /\ p.topic \in Topic \cup {"none"}
    BY EventAssumption DEF Publisher
  <2>3. r \in Publisher
    BY <2>2 DEF Publisher
  <2>4. r.pc = "receiving" /\ r.topic = p.topic /\ r.event = 0 /\ r.batch = {}
    OBVIOUS
  <2> HIDE DEF r
  <2> QED BY <1>1, <2>1, <2>3, <2>4
<1>2. CASE B # {}
  BY <1>2 DEF Publishing, Publisher
<1> QED BY <1>1, <1>2

(* What memEventBus.Subscribe does to the publishers: an iteration of the  *)
(* topic may come across the subscription.                                 *)
LEMMA AddSubscriberPublishers ==
  ASSUME EventInv, NEW s \in Sub, AddSubscriber(s)
  PROVE  /\ publisher' \in [Chan -> Publisher]
         /\ \A c \in Chan :
              /\ publisher'[c].pc = publisher[c].pc /\ publisher'[c].topic = publisher[c].topic
              /\ publisher'[c].event = publisher[c].event
              /\ \/ publisher'[c].batch = publisher[c].batch
                 \/ /\ publisher'[c].batch = publisher[c].batch \cup {s}
                    /\ publisher[c].pc = "publishing" /\ publisher[c].topic = TopicOf[s]
<1>1. PICK seen \in SUBSET iterating(TopicOf[s]) :
        publisher' = [c \in Chan |-> IF c \in seen
                                     THEN [publisher[c] EXCEPT !.batch = @ \cup {s}]
                                     ELSE publisher[c]]
  BY ZenonT(30) DEF AddSubscriber
<1>2. \A c \in Chan :
        /\ publisher[c] \in Publisher /\ publisher'[c] \in Publisher
        /\ publisher'[c].pc = publisher[c].pc /\ publisher'[c].topic = publisher[c].topic
        /\ publisher'[c].event = publisher[c].event
        /\ \/ publisher'[c].batch = publisher[c].batch
           \/ /\ publisher'[c].batch = publisher[c].batch \cup {s}
              /\ publisher[c].pc = "publishing" /\ publisher[c].topic = TopicOf[s]
  BY <1>1 DEF EventInv, EventTypes, Publisher, iterating
<1> QED BY <1>1, <1>2

(* memEventBus.Subscribe and the start of the reader keep EventInv.        *)
LEMMA AddSubscriberKeeps ==
  ASSUME EventInv, NEW s \in Sub, call[s] = "adding", AddSubscriber(s),
         call' = [call EXCEPT ![s] = "subscribed"],
         reader' = [reader EXCEPT ![s] = "waiting"],
         UNCHANGED <<topics, topicChans, made, remote, consumer, sent, held>>
  PROVE  EventInv'
<1>1. /\ TopicOf[s] \in Topic
      /\ subscribers' = [subscribers EXCEPT ![TopicOf[s]] = @ \cup {s}]
  BY SubAssumption, ZenonT(30) DEF AddSubscriber
<1>2. EventTypes'
  BY <1>1, AddSubscriberPublishers DEF EventInv, EventTypes, CallState, ReaderState
<1>3. EventsPast'
  BY AddSubscriberPublishers DEF EventInv, EventsPast, Past
<1>4. PublishersApart'
  BY AddSubscriberPublishers DEF EventInv, PublishersApart
<1>5. Registered'
  <2>1. Registered /\ subscribers \in [Topic -> SUBSET Sub] /\ call \in [Sub -> CallState]
    BY DEF EventInv, EventTypes
  <2> QED BY <1>1, <2>1, AddSubscriberPublishers DEF Registered, CallState
<1> QED BY <1>2, <1>3, <1>4, <1>5 DEF EventInv

(* What the UnsubscribeFunc does to the publishers: an iteration of the    *)
(* topic may lose the subscription, and goes on or ends.                   *)
LEMMA UnsubscribePublishers ==
  ASSUME EventInv, NEW s \in Sub, unsubscribe(s)
  PROVE  /\ publisher' \in [Chan -> Publisher]
         /\ \A c \in Chan :
              \/ publisher'[c] = publisher[c]
              \/ /\ publisher'[c] = Publishing(publisher[c], publisher[c].event,
                                               publisher[c].batch \ {s})
                 /\ publisher[c].pc = "publishing"
         /\ \A c \in Chan :
              /\ publisher'[c].topic = publisher[c].topic
              /\ publisher'[c].pc = "none" <=> publisher[c].pc = "none"
              /\ publisher'[c].batch \subseteq publisher[c].batch
              /\ publisher'[c].event <= publisher[c].event
              /\ publisher'[c].pc = "publishing" =>
                   publisher[c].pc = "publishing" /\ publisher'[c].event = publisher[c].event
              /\ publisher'[c].pc # "publishing" /\ publisher[c].batch = {}
                   => publisher'[c].batch = {}
              /\ publisher'[c].pc # "publishing" /\ publisher[c].pc = "publishing"
                   => publisher'[c].batch = {}
<1>1. PICK picked :
        publisher' = [c \in Chan |->
          IF c \in iterating(TopicOf[s]) \ picked
          THEN Publishing(publisher[c], publisher[c].event, publisher[c].batch \ {s})
          ELSE publisher[c]]
  BY ZenonT(30) DEF unsubscribe
<1>2. \A c \in Chan :
        \/ publisher'[c] = publisher[c]
        \/ /\ publisher'[c] = Publishing(publisher[c], publisher[c].event,
                                         publisher[c].batch \ {s})
           /\ publisher[c].pc = "publishing"
  BY <1>1 DEF iterating
<1>3. ASSUME NEW c \in Chan
      PROVE  /\ publisher[c] \in Publisher /\ publisher[c].event \in 0 .. MaxEvents
             /\ publisher[c].batch \ {s} \in SUBSET Sub
  BY DEF EventInv, EventTypes, Publisher
<1>4. ASSUME NEW c \in Chan
      PROVE  LET q == Publishing(publisher[c], publisher[c].event, publisher[c].batch \ {s})
             IN /\ q \in Publisher /\ q.topic = publisher[c].topic
                /\ q.batch = publisher[c].batch \ {s}
                /\ q.batch = {} => q.pc = "receiving" /\ q.event = 0
                /\ q.batch # {} => q.pc = "publishing" /\ q.event = publisher[c].event
  BY <1>3, PublishingFields
<1>5. publisher' \in [Chan -> Publisher]
  BY <1>1, <1>2, <1>3, <1>4
<1>6. ASSUME NEW c \in Chan
      PROVE  /\ publisher'[c].topic = publisher[c].topic
             /\ publisher'[c].pc = "none" <=> publisher[c].pc = "none"
             /\ publisher'[c].batch \subseteq publisher[c].batch
             /\ publisher'[c].event <= publisher[c].event
             /\ publisher'[c].pc = "publishing" =>
                  publisher[c].pc = "publishing" /\ publisher'[c].event = publisher[c].event
             /\ publisher'[c].pc # "publishing" /\ publisher[c].batch = {}
                  => publisher'[c].batch = {}
             /\ publisher'[c].pc # "publishing" /\ publisher[c].pc = "publishing"
                  => publisher'[c].batch = {}
  <2>1. CASE publisher'[c] = publisher[c]
    BY <2>1, <1>3 DEF EventInv, PublishersApart
  <2>2. CASE publisher'[c] # publisher[c]
    <3> DEFINE q == Publishing(publisher[c], publisher[c].event, publisher[c].batch \ {s})
    <3>1. publisher'[c] = q /\ publisher[c].pc = "publishing"
      BY <2>2, <1>2
    <3>2. /\ q.topic = publisher[c].topic /\ q.batch \subseteq publisher[c].batch
          /\ q.pc # "none" /\ (q.pc # "publishing" => q.batch = {})
          /\ q.pc = "publishing" => q.event = publisher[c].event
      BY <1>4
    <3>3. q.event \in {0, publisher[c].event}
      BY <1>4
    <3> HIDE DEF q
    <3> QED BY <1>3, <3>1, <3>2, <3>3
  <2> QED BY <2>1, <2>2
<1> QED BY <1>2, <1>5, <1>6

(* The UnsubscribeFunc keeps EventInv.                                     *)
LEMMA UnsubscribeKeeps ==
  ASSUME EventInv, NEW s \in Sub, unsubscribe(s),
         \/ UNCHANGED reader
         \/ reader[s] # "none" /\ reader' = [reader EXCEPT ![s] = "done"],
         UNCHANGED <<topics, topicChans, made, remote, consumer, sent, held, call>>
  PROVE  EventInv'
<1>1. /\ TopicOf[s] \in Topic
      /\ subscribers' = [subscribers EXCEPT ![TopicOf[s]] = @ \ {s}]
  BY SubAssumption DEF unsubscribe
<1>2. reader' \in [Sub -> ReaderState] /\ \A r \in Sub : reader[r] = "none" => reader'[r] = "none"
  BY DEF EventInv, EventTypes, ReaderState
<1>3. EventTypes'
  BY <1>1, <1>2, UnsubscribePublishers DEF EventInv, EventTypes
<1>4. EventsPast'
  <2>1. Past' = Past /\ Past \in Int
    BY DEF EventInv, EventTypes, Past
  <2>2. \A c \in Chan : publisher'[c].event <= Past
    BY <2>1, UnsubscribePublishers DEF EventInv, EventTypes, EventsPast, Publisher
  <2> QED BY <2>1, <2>2 DEF EventInv, EventsPast
<1>5. PublishersApart'
  BY UnsubscribePublishers DEF EventInv, PublishersApart
<1>6. Registered'
  BY <1>1, <1>2, UnsubscribePublishers DEF EventInv, Registered, EventTypes
<1> QED BY <1>3, <1>4, <1>5, <1>6 DEF EventInv

(* What a send of publishAllSubscribers does to the publishers.            *)
LEMMA PublishOnePublishers ==
  ASSUME EventInv, NEW c \in Chan, NEW s \in Sub, PublishOne(c, s)
  PROVE  /\ publisher' \in [Chan -> Publisher]
         /\ \A d \in Chan \ {c} : publisher'[d] = publisher[d]
         /\ publisher'[c].topic = publisher[c].topic
         /\ publisher'[c].batch = publisher[c].batch \ {s}
         /\ publisher'[c].pc \in {"receiving", "publishing"}
         /\ publisher'[c].pc = "publishing" => publisher'[c].event = publisher[c].event
         /\ publisher'[c].pc = "receiving" =>
              publisher'[c].event = 0 /\ publisher'[c].batch = {}
<1> DEFINE q == Publishing(publisher[c], publisher[c].event, publisher[c].batch \ {s})
<1>1. publisher' = [publisher EXCEPT ![c] = q]
  BY DEF PublishOne
<1>2. /\ publisher \in [Chan -> Publisher] /\ publisher[c] \in Publisher
      /\ publisher[c].event \in 0 .. MaxEvents
      /\ publisher[c].batch \ {s} \in SUBSET Sub
  BY DEF EventInv, EventTypes, Publisher
<1>3. /\ q \in Publisher /\ q.topic = publisher[c].topic
      /\ q.batch = publisher[c].batch \ {s}
      /\ q.pc \in {"receiving", "publishing"}
      /\ q.pc = "publishing" => q.event = publisher[c].event
      /\ q.pc = "receiving" => q.event = 0 /\ q.batch = {}
  BY <1>2, PublishingFields
<1> HIDE DEF q
<1>4. publisher'[c] = q /\ \A d \in Chan \ {c} : publisher'[d] = publisher[d]
  BY <1>1, <1>2
<1>5. publisher' \in [Chan -> Publisher]
  BY <1>1, <1>2, <1>3
<1> QED BY <1>3, <1>4, <1>5

(* ... and to the reader, which takes the event if it is waiting.          *)
LEMMA PublishOneReader ==
  ASSUME EventInv, NEW c \in Chan, NEW s \in Sub, PublishOne(c, s)
  PROVE  /\ publisher[c].pc = "publishing" /\ s \in publisher[c].batch
         /\ \/ UNCHANGED readerVars
            \/ /\ reader[s] = "waiting"
               /\ reader' = [reader EXCEPT ![s] = "holding"]
               /\ held' = [held EXCEPT ![s] = publisher[c].event]
BY ZenonT(30) DEF PublishOne

(* publishAllSubscribers keeps EventInv.                                   *)
LEMMA PublishOneKeeps ==
  ASSUME EventInv, NEW c \in Chan, NEW s \in Sub, PublishOne(c, s)
  PROVE  EventInv'
<1>1. UNCHANGED <<topics, subscribers, topicChans, made, remote, consumer, sent, call>>
  BY DEF PublishOne, loopVars
<1>2. /\ publisher[c].event \in 0 .. MaxEvents /\ publisher[c].event <= Past
      /\ publisher[c].event > 0 /\ call[s] = "subscribed"
  BY PublishOneReader
  DEF EventInv, EventTypes, Publisher, EventsPast, PublishersApart, Registered
<1>3. /\ reader' \in [Sub -> ReaderState] /\ held' \in [Sub -> 0 .. MaxEvents]
      /\ \A r \in Sub \ {s} : reader'[r] = reader[r] /\ held'[r] = held[r]
      /\ held'[s] \in {held[s], publisher[c].event}
  BY <1>2, PublishOneReader DEF EventInv, EventTypes, ReaderState, readerVars
<1>4. EventTypes'
  BY <1>1, <1>3, PublishOnePublishers DEF EventInv, EventTypes
<1>5. EventsPast'
  <2>1. Past' = Past /\ Past >= 0 /\ Past \in Int
    BY <1>1 DEF EventInv, EventTypes, EventsPast, Past
  <2>2. \A d \in Chan : publisher'[d].event <= Past
    BY <2>1, PublishOnePublishers DEF EventInv, EventsPast
  <2>3. \A r \in Sub : held'[r] <= Past
    BY <1>2, <1>3 DEF EventInv, EventsPast
  <2> QED BY <1>1, <2>1, <2>2, <2>3 DEF EventInv, EventsPast
<1>6. PublishersApart'
  BY <1>2, PublishOneReader, PublishOnePublishers DEF EventInv, PublishersApart
<1>7. Registered'
  <2>1. \A d \in Chan : publisher'[d].pc # "none" => publisher'[d].topic \in Topic
    BY PublishOneReader, PublishOnePublishers DEF EventInv, Registered
  <2> QED BY <1>1, <1>2, <1>3, <2>1, PublishOnePublishers DEF EventInv, Registered
<1> QED BY <1>4, <1>5, <1>6, <1>7 DEF EventInv

(* Steps that only move a call towards its channel keep EventInv.          *)
LEMMA CallKeeps ==
  ASSUME EventInv, NEW s \in Sub, NEW k \in CallState \ {"subscribed"}, call[s] # "subscribed",
         call' = [call EXCEPT ![s] = k], remote' \in SUBSET Topic,
         UNCHANGED <<topics, subscribers, publisher, topicChans, made, consumer, sent,
                     reader, held>>
  PROVE  EventInv'
<1>1. EventTypes'
  BY DEF EventInv, EventTypes
<1>2. EventsPast' /\ PublishersApart'
  BY DEF EventInv, EventsPast, Past, PublishersApart
<1>3. Registered'
  BY DEF EventInv, EventTypes, Publisher, Registered
<1> QED BY <1>1, <1>2, <1>3 DEF EventInv

(* StartSubscribe and FindTopic move the call on.                          *)
LEMMA SubscribeKeeps ==
  ASSUME EventInv, NEW s \in Sub, StartSubscribe(s) \/ FindTopic(s)
  PROVE  /\ EventInv' /\ call[s] \in {"called", "joining"}
         /\ \E k \in {"installing", "joining", "adding", "failed"} :
              call' = [call EXCEPT ![s] = k]
<1>1. /\ call[s] \in {"called", "joining"}
      /\ \E k \in {"installing", "joining", "adding", "failed"} :
           call' = [call EXCEPT ![s] = k]
  BY DEF StartSubscribe, FindTopic
<1>2. remote' \in SUBSET Topic
  <2>1. remote' \in {remote, remote \cup {TopicOf[s]}}
    BY DEF StartSubscribe, FindTopic
  <2> QED BY <2>1, SubAssumption DEF EventInv, EventTypes
<1>3. UNCHANGED <<topics, subscribers, publisher, topicChans, made, consumer, sent, reader, held>>
  BY DEF StartSubscribe, FindTopic, busVars, loopVars, readerVars
<1>4. EventInv'
  BY <1>1, <1>2, <1>3, CallKeeps DEF CallState
<1> QED BY <1>1, <1>4

(* The publisher AddTopic starts.                                          *)
LEMMA ReceivingFields ==
  ASSUME NEW t \in Topic, NEW r, r = [noPublisher EXCEPT !.pc = "receiving", !.topic = t]
  PROVE  /\ r \in Publisher /\ r.pc = "receiving" /\ r.topic = t
         /\ r.event = 0 /\ r.batch = {}
<1> DEFINE q == [pc |-> "receiving", topic |-> t, event |-> 0, batch |-> {}, shared |-> FALSE]
<1>1. r = q
  BY ZenonT(30) DEF noPublisher
<1>2. q \in Publisher /\ q.pc = "receiving" /\ q.topic = t /\ q.event = 0 /\ q.batch = {}
  BY EventAssumption DEF Publisher
<1> HIDE DEF q
<1> QED BY <1>1, <1>2

(* What the install case does: the topic has a publisher afterwards, a new *)
(* one if it had none.                                                     *)
LEMMA InstallPublishers ==
  ASSUME EventInv, NEW s \in Sub, Install(s)
  PROVE  /\ publisher' \in [Chan -> Publisher] /\ topics' \in [Topic -> Nat]
         /\ \/ UNCHANGED <<topics, publisher>>
            \/ /\ topics[TopicOf[s]] = NoChan
               /\ topics' = [topics EXCEPT ![TopicOf[s]] = made + 1]
               /\ \A c \in Chan : c # made + 1 => publisher'[c] = publisher[c]
               /\ made + 1 \in Chan =>
                    /\ publisher'[made + 1].pc = "receiving"
                    /\ publisher'[made + 1].topic = TopicOf[s]
                    /\ publisher'[made + 1].event = 0 /\ publisher'[made + 1].batch = {}
<1> DEFINE r == [noPublisher EXCEPT !.pc = "receiving", !.topic = TopicOf[s]]
<1>1. \/ UNCHANGED <<topics, publisher>>
      \/ /\ topics[TopicOf[s]] = NoChan
         /\ topics' = [topics EXCEPT ![TopicOf[s]] = made + 1]
         /\ publisher' = [publisher EXCEPT ![made + 1] = r]
  BY ZenonT(30) DEF Install
<1>2. TopicOf[s] \in Topic
  BY SubAssumption
<1>3. /\ r \in Publisher /\ r.pc = "receiving" /\ r.topic = TopicOf[s]
      /\ r.event = 0 /\ r.batch = {}
  BY <1>2, ReceivingFields
<1> HIDE DEF r
<1>5. /\ publisher \in [Chan -> Publisher] /\ topics \in [Topic -> Nat] /\ made + 1 \in Nat
  BY DEF EventInv, EventTypes
<1>6. CASE UNCHANGED <<topics, publisher>>
  BY <1>5, <1>6
<1>7. CASE /\ topics[TopicOf[s]] = NoChan
           /\ topics' = [topics EXCEPT ![TopicOf[s]] = made + 1]
           /\ publisher' = [publisher EXCEPT ![made + 1] = r]
  BY <1>3, <1>5, <1>7
<1> QED BY <1>1, <1>6, <1>7

(* The install case of eventLoop keeps EventInv.                           *)
LEMMA InstallKeeps ==
  ASSUME EventInv, NEW s \in Sub, Install(s)
  PROVE  EventInv'
<1>1. /\ call[s] = "installing" /\ call' = [call EXCEPT ![s] = "joining"] /\ made' = made + 1
      /\ topicChans' = [topicChans EXCEPT ![TopicOf[s]] = made + 1]
      /\ UNCHANGED <<subscribers, consumer, remote, sent, reader, held>>
  BY DEF Install, readerVars
<1>2. \A c \in Chan :
        \/ publisher'[c] = publisher[c]
        \/ /\ publisher'[c].pc = "receiving" /\ publisher'[c].event = 0
           /\ publisher'[c].batch = {} /\ publisher'[c].topic = TopicOf[s]
  BY InstallPublishers
<1>3. EventTypes'
  <2>1. made + 1 \in Nat
    BY DEF EventInv, EventTypes
  <2>3. topicChans' \in [Topic -> Nat]
    BY <1>1, <2>1, ZenonT(30) DEF EventInv, EventTypes
  <2>2. call' \in [Sub -> CallState]
    BY <1>1 DEF EventInv, EventTypes, CallState
  <2> QED BY <1>1, <2>1, <2>2, <2>3, InstallPublishers DEF EventInv, EventTypes
<1>4. EventsPast'
  <2>1. Past' = Past /\ Past >= 0
    BY <1>1 DEF EventInv, EventTypes, EventsPast, Past
  <2> QED BY <1>1, <1>2, <2>1 DEF EventInv, EventsPast
<1>5. PublishersApart'
  BY <1>2 DEF EventInv, PublishersApart
<1>6. Registered'
  <2>1. \A c \in Chan : publisher'[c].pc # "none" => publisher'[c].topic \in Topic
    BY <1>2, SubAssumption DEF EventInv, Registered
  <2>2. \A c \in Chan : \A r \in publisher'[c].batch :
          TopicOf[r] = publisher'[c].topic /\ call[r] = "subscribed"
    BY <1>2 DEF EventInv, Registered
  <2>3. \A r \in Sub : call'[r] = "subscribed" <=> call[r] = "subscribed"
    BY <1>1 DEF EventInv, EventTypes
  <2>4. \A c \in Chan : publisher'[c].batch \subseteq Sub
    BY InstallPublishers DEF Publisher
  <2> QED BY <1>1, <2>1, <2>2, <2>3, <2>4 DEF EventInv, EventTypes, Registered
<1> QED BY <1>3, <1>4, <1>5, <1>6 DEF EventInv

(* consumeEvents takes the next event: nobody else has it.                 *)
LEMMA ReceiveKeeps ==
  ASSUME EventInv, NEW t \in Topic, ReceiveEvent(t)
  PROVE  EventInv' /\ Past \in Int /\ Past' >= Past
<1>1. /\ consumer.pc = "waiting" /\ sent < MaxEvents /\ sent' = sent + 1
      /\ UNCHANGED <<topics, subscribers, publisher, topicChans, made, remote, call,
                     reader, held>>
  BY DEF ReceiveEvent, busVars, loopVars, readerVars
<1>2. \/ consumer' = consumer
      \/ consumer' = [pc |-> "sending", ch |-> topicChans[t], event |-> sent + 1]
  BY DEF ReceiveEvent
<1>3. sent \in Nat /\ MaxEvents \in Nat /\ topicChans[t] \in Nat
  BY EventAssumption DEF EventInv, EventTypes
<1>4. EventTypes'
  BY <1>1, <1>2, <1>3 DEF EventInv, EventTypes
<1>5. Past' >= Past /\ Past \in Int /\ Past' \in Int
  BY <1>1, <1>2, <1>3 DEF Past
<1>6. EventsPast'
  BY <1>1, <1>2, <1>3, <1>5 DEF EventInv, EventTypes, Publisher, EventsPast
<1>7. PublishersApart' /\ Registered'
  BY <1>1 DEF EventInv, PublishersApart, Registered
<1> QED BY <1>4, <1>5, <1>6, <1>7 DEF EventInv

(* What a send of consumeEvents does to the publishers: the one that takes *)
(* the event has it for the subscribers of its topic.                      *)
LEMMA SendPublishers ==
  ASSUME EventInv, SendEvent
  PROVE  LET c == consumer.ch
         IN /\ publisher' \in [Chan -> Publisher]
            /\ \A d \in Chan \ {c} : publisher'[d] = publisher[d]
            /\ c \in Chan =>
                 /\ publisher[c].pc = "receiving" /\ publisher[c].topic \in Topic
                 /\ publisher'[c].topic = publisher[c].topic
                 /\ publisher'[c].batch = subscribers[publisher[c].topic]
                 /\ publisher'[c].pc \in {"receiving", "publishing"}
                 /\ publisher'[c].pc = "publishing" => publisher'[c].event = consumer.event
                 /\ publisher'[c].pc = "receiving" =>
                      publisher'[c].event = 0 /\ publisher'[c].batch = {}
<1> DEFINE c == consumer.ch
           p == [publisher[c] EXCEPT !.shared = TRUE]
           q == Publishing(p, consumer.event, subscribers[publisher[c].topic])
<1>1. publisher[c].pc = "receiving" /\ publisher' = [publisher EXCEPT ![c] = q]
  BY DEF SendEvent
<1>2. publisher \in [Chan -> Publisher]
  BY DEF EventInv, EventTypes
<1>3. CASE c \in Chan
  <2>1. /\ publisher[c] \in Publisher /\ consumer.event \in 0 .. MaxEvents
        /\ publisher[c].topic \in Topic /\ subscribers[publisher[c].topic] \in SUBSET Sub
    BY <1>1, <1>2, <1>3 DEF EventInv, EventTypes, Registered
  <2>2. p \in Publisher /\ p.topic = publisher[c].topic
    BY <2>1, ZenonT(30) DEF Publisher
  <2> HIDE DEF c, p
  <2>3. /\ q \in Publisher /\ q.topic = publisher[c].topic
        /\ q.batch = subscribers[publisher[c].topic]
        /\ q.pc \in {"receiving", "publishing"}
        /\ q.pc = "publishing" => q.event = consumer.event
        /\ q.pc = "receiving" => q.event = 0 /\ q.batch = {}
    BY <2>1, <2>2, PublishingFields
  <2> HIDE DEF q
  <2>4. publisher'[c] = q /\ publisher' \in [Chan -> Publisher]
    BY <1>1, <1>2, <1>3, <2>3
  <2>5. \A d \in Chan \ {c} : publisher'[d] = publisher[d]
    BY <1>1, <1>2
  <2> USE DEF c
  <2> QED BY <1>1, <2>1, <2>3, <2>4, <2>5
<1>4. CASE c \notin Chan
  <2> HIDE DEF c, q
  <2>1. publisher' = publisher
    BY <1>1, <1>2, <1>4
  <2> USE DEF c
  <2> QED BY <1>2, <1>4, <2>1
<1> QED BY <1>3, <1>4

(* A send of consumeEvents keeps EventInv: the event is new to everybody.  *)
LEMMA SendKeeps ==
  ASSUME EventInv, SendEvent
  PROVE  EventInv' /\ Past \in Nat /\ Past' = consumer.event /\ Past < consumer.event
<1>1. /\ consumer.pc = "sending" /\ consumer' = waitingConsumer
      /\ UNCHANGED <<topics, subscribers, topicChans, made, remote, sent, call, reader, held>>
  BY DEF SendEvent, loopVars, readerVars
<1>2. consumer.event = sent /\ sent > 0 /\ sent \in 0 .. MaxEvents /\ MaxEvents \in Nat
  BY <1>1, EventAssumption DEF EventInv, EventTypes, EventsPast
<1>3. Past = sent - 1 /\ Past' = sent
  BY <1>1 DEF Past, waitingConsumer
<1>4. EventTypes'
  <2>1. consumer' \in [pc : {"waiting", "sending"}, ch : Nat, event : 0 .. MaxEvents]
    BY <1>1, <1>2 DEF waitingConsumer, NoChan
  <2> QED BY <1>1, <2>1, SendPublishers DEF EventInv, EventTypes
<1>5. EventsPast'
  <2>1. \A d \in Chan : publisher'[d].event <= sent
    BY <1>2, <1>3, SendPublishers DEF EventInv, EventTypes, Publisher, EventsPast
  <2>2. \A s \in Sub : held'[s] <= sent
    BY <1>1, <1>2, <1>3 DEF EventInv, EventTypes, EventsPast
  <2> QED BY <1>1, <1>3, <2>1, <2>2 DEF EventsPast, waitingConsumer
<1>6. PublishersApart'
  <2>1. \A d \in Chan : publisher[d].event # consumer.event
    BY <1>2, <1>3 DEF EventInv, EventTypes, Publisher, EventsPast
  <2> QED BY <1>2, <2>1, SendPublishers DEF EventInv, PublishersApart
<1>7. Registered'
  BY <1>1, SendPublishers DEF EventInv, Registered
<1> QED BY <1>2, <1>3, <1>4, <1>5, <1>6, <1>7 DEF EventInv

(* So does giving an event up.                                             *)
LEMMA DropKeeps ==
  ASSUME EventInv, DropEvent
  PROVE  EventInv' /\ Past \in Int /\ Past' >= Past
<1>1. /\ consumer.pc = "sending" /\ consumer' = waitingConsumer
      /\ UNCHANGED <<topics, subscribers, publisher, topicChans, made, remote, sent, call,
                     reader, held>>
  BY DEF DropEvent, busVars, loopVars, readerVars
<1>2. sent > 0 /\ sent \in 0 .. MaxEvents /\ MaxEvents \in Nat
  BY <1>1, EventAssumption DEF EventInv, EventTypes, EventsPast
<1>3. Past = sent - 1 /\ Past' = sent
  BY <1>1 DEF Past, waitingConsumer
<1>4. EventTypes'
  <2>1. consumer' \in [pc : {"waiting", "sending"}, ch : Nat, event : 0 .. MaxEvents]
    BY <1>1, <1>2 DEF waitingConsumer, NoChan
  <2> QED BY <1>1, <2>1 DEF EventInv, EventTypes
<1>5. EventsPast'
  BY <1>1, <1>2, <1>3 DEF EventInv, EventTypes, Publisher, EventsPast, waitingConsumer
<1>6. PublishersApart' /\ Registered'
  BY <1>1 DEF EventInv, PublishersApart, Registered
<1> QED BY <1>2, <1>3, <1>4, <1>5, <1>6 DEF EventInv

(* Steps of the reader of a subscription alone keep EventInv.              *)
LEMMA ReaderKeeps ==
  ASSUME EventInv, NEW s \in Sub, reader[s] # "none", NEW r \in ReaderState,
         reader' = [reader EXCEPT ![s] = r], held' \in {held, [held EXCEPT ![s] = 0]},
         UNCHANGED <<topics, subscribers, publisher, topicChans, made, remote, consumer,
                     sent, call>>
  PROVE  EventInv'
<1>1. Past' = Past /\ Past >= 0 /\ Past \in Int /\ 0 \in 0 .. MaxEvents
  BY EventAssumption DEF EventInv, EventTypes, EventsPast, Past
<1>2. EventTypes'
  BY <1>1 DEF EventInv, EventTypes
<1>3. EventsPast'
  BY <1>1 DEF EventInv, EventTypes, EventsPast
<1>4. PublishersApart' /\ Registered'
  BY DEF EventInv, EventTypes, PublishersApart, Registered
<1> QED BY <1>2, <1>3, <1>4 DEF EventInv

(* EventInv is about the variables of the event system.                    *)
LEMMA EventSame ==
  ASSUME EventInv,
         UNCHANGED <<topics, topicChans, made, subscribers, remote, publisher, consumer, sent,
                     call, reader, held>>
  PROVE  EventInv' /\ Past' = Past
<1>1. Past' = Past
  BY DEF Past
<1>2. EventTypes'
  BY DEF EventInv, EventTypes
<1>3. EventsPast'
  BY <1>1 DEF EventInv, EventsPast
<1>4. PublishersApart'
  BY DEF EventInv, PublishersApart
<1>5. Registered'
  BY DEF EventInv, Registered
<1> QED BY <1>1, <1>2, <1>3, <1>4, <1>5 DEF EventInv

(* A step of its user that leaves the event system alone keeps EventInv.   *)
LEMMA EventUnchanged ==
  ASSUME EventInv, UNCHANGED eventVars
  PROVE  EventInv' /\ Past' = Past
BY EventSame DEF eventVars, busVars, loopVars, readerVars

(* EventInv holds at the start.                                            *)
LEMMA EventStarts ==
  ASSUME EventInit
  PROVE  EventInv
<1>1. \A c \in Chan : publisher[c].pc = "none" /\ publisher[c].event = 0 /\ publisher[c].batch = {}
  BY DEF EventInit, noPublisher
<1>2. 0 \in 0 .. MaxEvents /\ NoChan \in Nat
  BY EventAssumption DEF NoChan
<1>3. publisher \in [Chan -> Publisher]
  BY <1>2 DEF EventInit, noPublisher, Publisher
<1>4. consumer \in [pc : {"waiting", "sending"}, ch : Nat, event : 0 .. MaxEvents]
  BY <1>2 DEF EventInit, waitingConsumer
<1>5. EventTypes
  BY <1>2, <1>3, <1>4 DEF EventInit, EventTypes, CallState, ReaderState
<1>6. EventsPast
  BY <1>1 DEF EventInit, EventsPast, Past, waitingConsumer
<1>7. PublishersApart /\ Registered
  BY <1>1 DEF EventInit, PublishersApart, Registered
<1> QED BY <1>5, <1>6, <1>7 DEF EventInv

-----------------------------------------------------------------------------
(* The websocket server.                                                   *)

(* The types of the server's own variables, and of a notification.         *)
LEMMA ServerTypes ==
  ASSUME ServerInv
  PROVE  /\ conn \in [Conn -> {"open", "gone", "closed"}]
         /\ loop \in [Conn -> {"reading", "subscribing", "cancelling", "ended"}]
         /\ serving \in [Conn -> Sub \cup {0}] /\ subs \in [Conn -> SUBSET Sub]
         /\ owner \in [Sub -> Conn \cup {NoConn}] /\ todo \in [Sub -> 0 .. MaxNotifications]
         /\ cutoff \in [Sub -> 0 .. MaxEvents]
         /\ \A s \in Sub : \A i \in DOMAIN pushed[s] :
              pushed[s][i][1] \in 1 .. MaxEvents /\ pushed[s][i][2] \in 1 .. MaxNotifications
<1> DEFINE Notification == (1 .. MaxEvents) \X (1 .. MaxNotifications)
<1>1. /\ conn \in [Conn -> {"open", "gone", "closed"}]
      /\ loop \in [Conn -> {"reading", "subscribing", "cancelling", "ended"}]
      /\ serving \in [Conn -> Sub \cup {0}] /\ subs \in [Conn -> SUBSET Sub]
      /\ owner \in [Sub -> Conn \cup {NoConn}] /\ todo \in [Sub -> 0 .. MaxNotifications]
      /\ cutoff \in [Sub -> 0 .. MaxEvents] /\ pushed \in [Sub -> Seq(Notification)]
  BY ZenonT(30) DEF ServerInv, ServerTypeOK
<1>2. \A n \in Notification : n[1] \in 1 .. MaxEvents /\ n[2] \in 1 .. MaxNotifications
  OBVIOUS
<1> HIDE DEF Notification
<1>3. \A s \in Sub : \A i \in DOMAIN pushed[s] : pushed[s][i] \in Notification
  BY <1>1
<1> QED BY <1>1, <1>2, <1>3

(* So a notification is a pair of numbers.                                 *)
LEMMA PushedNumbers ==
  ASSUME ServerInv
  PROVE  \A s \in Sub : \A i \in DOMAIN pushed[s] :
           pushed[s][i][1] \in Int /\ pushed[s][i][2] \in Int
BY ServerTypes

(* The notifications written so far stay in order while nothing is         *)
(* written.                                                                *)
LEMMA PushedStays ==
  ASSUME ServerInv, UNCHANGED <<pushed, cutoff>>, Past \in Int, Past' \in Int, Past' >= Past,
         \A s \in Sub : call[s] = "subscribed" => call'[s] = "subscribed"
  PROVE  Pushed' /\ PushedInOrder'
<1>1. Pushed'
  BY PushedNumbers DEF ServerInv, Pushed
<1> QED BY <1>1 DEF ServerInv, PushedInOrder

(* So does what is on its way while publishers only lose subscriptions.    *)
LEMMA AheadStays ==
  ASSUME ServerInv, UNCHANGED <<pushed, cutoff, todo, held, reader>>,
         \A c \in Chan : /\ publisher'[c].batch \subseteq publisher[c].batch
                         /\ publisher'[c].batch # {} =>
                              publisher'[c].event = publisher[c].event
  PROVE  Ahead'
BY DEF ServerInv, Ahead

(* Owned depends on what a connection knows and where the calls are.       *)
LEMMA OwnedStays ==
  ASSUME ServerInv, UNCHANGED <<owner, subs, loop, serving, cutoff, call>>,
         \A t \in Topic : subscribers'[t] \subseteq subscribers[t]
  PROVE  Owned'
BY DEF ServerInv, Owned

(* ServerInv holds at the start.                                           *)
LEMMA ServerStarts ==
  ASSUME ServerInit
  PROVE  ServerInv
<1>1. EventInv
  BY EventStarts DEF ServerInit
<1>2. 0 \in 0 .. MaxNotifications /\ MaxEvents \in 0 .. MaxEvents
  BY EventAssumption, NotificationAssumption
<1>3. ServerTypeOK
  BY <1>2 DEF ServerInit, EventInit, ServerTypeOK
<1>4. Owned
  BY DEF ServerInit, EventInit, Owned
<1>5. OnePublisher
  BY DEF ServerInit, EventInit, OnePublisher, noPublisher
<1>6. Ahead
  BY EventAssumption DEF ServerInit, EventInit, Ahead, noPublisher
<1>7. Pushed /\ PushedInOrder
  BY DEF ServerInit, EventInit, Pushed, PushedInOrder
<1> QED BY <1>1, <1>3, <1>4, <1>5, <1>6, <1>7 DEF ServerInv

(* A connection that loses its peer, and the end of readLoop.              *)
LEMMA ConnectionSteps ==
  ASSUME ServerInv, NEW c \in Conn, Disconnect(c) \/ ReadFails(c) \/ CancelDone(c)
  PROVE  ServerInv'
<1>1. UNCHANGED <<eventVars, serving, subs, owner, todo, pushed, cutoff>>
  BY DEF Disconnect, ReadFails, CancelDone
<1>2. EventInv' /\ Past' = Past /\ Past \in Int
  BY <1>1, EventUnchanged DEF ServerInv, EventInv, EventTypes, Past
<1>3. UNCHANGED <<topics, subscribers, eventClosed, errClosed, closed, publisher, call, reader,
                  held, crash>>
  BY <1>1 DEF eventVars, busVars, loopVars, readerVars
<1>4. ServerTypeOK'
  BY <1>1, <1>3 DEF ServerInv, ServerTypeOK, Disconnect, ReadFails, CancelDone
<1>5. Owned'
  <2>1. \/ loop' = loop \/ loop' = [loop EXCEPT ![c] = "cancelling"]
        \/ subs[c] = {} /\ loop' = [loop EXCEPT ![c] = "ended"]
    BY DEF Disconnect, ReadFails, CancelDone
  <2> QED BY <1>1, <1>3, <2>1, ServerTypes DEF ServerInv, Owned
<1>6. OnePublisher'
  BY <1>3 DEF ServerInv, OnePublisher
<1>7. Ahead'
  BY <1>1, <1>3, AheadStays
<1>8. Pushed' /\ PushedInOrder'
  BY <1>1, <1>2, <1>3, PushedStays
<1> QED BY <1>2, <1>4, <1>5, <1>6, <1>7, <1>8 DEF ServerInv

(* An eth_subscribe: its subscription is one that nobody has.              *)
LEMMA ReadSubscribeStep ==
  ASSUME ServerInv, NEW c \in Conn, NEW s \in Sub, ReadSubscribe(c, s)
  PROVE  ServerInv'
<1>1. /\ loop[c] = "reading" /\ call[s] = "new" /\ owner' = [owner EXCEPT ![s] = c]
      /\ \/ call' = [call EXCEPT ![s] = "failed"] /\ UNCHANGED <<loop, serving>>
         \/ /\ call' = [call EXCEPT ![s] = "called"]
            /\ loop' = [loop EXCEPT ![c] = "subscribing"]
            /\ serving' = [serving EXCEPT ![c] = s]
  BY DEF ReadSubscribe
<1>2. UNCHANGED <<topics, subscribers, eventClosed, publisher, topicChans, made, closed,
                  errClosed, consumer, remote, sent, reader, held, crash, conn, subs, todo,
                  pushed, cutoff>>
  BY DEF ReadSubscribe, busVars, loopVars, readerVars
<1>3. call \in [Sub -> CallState] /\ remote \in SUBSET Topic
  BY DEF ServerInv, EventInv, EventTypes
<1>4. EventInv' /\ Past' = Past /\ Past \in Int
  BY <1>1, <1>2, <1>3, CallKeeps DEF ServerInv, EventInv, EventTypes, Past, CallState
<1>5. ServerTypeOK'
  <2>1. /\ loop' \in [Conn -> {"reading", "subscribing", "cancelling", "ended"}]
        /\ serving' \in [Conn -> Sub \cup {0}] /\ owner' \in [Sub -> Conn \cup {NoConn}]
    BY <1>1, ServerTypes
  <2>2. call' \in [Sub -> CallState]
    BY <1>1, <1>3 DEF CallState
  <2> QED BY <1>2, <2>1, <2>2, ZenonT(30) DEF ServerInv, ServerTypeOK, CallState
<1>6. Owned'
  <2>1. \A d \in Conn : s \notin subs[d]
    BY <1>1 DEF ServerInv, Owned
  <2>2. \A d \in Conn : loop[d] = "subscribing" => serving[d] # s
    BY <1>1 DEF ServerInv, Owned
  <2> QED BY <1>1, <1>2, <1>3, <2>1, <2>2, ServerTypes DEF ServerInv, Owned
<1>7. OnePublisher' /\ Ahead'
  BY <1>2, AheadStays DEF ServerInv, OnePublisher
<1>8. Pushed' /\ PushedInOrder'
  BY <1>1, <1>2, <1>3, <1>4, PushedStays
<1> QED BY <1>4, <1>5, <1>6, <1>7, <1>8 DEF ServerInv

(* An error ends the eth_subscribe; the next request is read.              *)
LEMMA AskEventSystemStep ==
  ASSUME ServerInv, NEW c \in Conn, AskEventSystem(c)
  PROVE  ServerInv'
<1> DEFINE s == serving[c]
<1>1. /\ loop[c] = "subscribing" /\ s \in Sub /\ owner[s] = c
      /\ StartSubscribe(s) \/ FindTopic(s)
  BY DEF AskEventSystem, ServerInv, Owned
<1>2. PICK k \in {"installing", "joining", "adding", "failed"} :
        call' = [call EXCEPT ![s] = k] /\ call[s] \in {"called", "joining"}
  BY <1>1, SubscribeKeeps DEF ServerInv
<1>3. EventInv' /\ Past' = Past /\ Past \in Int
  <2>1. EventInv'
    BY <1>1, SubscribeKeeps DEF ServerInv
  <2>2. Past' = Past
    BY <1>1 DEF Past, StartSubscribe, FindTopic
  <2>3. Past \in Int
    BY PastNumber, ZenonT(30) DEF ServerInv
  <2> QED BY <2>1, <2>2, <2>3
<1>4. UNCHANGED <<topics, subscribers, eventClosed, publisher, closed, errClosed, reader, held,
                  crash, conn, subs, owner, todo, pushed, cutoff>>
  BY <1>1 DEF AskEventSystem, StartSubscribe, FindTopic, busVars, loopVars, readerVars
<1>5. call \in [Sub -> CallState] /\ call' \in [Sub -> CallState] /\ call'[s] = k
  BY <1>1, <1>2 DEF ServerInv, EventInv, EventTypes, CallState
<1>6. /\ loop' = [loop EXCEPT ![c] = IF k = "failed" THEN "reading" ELSE @]
      /\ serving' = [serving EXCEPT ![c] = IF k = "failed" THEN 0 ELSE @]
  BY <1>5 DEF AskEventSystem
<1> HIDE DEF s
<1>7. ServerTypeOK'
  <2>1. /\ loop' \in [Conn -> {"reading", "subscribing", "cancelling", "ended"}]
        /\ serving' \in [Conn -> Sub \cup {0}]
    BY <1>6, ServerTypes
  <2> QED BY <1>4, <1>5, <2>1, ZenonT(30) DEF ServerInv, ServerTypeOK, CallState
<1>8. Owned'
  <2>1. \A d \in Conn : s \notin subs[d]
    BY <1>2 DEF ServerInv, Owned
  <2>2. \A d \in Conn \ {c} : loop[d] = "subscribing" => serving[d] # s
    BY <1>1 DEF ServerInv, Owned
  <2>3. \A d \in Conn \ {c} : loop'[d] = loop[d] /\ serving'[d] = serving[d]
    BY <1>6, ServerTypes
  <2>4. loop'[c] = "subscribing" => k # "failed" /\ serving'[c] = s
    BY <1>6, ServerTypes DEF s
  <2>5. loop'[c] # "ended"
    BY <1>1, <1>6, ServerTypes
  <2>6. \A r \in Sub \ {s} : call'[r] = call[r]
    BY <1>2, <1>5
  <2>7. \A t \in Topic : \A r \in subscribers'[t] : owner'[r] \in Conn /\ r \in subs'[owner'[r]]
    BY <1>4 DEF ServerInv, Owned
  <2>8. \A d \in Conn : \A r \in subs'[d] :
          owner'[r] = d /\ call'[r] = "subscribed" /\ cutoff'[r] = MaxEvents
    BY <1>4, <2>1, <2>6, ServerTypes DEF ServerInv, Owned
  <2>9. \A d \in Conn : loop'[d] = "ended" => subs'[d] = {}
    BY <1>4, <2>3, <2>5 DEF ServerInv, Owned
  <2>10. ASSUME NEW d \in Conn, loop'[d] = "subscribing"
         PROVE  /\ serving'[d] \in Sub /\ owner'[serving'[d]] = d
                /\ call'[serving'[d]] \in {"called", "installing", "joining", "adding"}
    <3>1. CASE d = c
      BY <1>1, <1>2, <1>4, <1>5, <2>4, <2>10, <3>1
    <3>2. CASE d # c
      <4>1. /\ loop[d] = "subscribing" /\ serving'[d] = serving[d] /\ serving[d] # s
        BY <2>2, <2>3, <2>10, <3>2
      <4>2. /\ serving[d] \in Sub /\ owner[serving[d]] = d
            /\ call[serving[d]] \in {"called", "installing", "joining", "adding"}
        BY <4>1 DEF ServerInv, Owned
      <4> QED BY <1>4, <2>6, <4>1, <4>2
    <3> QED BY <3>1, <3>2
  <2> QED BY <2>7, <2>8, <2>9, <2>10 DEF Owned
<1>9. OnePublisher' /\ Ahead'
  BY <1>4, AheadStays DEF ServerInv, OnePublisher
<1>10. Pushed' /\ PushedInOrder'
  BY <1>2, <1>3, <1>4, <1>5, PushedStays
<1> QED BY <1>3, <1>7, <1>8, <1>9, <1>10 DEF ServerInv

(* The subscription joins the bus and its connection in one step, as its   *)
(* goroutine starts: it was sent nothing yet.                              *)
LEMMA SubscribedStep ==
  ASSUME ServerInv, NEW c \in Conn, Subscribed(c)
  PROVE  ServerInv'
<1> DEFINE s == serving[c]
<1>1. /\ loop[c] = "subscribing" /\ s \in Sub /\ owner[s] = c /\ call[s] = "adding"
      /\ AddSubscriber(s) /\ call' = [call EXCEPT ![s] = "subscribed"]
      /\ reader' = [reader EXCEPT ![s] = "waiting"] /\ subs' = [subs EXCEPT ![c] = @ \cup {s}]
      /\ loop' = [loop EXCEPT ![c] = "reading"] /\ serving' = [serving EXCEPT ![c] = 0]
  BY ZenonT(30) DEF Subscribed, ServerInv, Owned
<1>2. UNCHANGED <<topics, eventClosed, topicChans, made, closed, errClosed, consumer, remote,
                  sent, held, conn, owner, todo, pushed, cutoff>>
  BY ZenonT(30) DEF Subscribed, loopVars
<1> HIDE DEF s
<1>3. EventInv /\ EventInv' /\ Past' = Past /\ Past \in Int
  <2>1. EventInv /\ Past' = Past /\ Past \in Int
    BY <1>2, PastNumber, ZenonT(30) DEF ServerInv, Past
  <2> QED BY <1>1, <1>2, <2>1, AddSubscriberKeeps
<1>4. /\ call \in [Sub -> CallState] /\ call' \in [Sub -> CallState]
      /\ subscribers' = [subscribers EXCEPT ![TopicOf[s]] = @ \cup {s}]
      /\ subscribers \in [Topic -> SUBSET Sub] /\ subscribers' \in [Topic -> SUBSET Sub]
  BY <1>1, <1>3, ZenonT(30) DEF EventInv, EventTypes, AddSubscriber
<1>5. pushed[s] = <<>> /\ cutoff[s] = MaxEvents /\ held[s] = 0
  BY <1>1 DEF ServerInv, Pushed, EventInv, Registered
<1>6. ServerTypeOK'
  <2>1. /\ loop' \in [Conn -> {"reading", "subscribing", "cancelling", "ended"}]
        /\ serving' \in [Conn -> Sub \cup {0}] /\ subs' \in [Conn -> SUBSET Sub]
    BY <1>1, ServerTypes
  <2>2. reader' \in [Sub -> {"none", "waiting", "holding", "writing", "done"}]
    BY <1>1 DEF ServerInv, ServerTypeOK
  <2>3. crash' \in {"none", "concurrent map access"}
    BY <1>1 DEF AddSubscriber, Crash, ServerInv, ServerTypeOK
  <2> QED BY <1>2, <1>4, <2>1, <2>2, <2>3, ZenonT(30) DEF ServerInv, ServerTypeOK, CallState
<1>7. Owned'
  <2>1. \A d \in Conn : s \notin subs[d]
    BY <1>1 DEF ServerInv, Owned
  <2>2. \A d \in Conn \ {c} : loop[d] = "subscribing" => serving[d] # s
    BY <1>1 DEF ServerInv, Owned
  <2>3. \A t \in Topic : \A r \in subscribers'[t] :
          owner'[r] \in Conn /\ r \in subs'[owner'[r]]
    BY <1>1, <1>2, <1>4, ServerTypes DEF ServerInv, Owned
  <2>4. \A d \in Conn : \A r \in subs'[d] :
          owner'[r] = d /\ call'[r] = "subscribed" /\ cutoff'[r] = MaxEvents
    BY <1>1, <1>2, <1>4, <1>5, ServerTypes DEF ServerInv, Owned
  <2>5. \A d \in Conn : loop'[d] = "ended" => subs'[d] = {}
    BY <1>1, ServerTypes DEF ServerInv, Owned
  <2>6. \A d \in Conn : loop'[d] = "subscribing" =>
          /\ serving'[d] \in Sub /\ owner'[serving'[d]] = d
          /\ call'[serving'[d]] \in {"called", "installing", "joining", "adding"}
    BY <1>1, <1>2, <1>4, <2>2, ServerTypes DEF ServerInv, Owned
  <2> QED BY <2>3, <2>4, <2>5, <2>6 DEF Owned
<1>8. OnePublisher'
  BY <1>1, <1>2, <1>3, AddSubscriberPublishers DEF ServerInv, OnePublisher
<1>9. Ahead'
  <2>1. reader'[s] = "waiting" /\ \A r \in Sub \ {s} : reader'[r] = reader[r]
    BY <1>1, <1>3 DEF EventInv, EventTypes
  <2>2. \A d \in Chan : publisher[d].pc = "publishing" =>
          publisher[d].event > 0 /\ publisher[d].event <= MaxEvents
    BY <1>3 DEF EventInv, EventTypes, Publisher, PublishersApart
  <2>3. \A d \in Chan : s \in publisher'[d].batch => publisher[d].pc = "publishing"
    BY <1>1, <1>3, AddSubscriberPublishers DEF EventInv, PublishersApart
  <2>4. \A r \in Sub \ {s} : \A d \in Chan :
          r \in publisher'[d].batch => r \in publisher[d].batch
    BY <1>1, <1>3, AddSubscriberPublishers
  <2>5. \A d \in Chan : publisher'[d].event = publisher[d].event
    BY <1>1, <1>3, AddSubscriberPublishers
  <2>6. Ahead /\ 0 <= MaxEvents /\ \A e : Older(pushed'[s], e)
    BY <1>2, <1>5, EventAssumption DEF ServerInv, Older
  <2>7. \A r \in Sub : held'[r] <= cutoff'[r]
    BY <1>2, <1>5, <2>6, ZenonT(30) DEF Ahead
  <2>8. ASSUME NEW r \in Sub, NEW d \in Chan, r \in publisher'[d].batch
        PROVE  /\ held'[r] < publisher'[d].event /\ Older(pushed'[r], publisher'[d].event)
               /\ publisher'[d].event <= cutoff'[r]
    <3>1. CASE r = s
      <4>1. publisher[d].event > 0 /\ publisher[d].event <= MaxEvents
        BY <2>2, <2>3, <2>8, <3>1, ZenonT(30)
      <4>2. 0 < publisher[d].event
        BY <4>1
      <4> QED BY <1>2, <1>5, <2>5, <2>6, <3>1, <4>1, <4>2, ZenonT(30)
    <3>2. CASE r # s
      BY <1>2, <2>4, <2>5, <2>6, <2>8, <3>2, ZenonT(30) DEF Ahead
    <3> QED BY <3>1, <3>2
  <2>9. ASSUME NEW r \in Sub, reader'[r] \in {"holding", "writing"}
        PROVE  r # s /\ reader[r] = reader'[r]
    BY <2>1, <2>9, ZenonT(30)
  <2>10. ASSUME NEW r \in Sub
         PROVE  /\ reader'[r] \in {"holding", "writing"} => held'[r] > 0
                /\ reader'[r] = "holding" => Older(pushed'[r], held'[r])
                /\ reader'[r] = "writing" => /\ todo'[r] > 0
                                             /\ \A i \in DOMAIN pushed'[r] :
                                                  Precedes(pushed'[r][i], <<held'[r], todo'[r]>>)
    BY <1>2, <2>6, <2>9, ZenonT(30) DEF Ahead
  <2> QED BY <2>7, <2>8, <2>10, ZenonT(30) DEF Ahead
<1>10. Pushed' /\ PushedInOrder'
  BY <1>1, <1>2, <1>3, <1>4, PushedStays
<1> QED BY <1>3, <1>6, <1>7, <1>8, <1>9, <1>10 DEF ServerInv

(* An eth_unsubscribe, and the cancelling of a subscription when its       *)
(* connection closes: what a publisher or the goroutine still has of the   *)
(* subscription is no newer than the last event received.                  *)
LEMMA UnsubscribeStep ==
  ASSUME ServerInv, NEW c \in Conn, NEW s \in Sub, ReadUnsubscribe(c, s) \/ CancelOne(c, s)
  PROVE  ServerInv'
<1>1. /\ s \in subs[c] /\ unsubscribe(s) /\ subs' = [subs EXCEPT ![c] = @ \ {s}]
      /\ cutoff' \in {cutoff, [cutoff EXCEPT ![s] = sent]}
  BY ZenonT(30) DEF ReadUnsubscribe, CancelOne
<1>2. UNCHANGED <<topics, eventClosed, topicChans, made, closed, errClosed, consumer, remote,
                  call, sent, reader, held, conn, loop, serving, owner, todo, pushed>>
  BY ZenonT(30) DEF ReadUnsubscribe, CancelOne, loopVars, readerVars
<1>3. /\ EventInv /\ Past' = Past /\ Past \in Int /\ Past <= sent
      /\ sent \in 0 .. MaxEvents /\ MaxEvents \in Nat
  BY <1>2, EventAssumption DEF ServerInv, EventInv, EventTypes, Past
<1>4. /\ owner[s] = c /\ call[s] = "subscribed" /\ cutoff[s] = MaxEvents
      /\ subscribers \in [Topic -> SUBSET Sub] /\ TopicOf[s] \in Topic
  BY <1>1, <1>3, SubAssumption DEF ServerInv, Owned, EventInv, EventTypes
<1>5. subscribers' = [subscribers EXCEPT ![TopicOf[s]] = @ \ {s}]
  BY <1>1, ZenonT(30) DEF unsubscribe
<1>6. EventInv'
  BY <1>1, <1>2, <1>3, UnsubscribeKeeps
<1>7. /\ cutoff' \in [Sub -> 0 .. MaxEvents] /\ \A r \in Sub \ {s} : cutoff'[r] = cutoff[r]
      /\ cutoff'[s] \in {sent, MaxEvents}
  BY <1>1, <1>3, <1>4, ServerTypes
<1>8. ServerTypeOK'
  <2>1. subs' \in [Conn -> SUBSET Sub] /\ subscribers' \in [Topic -> SUBSET Sub]
    BY <1>1, <1>4, <1>5, ServerTypes
  <2>2. crash' \in {"none", "concurrent map access"}
    BY <1>1, ZenonT(30) DEF unsubscribe, Crash, ServerInv, ServerTypeOK
  <2> QED BY <1>2, <1>7, <2>1, <2>2, ZenonT(30) DEF ServerInv, ServerTypeOK
<1>9. Owned'
  <2>1. \A t \in Topic : \A r \in subscribers'[t] : r # s /\ r \in subscribers[t]
    BY <1>3, <1>4, <1>5 DEF EventInv, Registered
  <2>2. \A d \in Conn : subs'[d] \subseteq subs[d] /\ subs[d] \subseteq subs'[d] \cup {s}
    BY <1>1, ServerTypes
  <2>3. \A d \in Conn : s \notin subs'[d]
    BY <1>1, <1>4, ServerTypes DEF ServerInv, Owned
  <2>4. \A t \in Topic : \A r \in subscribers'[t] : owner[r] \in Conn /\ r \in subs'[owner[r]]
    BY <2>1, <2>2 DEF ServerInv, Owned
  <2>5. \A d \in Conn : \A r \in subs'[d] :
          owner[r] = d /\ call[r] = "subscribed" /\ cutoff'[r] = MaxEvents
    BY <1>7, <2>2, <2>3, ServerTypes DEF ServerInv, Owned
  <2>6. \A d \in Conn : loop[d] = "ended" => subs'[d] = {}
    BY <2>2 DEF ServerInv, Owned
  <2> QED BY <1>2, <2>4, <2>5, <2>6 DEF ServerInv, Owned
<1>10. OnePublisher'
  BY <1>1, <1>2, <1>3, UnsubscribePublishers DEF ServerInv, OnePublisher
<1>11. /\ held[s] <= sent /\ \A d \in Chan : publisher[d].event <= sent
       /\ \A i \in DOMAIN pushed[s] : pushed[s][i][1] <= sent
  <2>1. EventsPast /\ Pushed /\ held[s] \in Int /\ publisher \in [Chan -> Publisher]
    BY <1>3 DEF EventInv, EventTypes, ServerInv
  <2>2. held[s] <= sent
    BY <1>3, <2>1 DEF EventsPast
  <2>3. \A d \in Chan : publisher[d].event <= sent
    <3>1. \A d \in Chan : publisher[d].event \in Int /\ publisher[d].event <= Past
      BY <2>1 DEF EventsPast, Publisher
    <3> QED BY <1>3, <3>1
  <2>4. \A i \in DOMAIN pushed[s] : pushed[s][i][1] <= sent
    <3>1. \A i \in DOMAIN pushed[s] : pushed[s][i][1] <= Past /\ pushed[s][i][1] \in Int
      BY <2>1, ServerTypes DEF Pushed
    <3> QED BY <1>3, <3>1
  <2> QED BY <2>2, <2>3, <2>4
<1>12. Ahead'
  <2>1. \A d \in Chan : publisher'[d].batch \subseteq publisher[d].batch
    BY <1>1, <1>3, UnsubscribePublishers
  <2>2. \A d \in Chan : publisher'[d].batch # {} => publisher'[d].event = publisher[d].event
    BY <1>1, <1>3, UnsubscribePublishers DEF EventInv, PublishersApart
  <2>3. \A r \in Sub : \A d \in Chan : r \in publisher'[d].batch =>
          /\ held[r] < publisher'[d].event /\ Older(pushed[r], publisher'[d].event)
          /\ publisher'[d].event <= cutoff'[r]
    <3>1. \A r \in Sub : \A d \in Chan : r \in publisher'[d].batch =>
            /\ r \in publisher[d].batch /\ publisher'[d].event = publisher[d].event
      BY <2>1, <2>2
    <3>2. \A r \in Sub : \A d \in Chan : r \in publisher[d].batch =>
            publisher[d].event <= cutoff'[r]
      BY <1>4, <1>7, <1>11 DEF ServerInv, Ahead
    <3> QED BY <3>1, <3>2 DEF ServerInv, Ahead
  <2>4. \A r \in Sub : held[r] <= cutoff'[r]
    BY <1>4, <1>7, <1>11 DEF ServerInv, Ahead
  <2> QED BY <1>2, <2>3, <2>4 DEF ServerInv, Ahead
<1>13. Pushed'
  <2>1. \A r \in Sub : \A i \in DOMAIN pushed[r] : pushed[r][i][1] <= cutoff'[r]
    BY <1>4, <1>7, <1>11 DEF ServerInv, Pushed
  <2>2. \A r \in Sub : call[r] # "subscribed" => cutoff'[r] = MaxEvents
    BY <1>4, <1>7 DEF ServerInv, Pushed
  <2> QED BY <1>2, <1>3, <2>1, <2>2 DEF ServerInv, Pushed
<1>14. PushedInOrder'
  BY <1>2 DEF ServerInv, PushedInOrder
<1> QED BY <1>6, <1>8, <1>9, <1>10, <1>12, <1>13, <1>14 DEF ServerInv

(* The steps of the event system that leave subscriptions and readers      *)
(* alone: installing a topic, receiving an event and giving it up.  A      *)
(* topic that has a publisher gets no second one.                          *)
LEMMA QuietSteps ==
  ASSUME ServerInv, UNCHANGED wsVars,
         \/ \E s \in Sub : Install(s)
         \/ \E t \in Topic : ReceiveEvent(t)
         \/ DropEvent
  PROVE  ServerInv'
<1>1. /\ UNCHANGED <<conn, loop, serving, subs, owner, todo, pushed, cutoff>>
      /\ UNCHANGED <<subscribers, eventClosed, closed, errClosed, reader, held, crash>>
  BY DEF wsVars, connVars, Install, ReceiveEvent, DropEvent, busVars, loopVars, readerVars
<1>2. EventInv' /\ Past \in Int /\ Past' \in Int /\ Past' >= Past
  <2>1. ASSUME NEW s \in Sub, Install(s)
        PROVE  EventInv' /\ Past \in Int /\ Past' = Past
    <3>1. EventInv'
      BY <2>1, InstallKeeps DEF ServerInv
    <3>2. UNCHANGED <<consumer, sent>>
      BY <2>1 DEF Install
    <3> QED BY <3>1, <3>2 DEF ServerInv, EventInv, EventTypes, Past
  <2>2. EventInv' => Past' \in Int
    BY DEF EventInv, EventTypes, Past
  <2> QED BY <2>1, <2>2, ReceiveKeeps, DropKeeps DEF ServerInv
<1>3. /\ call' \in [Sub -> CallState]
      /\ \A s \in Sub : \/ call'[s] = call[s]
                        \/ call[s] = "installing" /\ call'[s] = "joining"
  BY <1>2 DEF ServerInv, EventInv, EventTypes, Install, ReceiveEvent, DropEvent
<1>4. ServerTypeOK'
  BY <1>1, <1>3, ZenonT(30) DEF ServerInv, ServerTypeOK, CallState
<1>5. Owned'
  <2>1. \A c \in Conn : loop[c] = "subscribing" =>
          call'[serving[c]] \in {"called", "installing", "joining", "adding"}
    BY <1>3 DEF ServerInv, Owned
  <2>2. \A s \in Sub : call[s] = "subscribed" => call'[s] = "subscribed"
    BY <1>3
  <2> QED BY <1>1, <2>1, <2>2, ServerTypes DEF ServerInv, Owned
<1>6. OnePublisher' /\ Ahead'
  <2>1. ASSUME NEW s \in Sub, Install(s)
        PROVE  /\ OnePublisher'
               /\ \A c \in Chan : \/ publisher'[c] = publisher[c]
                                  \/ publisher'[c].batch = {}
    <3>1. EventInv /\ topics \in [Topic -> Nat] /\ TopicOf[s] \in Topic
      BY SubAssumption DEF ServerInv, EventInv, EventTypes
    <3>2. \A c \in Chan : publisher[c].pc # "none" => publisher[c].topic \in Topic
      BY <3>1 DEF EventInv, Registered
    <3>3. 0 \notin Chan
      BY DEF Chan
    <3>4. OnePublisher'
      BY <2>1, <3>1, <3>2, <3>3, InstallPublishers DEF ServerInv, OnePublisher, NoChan
    <3> QED BY <2>1, <3>1, <3>4, InstallPublishers
  <2>2. ASSUME (\E t \in Topic : ReceiveEvent(t)) \/ DropEvent
        PROVE  UNCHANGED <<topics, publisher>>
    BY <2>2 DEF ReceiveEvent, DropEvent, busVars
  <2>3. OnePublisher'
    BY <2>1, <2>2 DEF ServerInv, OnePublisher
  <2>4. \A c \in Chan : publisher'[c] = publisher[c] \/ publisher'[c].batch = {}
    BY <2>1, <2>2
  <2> QED BY <1>1, <2>3, <2>4, AheadStays
<1>7. Pushed' /\ PushedInOrder'
  BY <1>1, <1>2, <1>3, PushedStays
<1> QED BY <1>2, <1>4, <1>5, <1>6, <1>7 DEF ServerInv

(* consumeEvents sends an event: it is newer than all that subscriptions   *)
(* were sent, and no subscription of the bus is cut off.                   *)
LEMMA SendStep ==
  ASSUME ServerInv, UNCHANGED wsVars, SendEvent
  PROVE  ServerInv'
<1>1. /\ UNCHANGED <<conn, loop, serving, subs, owner, todo, pushed, cutoff>>
      /\ UNCHANGED <<topics, subscribers, eventClosed, closed, errClosed, call, reader, held,
                     crash>>
  BY DEF wsVars, connVars, SendEvent, loopVars, readerVars
<1>2. /\ EventInv /\ EventInv' /\ Past \in Nat /\ Past' = consumer.event
      /\ Past < consumer.event /\ consumer.event \in 0 .. MaxEvents
  BY SendKeeps DEF ServerInv, EventInv, EventTypes
<1>3. ServerTypeOK'
  BY <1>1, ZenonT(30) DEF ServerInv, ServerTypeOK
<1>4. Owned'
  BY <1>1, OwnedStays
<1>5. OnePublisher'
  <2>1. OnePublisher /\ topics' = topics
    BY <1>1, ZenonT(30) DEF ServerInv
  <2> QED BY <1>2, <2>1, SendPublishers DEF OnePublisher
<1>6. Ahead'
  <2>1. ASSUME NEW s \in Sub, NEW c \in Chan, s \in publisher'[c].batch
        PROVE  /\ held[s] < publisher'[c].event /\ Older(pushed[s], publisher'[c].event)
               /\ publisher'[c].event <= cutoff[s]
    <3>1. CASE c # consumer.ch
      <4>1. publisher'[c] = publisher[c]
        BY <1>2, <3>1, SendPublishers
      <4> QED BY <2>1, <4>1 DEF ServerInv, Ahead
    <3>2. CASE c = consumer.ch
      <4>1. /\ publisher'[c].event = consumer.event /\ publisher[c].topic \in Topic
            /\ s \in subscribers[publisher[c].topic]
        BY <1>2, <2>1, <3>2, SendPublishers
      <4>2. cutoff[s] = MaxEvents
        BY <4>1 DEF ServerInv, Owned
      <4>3. held[s] < consumer.event
        BY <1>2 DEF EventInv, EventTypes, EventsPast
      <4>4. Older(pushed[s], consumer.event)
        BY <1>2, ServerTypes DEF ServerInv, Pushed, Older
      <4> QED BY <1>2, <4>1, <4>2, <4>3, <4>4
    <3> QED BY <3>1, <3>2
  <2> QED BY <1>1, <2>1 DEF ServerInv, Ahead
<1>7. Pushed' /\ PushedInOrder'
  BY <1>1, <1>2, PushedStays
<1> QED BY <1>2, <1>3, <1>4, <1>5, <1>6, <1>7 DEF ServerInv

(* A publisher sends its event to one subscription: only the publisher of  *)
(* its topic has events for it.                                            *)
LEMMA PublishStepKeeps ==
  ASSUME ServerInv, UNCHANGED wsVars, NEW c \in Chan, NEW s \in Sub, PublishOne(c, s)
  PROVE  ServerInv'
<1>1. /\ UNCHANGED <<conn, loop, serving, subs, owner, todo, pushed, cutoff>>
      /\ UNCHANGED <<topics, subscribers, eventClosed, closed, errClosed, consumer, sent, call>>
  BY DEF wsVars, connVars, PublishOne, loopVars
<1>2. EventInv /\ EventInv' /\ Past' = Past /\ Past \in Int
  <2>1. EventInv /\ EventInv' /\ Past' = Past
    BY <1>1, PublishOneKeeps, ZenonT(30) DEF ServerInv, Past
  <2> QED BY <2>1, PastNumber, ZenonT(30)
<1>3. crash' = crash
  BY ZenonT(30) DEF PublishOne, ServerInv, ServerTypeOK
<1>4. /\ reader' \in [Sub -> {"none", "waiting", "holding", "writing", "done"}]
      /\ held' \in [Sub -> 0 .. MaxEvents]
      /\ \A r \in Sub \ {s} : reader'[r] = reader[r] /\ held'[r] = held[r]
      /\ \/ reader'[s] = reader[s] /\ held'[s] = held[s]
         \/ reader'[s] = "holding" /\ held'[s] = publisher[c].event
  <2>1. /\ reader \in [Sub -> {"none", "waiting", "holding", "writing", "done"}]
        /\ held \in [Sub -> 0 .. MaxEvents] /\ publisher[c].event \in 0 .. MaxEvents
    BY <1>2, ZenonT(30) DEF ServerInv, ServerTypeOK, EventInv, EventTypes, Publisher
  <2> QED BY <1>2, <2>1, PublishOneReader DEF readerVars
<1>5. ServerTypeOK'
  BY <1>1, <1>3, <1>4, ZenonT(30) DEF ServerInv, ServerTypeOK
<1>6. Owned'
  BY <1>1, OwnedStays
<1>7. /\ publisher[c].pc = "publishing" /\ s \in publisher[c].batch /\ publisher[c].event > 0
      /\ publisher[c].event <= cutoff[s] /\ Older(pushed[s], publisher[c].event)
  BY <1>2, PublishOneReader DEF ServerInv, Ahead, EventInv, PublishersApart
<1>8. OnePublisher'
  <2>1. \A d \in Chan : publisher[d].pc # "none" => topics'[publisher[d].topic] = d
    BY <1>1, ZenonT(30) DEF ServerInv, OnePublisher
  <2>2. publisher[c].pc # "none"
    BY <1>7, ZenonT(30)
  <2>3. /\ \A d \in Chan \ {c} : publisher'[d] = publisher[d]
        /\ publisher'[c].topic = publisher[c].topic
    BY <1>2, PublishOnePublishers, ZenonT(30)
  <2> QED BY <2>1, <2>2, <2>3, ZenonT(30) DEF OnePublisher
<1>9. Ahead'
  <2>1. ASSUME NEW d \in Chan, s \in publisher[d].batch
        PROVE  d = c
    <3>1. publisher[c].topic = TopicOf[s] /\ publisher[d].topic = TopicOf[s]
      BY <1>2, <1>7, <2>1 DEF EventInv, Registered
    <3>2. publisher[c].pc # "none" /\ publisher[d].pc # "none"
      BY <1>2, <1>7, <2>1 DEF EventInv, PublishersApart
    <3> QED BY <3>1, <3>2 DEF ServerInv, OnePublisher
  <2>2. \A d \in Chan : s \notin publisher'[d].batch
    BY <1>2, <2>1, PublishOnePublishers
  <2>3. \A r \in Sub : \A d \in Chan : r \in publisher'[d].batch =>
          r # s /\ r \in publisher[d].batch /\ publisher'[d].event = publisher[d].event
    BY <1>2, <2>2, PublishOnePublishers
  <2> QED BY <1>1, <1>4, <1>7, <2>3 DEF ServerInv, Ahead
<1>10. Pushed' /\ PushedInOrder'
  BY <1>1, <1>2, PushedStays
<1> QED BY <1>2, <1>5, <1>6, <1>8, <1>9, <1>10 DEF ServerInv

(* The goroutine of a subscription takes the event it holds, or returns.   *)
LEMMA TakeStep ==
  ASSUME ServerInv, NEW s \in Sub, TakeEvent(s) \/ LogsUndecoded(s)
  PROVE  ServerInv'
<1>1. /\ UNCHANGED <<conn, loop, serving, subs, owner, pushed, cutoff>>
      /\ UNCHANGED <<topics, subscribers, eventClosed, publisher, topicChans, made, closed,
                     errClosed, consumer, remote, sent, call, crash>>
  BY DEF TakeEvent, LogsUndecoded, wsVars, connVars, busVars, loopVars
<1>2. /\ EventInv /\ Past' = Past /\ Past \in Int
      /\ held \in [Sub -> 0 .. MaxEvents] /\ reader \in [Sub -> ReaderState]
  BY <1>1, PastNumber, ZenonT(30) DEF ServerInv, EventInv, EventTypes, Past
<1>3. reader \in [Sub -> {"none", "waiting", "holding", "writing", "done"}]
  BY ZenonT(30) DEF ServerInv, ServerTypeOK
<1>4. /\ reader[s] = "holding"
      /\ \E r \in {"waiting", "writing", "done"}, n \in 0 .. MaxNotifications :
           /\ reader' = [reader EXCEPT ![s] = r] /\ todo' = [todo EXCEPT ![s] = n]
           /\ held' = [held EXCEPT ![s] = IF r = "writing" THEN held[s] ELSE 0]
           /\ r = "writing" => n > 0
  <2>1. CASE TakeEvent(s)
    <3>1. PICK n \in notifications(s) :
            /\ todo' = [todo EXCEPT ![s] = n]
            /\ reader' = [reader EXCEPT ![s] = IF n = 0 THEN "waiting" ELSE "writing"]
            /\ held' = [held EXCEPT ![s] = IF n = 0 THEN 0 ELSE held[s]]
      BY <2>1 DEF TakeEvent
    <3>2. n \in 0 .. MaxNotifications
      BY NotificationAssumption DEF notifications
    <3>3. reader[s] = "holding"
      BY <2>1 DEF TakeEvent
    <3>4. CASE n = 0
      BY <3>1, <3>2, <3>3, <3>4
    <3>5. CASE n # 0
      <4>1. n > 0
        BY <3>2, <3>5, NotificationAssumption
      <4> QED BY <3>1, <3>2, <3>3, <3>5, <4>1
    <3> QED BY <3>4, <3>5
  <2>2. CASE LogsUndecoded(s)
    <3>1. /\ reader[s] = "holding" /\ reader' = [reader EXCEPT ![s] = "done"]
          /\ held' = [held EXCEPT ![s] = 0] /\ todo' = todo
      BY <2>2 DEF LogsUndecoded, wsVars
    <3>2. todo = [todo EXCEPT ![s] = todo[s]] /\ todo[s] \in 0 .. MaxNotifications
      BY ServerTypes
    <3> QED BY <3>1, <3>2
  <2> QED BY <2>1, <2>2
<1>5. PICK r \in {"waiting", "writing", "done"}, n \in 0 .. MaxNotifications :
        /\ reader' = [reader EXCEPT ![s] = r] /\ todo' = [todo EXCEPT ![s] = n]
        /\ held' = [held EXCEPT ![s] = IF r = "writing" THEN held[s] ELSE 0]
        /\ r = "writing" => n > 0
  BY <1>4
<1>6. EventInv'
  <2>1. held' \in {held, [held EXCEPT ![s] = 0]}
    BY <1>2, <1>5
  <2> QED BY <1>1, <1>2, <1>4, <1>5, <2>1, ReaderKeeps DEF ReaderState
<1>7. /\ \A q \in Sub \ {s} : todo'[q] = todo[q] /\ held'[q] = held[q] /\ reader'[q] = reader[q]
      /\ held'[s] = (IF r = "writing" THEN held[s] ELSE 0) /\ reader'[s] = r /\ todo'[s] = n
      /\ todo' \in [Sub -> 0 .. MaxNotifications]
  BY <1>2, <1>5, ServerTypes
<1>8. ServerTypeOK'
  <2>1. reader' \in [Sub -> {"none", "waiting", "holding", "writing", "done"}]
    BY <1>3, <1>5
  <2> QED BY <1>1, <1>7, <2>1, ZenonT(30) DEF ServerInv, ServerTypeOK
<1>9. Owned' /\ OnePublisher'
  BY <1>1, OwnedStays DEF ServerInv, OnePublisher
<1>10. Ahead'
  <2>1. Older(pushed[s], held[s])
    BY <1>4 DEF ServerInv, Ahead
  <2>2. held[s] > 0 /\ held[s] <= cutoff[s]
    BY <1>4 DEF ServerInv, Ahead
  <2>3. /\ held[s] \in Int /\ cutoff[s] \in Int /\ \A c \in Chan : publisher[c].event \in Int
    BY <1>2, ServerTypes DEF EventInv, EventTypes, Publisher
  <2>4. held'[s] <= cutoff[s]
    <3>1. held'[s] \in {held[s], 0}
      BY <1>7, ZenonT(30)
    <3> QED BY <2>2, <2>3, <3>1
  <2>5. \A c \in Chan : s \in publisher[c].batch => held'[s] < publisher[c].event
    <3>1. \A c \in Chan : s \in publisher[c].batch => held[s] < publisher[c].event
      BY DEF ServerInv, Ahead
    <3> QED BY <1>7, <2>2, <2>3, <3>1
  <2>6. r = "writing" => held'[s] > 0 /\ \A i \in DOMAIN pushed[s] :
          Precedes(pushed[s][i], <<held'[s], todo'[s]>>)
    BY <1>7, <2>1, <2>2, ServerTypes DEF Older, Precedes
  <2> QED BY <1>1, <1>5, <1>7, <2>4, <2>5, <2>6, ZenonT(30) DEF ServerInv, Ahead
<1>11. Pushed' /\ PushedInOrder'
  BY <1>1, <1>2, PushedStays
<1> QED BY <1>6, <1>8, <1>9, <1>10, <1>11 DEF ServerInv

(* A notification is written: it comes after all those written before.     *)
LEMMA WriteStep ==
  ASSUME ServerInv, NEW s \in Sub, WriteNotification(s)
  PROVE  ServerInv'
<1> DEFINE n == <<held[s], todo[s]>>
<1>1. /\ UNCHANGED <<loop, serving, subs, owner, cutoff>>
      /\ UNCHANGED <<topics, subscribers, eventClosed, publisher, topicChans, made, closed,
                     errClosed, consumer, remote, sent, call, crash>>
  BY ZenonT(30) DEF WriteNotification, busVars, loopVars
<1>2. /\ EventInv /\ Past' = Past /\ Past \in Int
      /\ held \in [Sub -> 0 .. MaxEvents] /\ reader \in [Sub -> ReaderState]
  BY <1>1, PastNumber, ZenonT(30) DEF ServerInv, EventInv, EventTypes, Past
<1>3. reader \in [Sub -> {"none", "waiting", "holding", "writing", "done"}]
  BY ZenonT(30) DEF ServerInv, ServerTypeOK
<1>4. /\ reader[s] = "writing"
      /\ \/ pushed' = [pushed EXCEPT ![s] = Append(@, n)] /\ UNCHANGED conn
         \/ /\ conn' \in {conn, [conn EXCEPT ![owner[s]] = "closed"]}
            /\ UNCHANGED pushed
      /\ todo' = [todo EXCEPT ![s] = @ - 1]
      /\ reader' = [reader EXCEPT ![s] = IF todo[s] = 1 THEN "waiting" ELSE @]
      /\ held' = [held EXCEPT ![s] = IF todo[s] = 1 THEN 0 ELSE @]
  BY ZenonT(30) DEF WriteNotification
<1>5. /\ held[s] \in 1 .. MaxEvents /\ todo[s] \in 1 .. MaxNotifications
      /\ held[s] \in Int /\ todo[s] \in Int /\ cutoff[s] \in Int
      /\ held[s] > 0 /\ todo[s] > 0
      /\ held[s] <= cutoff[s] /\ held[s] <= Past /\ call[s] = "subscribed"
      /\ \A i \in DOMAIN pushed[s] : Precedes(pushed[s][i], n)
  <2>1. held[s] \in 0 .. MaxEvents /\ todo[s] \in 0 .. MaxNotifications
    BY <1>2, ServerTypes
  <2>2. held[s] > 0 /\ todo[s] > 0 /\ held[s] <= cutoff[s]
    BY <1>4 DEF ServerInv, Ahead
  <2>3. \A i \in DOMAIN pushed[s] : Precedes(pushed[s][i], n)
    BY <1>4 DEF ServerInv, Ahead
  <2>4. held[s] <= Past /\ call[s] = "subscribed"
    BY <1>2, <1>4 DEF EventInv, EventsPast, Registered
  <2>5. /\ held[s] \in 1 .. MaxEvents /\ todo[s] \in 1 .. MaxNotifications
        /\ held[s] \in Int /\ todo[s] \in Int /\ cutoff[s] \in Int
    BY <2>1, <2>2, ServerTypes
  <2> QED BY <2>2, <2>3, <2>4, <2>5, ZenonT(30)
<1>6. EventInv'
  <2>1. held' \in {held, [held EXCEPT ![s] = 0]}
    BY <1>2, <1>4
  <2>2. reader' = [reader EXCEPT ![s] = IF todo[s] = 1 THEN "waiting" ELSE "writing"]
    BY <1>4
  <2> QED BY <1>1, <1>2, <1>4, <2>1, <2>2, ReaderKeeps DEF ReaderState
<1>7. /\ \A q \in Sub \ {s} : todo'[q] = todo[q] /\ held'[q] = held[q] /\ reader'[q] = reader[q]
      /\ todo'[s] = todo[s] - 1 /\ todo' \in [Sub -> 0 .. MaxNotifications]
      /\ held'[s] = (IF todo[s] = 1 THEN 0 ELSE held[s])
      /\ reader'[s] = (IF todo[s] = 1 THEN "waiting" ELSE "writing")
  <2>1. todo[s] - 1 \in 0 .. MaxNotifications
    BY <1>5, NotificationAssumption
  <2>2. todo'[s] = todo[s] - 1 /\ todo' \in [Sub -> 0 .. MaxNotifications]
    BY <1>4, <2>1, ServerTypes
  <2> HIDE DEF n
  <2> QED BY <1>2, <1>4, <2>2, ServerTypes
<1> DEFINE Notification == (1 .. MaxEvents) \X (1 .. MaxNotifications)
<1>8. n \in Notification /\ n[1] = held[s] /\ n[2] = todo[s]
  BY <1>5
<1>9. pushed \in [Sub -> Seq(Notification)]
  BY ZenonT(30) DEF ServerInv, ServerTypeOK
<1> HIDE DEF n, Notification
<1>10. /\ pushed' \in [Sub -> Seq(Notification)]
       /\ \A q \in Sub \ {s} : pushed'[q] = pushed[q]
       /\ pushed'[s] \in {pushed[s], Append(pushed[s], n)}
  <2>1. pushed[s] \in Seq(Notification) /\ Append(pushed[s], n) \in Seq(Notification)
    BY <1>8, <1>9
  <2>2. CASE pushed' = [pushed EXCEPT ![s] = Append(@, n)]
    BY <1>9, <2>1, <2>2
  <2>3. CASE UNCHANGED pushed
    BY <1>9, <2>3
  <2> QED BY <1>4, <2>2, <2>3
<1>11. /\ \A i \in DOMAIN pushed'[s] : \/ i \in DOMAIN pushed[s] /\ pushed'[s][i] = pushed[s][i]
                                       \/ pushed'[s][i] = n
       /\ \A i, j \in DOMAIN pushed'[s] : i < j =>
            i \in DOMAIN pushed[s] /\ pushed'[s][i] = pushed[s][i]
  <2>1. pushed[s] \in Seq(Notification)
    BY <1>9
  <2>2. CASE pushed'[s] = pushed[s]
    BY <2>2
  <2>3. CASE pushed'[s] = Append(pushed[s], n)
    BY <1>8, <2>1, <2>3
  <2> QED BY <1>10, <2>2, <2>3
<1>12. ServerTypeOK'
  <2>1. reader' \in [Sub -> {"none", "waiting", "holding", "writing", "done"}]
    BY <1>3, <1>4
  <2>2. conn' \in [Conn -> {"open", "gone", "closed"}]
    BY <1>4, ServerTypes
  <2>3. pushed' \in [Sub -> Seq((1 .. MaxEvents) \X (1 .. MaxNotifications))]
    BY <1>10, ZenonT(30) DEF Notification
  <2> QED BY <1>1, <1>7, <2>1, <2>2, <2>3, ZenonT(30) DEF ServerInv, ServerTypeOK
<1>13. Owned' /\ OnePublisher'
  BY <1>1, OwnedStays DEF ServerInv, OnePublisher
<1>14. Ahead'
  <2>1. ASSUME NEW i \in DOMAIN pushed'[s]
        PROVE  /\ pushed'[s][i][1] \in Int /\ pushed'[s][i][1] <= held[s]
               /\ Precedes(pushed'[s][i], <<held[s], todo[s] - 1>>)
    <3>1. pushed'[s][i] = n \/ Precedes(pushed'[s][i], n)
      BY <1>5, <1>11, ZenonT(30)
    <3>2. pushed'[s][i][1] \in Int /\ pushed'[s][i][2] \in Int
      BY <1>5, <1>8, <1>11, PushedNumbers, ZenonT(30)
    <3> QED BY <1>5, <1>8, <3>1, <3>2, WrittenPrecedes, ZenonT(30)
  <2>2. /\ held'[s] \in Int /\ held'[s] <= held[s] /\ held'[s] <= cutoff[s]
        /\ todo[s] # 1 => held'[s] > 0 /\ todo[s] - 1 > 0
    <3>1. held'[s] \in {0, held[s]} /\ (todo[s] # 1 => held'[s] = held[s])
      BY <1>7, ZenonT(30)
    <3>2. held'[s] \in Int /\ held'[s] <= held[s]
      BY <1>5, <3>1, HeldOrNothing, ZenonT(30)
    <3>3. held'[s] <= cutoff[s]
      BY <1>5, <3>2, AtMost, ZenonT(30)
    <3>4. todo[s] # 1 => held'[s] > 0 /\ todo[s] - 1 > 0
      BY <1>5, <3>1, MoreToWrite, ZenonT(30)
    <3> QED BY <3>2, <3>3, <3>4
  <2>3. ASSUME NEW c \in Chan, s \in publisher[c].batch
        PROVE  held'[s] < publisher[c].event /\ Older(pushed'[s], publisher[c].event)
    <3>1. publisher[c].event \in Int /\ held[s] < publisher[c].event
      BY <1>2, <2>3, EventNumbers, ZenonT(30) DEF ServerInv, Ahead
    <3> QED BY <1>5, <2>1, <2>2, <3>1, LessThan, ZenonT(30) DEF Older
  <2>4. ASSUME reader'[s] = "writing"
        PROVE  /\ held'[s] > 0 /\ todo'[s] > 0
               /\ \A i \in DOMAIN pushed'[s] : Precedes(pushed'[s][i], <<held'[s], todo'[s]>>)
    <3>1. todo[s] # 1
      BY <1>7, <2>4, ZenonT(30)
    <3>2. held'[s] = held[s] /\ todo'[s] = todo[s] - 1
      BY <1>7, <3>1, ZenonT(30)
    <3> QED BY <2>1, <2>2, <3>1, <3>2, ZenonT(30)
  <2>5. reader'[s] # "holding"
    BY <1>7, ZenonT(30)
  <2>6. \A c \in Chan : s \in publisher[c].batch => publisher[c].event <= cutoff[s]
    BY ZenonT(30) DEF ServerInv, Ahead
  <2> QED BY <1>1, <1>7, <1>10, <2>2, <2>3, <2>4, <2>5, <2>6, ZenonT(30) DEF ServerInv, Ahead
<1>15. Pushed'
  <2>1. \A i \in DOMAIN pushed'[s] : pushed'[s][i][1] <= Past /\ pushed'[s][i][1] <= cutoff[s]
    BY <1>5, <1>8, <1>11 DEF ServerInv, Pushed
  <2> QED BY <1>1, <1>2, <1>5, <1>10, <2>1 DEF ServerInv, Pushed
<1>16. PushedInOrder'
  <2>1. ASSUME NEW i \in DOMAIN pushed'[s], NEW j \in DOMAIN pushed'[s], i < j
        PROVE  Precedes(pushed'[s][i], pushed'[s][j])
    BY <1>5, <1>11, <2>1 DEF ServerInv, PushedInOrder, Precedes
  <2>2. ASSUME NEW q \in Sub
        PROVE  \A i, j \in DOMAIN pushed'[q] :
                 i < j => Precedes(pushed'[q][i], pushed'[q][j])
    <3>1. CASE q = s
      BY <2>1, <3>1
    <3>2. CASE q # s
      <4>1. pushed'[q] = pushed[q]
        BY <1>10, <3>2
      <4> QED BY <4>1 DEF ServerInv, PushedInOrder, Precedes
    <3> QED BY <3>1, <3>2
  <2> QED BY <2>2 DEF PushedInOrder, Precedes
<1> QED BY <1>6, <1>12, <1>13, <1>14, <1>15, <1>16 DEF ServerInv

(* ServerInv is inductive.                                                 *)
LEMMA ServerInvariant ==
  ServerSpec => []ServerInv
<1>1. ServerInit => ServerInv
  BY ServerStarts
<1>2. ServerInv /\ [ServerNext]_serverVars => ServerInv'
  <2> SUFFICES ASSUME ServerInv, [ServerNext]_serverVars PROVE ServerInv'
    OBVIOUS
  <2>1. CASE UNCHANGED serverVars
    <3>1. UNCHANGED <<eventVars, conn, loop, serving, subs, owner, todo, pushed, cutoff>>
      BY <2>1 DEF serverVars, wsVars, connVars
    <3>2. EventInv' /\ Past' = Past
      BY <3>1, EventUnchanged DEF ServerInv
    <3>3. UNCHANGED <<topics, subscribers, eventClosed, errClosed, closed, publisher, call,
                      reader, held, crash>>
      BY <3>1 DEF eventVars, busVars, loopVars, readerVars
    <3>4. ServerTypeOK'
      BY <3>1, <3>3, ZenonT(30) DEF ServerInv, ServerTypeOK
    <3>5. Owned' /\ OnePublisher'
      BY <3>1, <3>3, OwnedStays DEF ServerInv, OnePublisher
    <3>6. Ahead'
      BY <3>1, <3>3, AheadStays
    <3>7. Pushed' /\ PushedInOrder'
      BY <3>1, <3>2, <3>3 DEF ServerInv, Pushed, PushedInOrder
    <3> QED BY <3>2, <3>4, <3>5, <3>6, <3>7 DEF ServerInv
  <2>2. CASE InstallStep
    BY <2>2, QuietSteps DEF InstallStep
  <2>3. CASE ConsumeStep
    BY <2>3, SendStep, QuietSteps DEF ConsumeStep
  <2>4. ASSUME NEW ch \in Chan, PublishStep(ch) PROVE ServerInv'
    BY <2>4, PublishStepKeeps DEF PublishStep
  <2>5. ASSUME NEW t \in Topic, ReceiveEvent(t), UNCHANGED wsVars PROVE ServerInv'
    BY <2>5, QuietSteps
  <2>6. ASSUME NEW c \in Conn, Disconnect(c) \/ ReadLoopStep(c) PROVE ServerInv'
    BY <2>6, ConnectionSteps, AskEventSystemStep, SubscribedStep, UnsubscribeStep
    DEF ReadLoopStep
  <2>7. ASSUME NEW c \in Conn, NEW s \in Sub, ReadSubscribe(c, s) \/ ReadUnsubscribe(c, s)
        PROVE  ServerInv'
    BY <2>7, ReadSubscribeStep, UnsubscribeStep
  <2>8. ASSUME NEW s \in Sub, TakeEvent(s) \/ LogsUndecoded(s) \/ WriteNotification(s)
        PROVE  ServerInv'
    BY <2>8, TakeStep, WriteStep
  <2> QED BY <2>1, <2>2, <2>3, <2>4, <2>5, <2>6, <2>7, <2>8 DEF ServerNext
<1> QED BY <1>1, <1>2, PTL DEF ServerSpec

(* Whatever connections subscribe, cancel and close meanwhile, a client    *)
(* receives the notifications of a subscription in the order of the events *)
(* and none of them twice.                                                 *)
THEOREM PushesInOrder ==
  ServerSpec => []PushedInOrder
<1>1. ServerInv => PushedInOrder
  BY DEF ServerInv
<1> QED BY <1>1, ServerInvariant, PTL

(* Every subscription the bus has is one that the readLoop of its          *)
(* connection has an unsubscribe function of, and that loop has not ended. *)
THEOREM SubscriptionsHaveConnections ==
  ServerSpec => []NoOrphanSubscription
<1>1. ServerInv => NoOrphanSubscription
  BY DEF ServerInv, Owned, NoOrphanSubscription
<1> QED BY <1>1, ServerInvariant, PTL

(* From eth_unsubscribe on, no event the server receives is notified.      *)
THEOREM UnsubscribeIsFinal ==
  ServerSpec => []NothingAfterUnsubscribe
<1>1. ServerInv => NothingAfterUnsubscribe
  BY DEF ServerInv, Pushed, NothingAfterUnsubscribe
<1> QED BY <1>1, ServerInvariant, PTL

==============================================================================
