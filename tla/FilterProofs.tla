----------------------------- MODULE FilterProofs -----------------------------
(***************************************************************************)
(* Theorems about the polling filters (FilterAPI), for every set of        *)
(* subscriptions and topics and any number of events.                      *)
(***************************************************************************)
EXTENDS FilterAPI, EventProofs

(* Zenon is tried first, the SMT solver on what it leaves, then both again *)
(* with more time.                                                         *)
USE ZenonT(5), SMTT(20), Z3T(20), ZenonT(30), SMTT(30)

-----------------------------------------------------------------------------
(* The invariant of the filters.                                           *)

(* A filter is uninstalled once, and its timer still has its value.        *)
UninstalledOnce ==
  /\ \A s \in filters : /\ deadline[s] \in {"running", "fired"} /\ call[s] = "subscribed"
                        /\ leaving[s] = 0 /\ s \notin errClosed
  /\ \A s \in Sub : /\ leaving[s] \in {0, 1}
                    /\ leaving[s] = 1 => call[s] = "subscribed" /\ s \notin errClosed
  /\ \A s \in errClosed : call[s] = "subscribed"
  /\ \A s \in eventClosed : call[s] = "subscribed" /\ s \notin subscribers[TopicOf[s]]

Received(s) == polled[s] \o hashes[s]
Fresh(e, seq) == \A i \in DOMAIN seq : seq[i] # e

(* An event on its way to a filter is none that the filter has.            *)
OnItsWay ==
  \A s \in Sub :
    /\ call[s] # "subscribed" => polled[s] = <<>> /\ hashes[s] = <<>>
    /\ \A i \in DOMAIN Received(s) : Received(s)[i] <= Past
    /\ reader[s] = "holding" => held[s] > 0 /\ Fresh(held[s], Received(s))
    /\ \A c \in Chan : s \in publisher[c].batch =>
         held[s] # publisher[c].event /\ Fresh(publisher[c].event, Received(s))

ApiTypes ==
  /\ filters \subseteq Sub /\ eventClosed \subseteq Sub /\ errClosed \subseteq Sub
  /\ leaving \in [Sub -> Nat] /\ deadline \in [Sub -> {"none", "running", "fired", "drained"}]
  /\ hashes \in [Sub -> Seq(1 .. MaxEvents)] /\ polled \in [Sub -> Seq(1 .. MaxEvents)]

FilterInv ==
  /\ EventInv /\ ApiTypes /\ UninstalledOnce /\ OnItsWay
  /\ PollNeverBlocks /\ ClosedOnce /\ NoEventTwice

-----------------------------------------------------------------------------
(* The polling filters.                                                    *)

(* The uninstall case, the end of a publisher and the crash of             *)
(* consumeEvents keep EventInv.                                            *)
LEMMA UninstallKeeps ==
  ASSUME EventInv, NEW s \in Sub, Uninstall(s)
  PROVE  EventInv' /\ Past' = Past
<1>1. UNCHANGED <<subscribers, publisher, made, consumer, call, sent, reader, held>>
  BY DEF Uninstall, readerVars
<1>2. remote' \in SUBSET Topic /\ topics' \in [Topic -> Nat] /\ topicChans' \in [Topic -> Nat]
  <2>1. \/ UNCHANGED <<topics, topicChans>>
        \/ /\ topics' = [topics EXCEPT ![TopicOf[s]] = NoChan]
           /\ topicChans' = [topicChans EXCEPT ![TopicOf[s]] = NoChan]
    BY ZenonT(30) DEF Uninstall
  <2>2. remote' \subseteq remote
    BY DEF Uninstall
  <2>3. NoChan \in Nat
    BY DEF NoChan
  <2> QED BY <2>1, <2>2, <2>3 DEF EventInv, EventTypes
<1>3. EventTypes'
  BY <1>1, <1>2 DEF EventInv, EventTypes
<1> QED BY <1>1, <1>3 DEF EventInv, EventsPast, Past, PublishersApart, Registered

(* closeAllSubscribers ends the publisher of one channel, which has no     *)
(* event then, and leaves the events of the others.                        *)
LEMMA ClosePublishers ==
  ASSUME EventInv, NEW c \in Chan, CloseAllSubscribers(c)
  PROVE  /\ publisher' \in [Chan -> Publisher] /\ publisher[c].topic \in Topic
         /\ \A d \in Chan :
              /\ publisher'[d].topic = publisher[d].topic
              /\ publisher'[d].event = publisher[d].event
              /\ publisher'[d].batch = publisher[d].batch
              /\ IF d = c THEN publisher'[d].pc = "deleting" /\ publisher[d].batch = {}
                          ELSE publisher'[d].pc = publisher[d].pc
<1> DEFINE t == publisher[c].topic
<1>1. /\ publisher[c].pc = "receiving"
      /\ publisher' = [d \in Chan |->
           IF d = c THEN [publisher[d] EXCEPT !.pc = "deleting"]
           ELSE IF d \in iterating(t) THEN [publisher[d] EXCEPT !.shared = FALSE]
           ELSE publisher[d]]
  BY ZenonT(30) DEF CloseAllSubscribers
<1>2. publisher[c].batch = {} /\ publisher[c].topic \in Topic
  BY <1>1 DEF EventInv, PublishersApart, Registered
<1> HIDE DEF t
<1>3. ASSUME NEW d \in Chan
      PROVE  /\ publisher'[d] \in Publisher
             /\ publisher'[d].topic = publisher[d].topic
             /\ publisher'[d].event = publisher[d].event
             /\ publisher'[d].batch = publisher[d].batch
             /\ IF d = c THEN publisher'[d].pc = "deleting" ELSE publisher'[d].pc = publisher[d].pc
  <2>1. publisher[d] \in Publisher
    BY DEF EventInv, EventTypes
  <2>2. CASE d = c
    <3>1. publisher'[d] = [publisher[d] EXCEPT !.pc = "deleting"]
      BY <1>1, <2>2
    <3> QED BY <2>1, <2>2, <3>1 DEF Publisher
  <2>3. CASE d # c /\ d \in iterating(t)
    <3>1. publisher'[d] = [publisher[d] EXCEPT !.shared = FALSE]
      BY <1>1, <2>3
    <3> QED BY <2>1, <2>3, <3>1, ZenonT(30) DEF Publisher
  <2>4. CASE d # c /\ d \notin iterating(t)
    BY <1>1, <2>1, <2>4
  <2> QED BY <2>2, <2>3, <2>4
<1> QED BY <1>1, <1>2, <1>3

(* closeAllSubscribers keeps EventInv.                                     *)
LEMMA CloseKeeps ==
  ASSUME EventInv, NEW c \in Chan, CloseAllSubscribers(c)
  PROVE  EventInv' /\ Past' = Past
<1>1. /\ subscribers' = [subscribers EXCEPT ![publisher[c].topic] = {}]
      /\ UNCHANGED <<topics, topicChans, made, consumer, remote, call, sent, reader, held>>
  BY ZenonT(30) DEF CloseAllSubscribers, loopVars, readerVars
<1>2. EventTypes'
  BY <1>1, ClosePublishers DEF EventInv, EventTypes
<1>3. EventsPast' /\ Past' = Past
  BY <1>1, ClosePublishers DEF EventInv, EventsPast, Past
<1>4. PublishersApart'
  <2>1. PublishersApart
    BY DEF EventInv
  <2> QED BY <2>1, ClosePublishers DEF PublishersApart
<1>5. Registered'
  <2>1. Registered
    BY DEF EventInv
  <2>2. \A t \in Topic : subscribers'[t] \subseteq subscribers[t]
    BY <1>1 DEF EventInv, EventTypes
  <2>3. \A d \in Chan : publisher'[d].pc # "none" => publisher'[d].topic \in Topic
    BY <2>1, ClosePublishers DEF Registered
  <2>4. \A d \in Chan : /\ publisher'[d].batch = publisher[d].batch
                        /\ publisher'[d].topic = publisher[d].topic
    BY ClosePublishers
  <2> QED BY <1>1, <2>1, <2>2, <2>3, <2>4 DEF Registered
<1> QED BY <1>2, <1>3, <1>4, <1>5 DEF EventInv

(* Deleting the topic of a publisher that ended keeps EventInv.            *)
LEMMA DeleteKeeps ==
  ASSUME EventInv, NEW c \in Chan, DeleteTopic(c)
  PROVE  /\ EventInv' /\ Past' = Past
         /\ \A d \in Chan : /\ publisher'[d].batch = publisher[d].batch
                            /\ publisher'[d].event = publisher[d].event
<1>1. /\ publisher[c].pc = "deleting" /\ publisher' = [publisher EXCEPT ![c].pc = "done"]
      /\ topics' = [topics EXCEPT ![publisher[c].topic] = NoChan]
      /\ UNCHANGED <<subscribers, topicChans, made, consumer, remote, call, sent, reader, held>>
  BY DEF DeleteTopic, loopVars, readerVars
<1>2. publisher \in [Chan -> Publisher] /\ topics \in [Topic -> Nat] /\ NoChan \in Nat
  BY DEF EventInv, EventTypes, NoChan
<1>3. /\ publisher' \in [Chan -> Publisher]
      /\ \A d \in Chan :
           /\ publisher'[d].batch = publisher[d].batch
           /\ publisher'[d].event = publisher[d].event
           /\ publisher'[d].topic = publisher[d].topic
           /\ publisher'[d].pc = IF d = c THEN "done" ELSE publisher[d].pc
  BY <1>1, <1>2 DEF Publisher
<1>4. EventTypes'
  BY <1>1, <1>2, <1>3 DEF EventInv, EventTypes
<1>5. EventsPast' /\ Past' = Past
  BY <1>1, <1>3 DEF EventInv, EventsPast, Past
<1>6. PublishersApart' /\ Registered'
  BY <1>1, <1>3 DEF EventInv, PublishersApart, Registered
<1> QED BY <1>3, <1>4, <1>5, <1>6 DEF EventInv

(* A send on a closed channel changes nothing that EventInv is about.      *)
LEMMA SendClosedKeeps ==
  ASSUME EventInv, SendClosed
  PROVE  EventInv' /\ Past' = Past
<1>1. UNCHANGED <<subscribers, publisher, topics, topicChans, made, consumer, remote, call, sent,
                  reader, held>>
  BY DEF SendClosed, busVars, loopVars, readerVars
<1> QED BY <1>1, EventSame

(* What the invariant says of the types, for the steps that follow.        *)
LEMMA FilterTypes ==
  ASSUME FilterInv
  PROVE  /\ EventInv /\ UninstalledOnce /\ OnItsWay /\ NoEventTwice
         /\ filtersMu # Poll /\ crash # "second close"
         /\ filters \subseteq Sub /\ eventClosed \subseteq Sub /\ errClosed \subseteq Sub
         /\ leaving \in [Sub -> Nat]
         /\ deadline \in [Sub -> {"none", "running", "fired", "drained"}]
         /\ hashes \in [Sub -> Seq(1 .. MaxEvents)] /\ polled \in [Sub -> Seq(1 .. MaxEvents)]
         /\ call \in [Sub -> CallState] /\ reader \in [Sub -> ReaderState]
         /\ held \in [Sub -> 0 .. MaxEvents] /\ subscribers \in [Topic -> SUBSET Sub]
         /\ TopicOf \in [Sub -> Topic]
<1>1. EventTypes /\ ApiTypes
  BY DEF FilterInv, EventInv
<1>2. EventInv /\ UninstalledOnce /\ OnItsWay /\ NoEventTwice
      /\ filtersMu # Poll /\ crash # "second close"
  BY DEF FilterInv, PollNeverBlocks, ClosedOnce
<1>3. /\ call \in [Sub -> CallState] /\ reader \in [Sub -> ReaderState]
      /\ held \in [Sub -> 0 .. MaxEvents] /\ subscribers \in [Topic -> SUBSET Sub]
  BY <1>1 DEF EventTypes
<1> QED BY <1>1, <1>2, <1>3, SubAssumption DEF ApiTypes

(* A step that changes none of the types of the filters keeps them.        *)
LEMMA ApiTypesStay ==
  ASSUME FilterInv, filters' \subseteq filters,
         UNCHANGED <<eventClosed, errClosed, leaving, deadline, hashes, polled>>
  PROVE  ApiTypes'
<1>1. ApiTypes
  BY DEF FilterInv
<1> QED BY <1>1 DEF ApiTypes

(* The elements of a sequence, and of two sequences one after the other.   *)
LEMMA SeqFacts ==
  ASSUME NEW S, NEW p \in Seq(S)
  PROVE  /\ Len(p) \in Nat /\ DOMAIN p = 1 .. Len(p) /\ p \o <<>> = p
         /\ \A i \in DOMAIN p : p[i] \in S
<1>1. Len(p) \in Nat /\ DOMAIN p = 1 .. Len(p) /\ \A i \in DOMAIN p : p[i] \in S
  BY SMT
<1>2. p \o <<>> = p
  BY SMT
<1> QED BY <1>1, <1>2

(* Concatenation: its type, its length and its elements.                   *)
LEMMA ConcatFacts ==
  ASSUME NEW S, NEW p \in Seq(S), NEW h \in Seq(S)
  PROVE  /\ p \o h \in Seq(S) /\ Len(p \o h) = Len(p) + Len(h)
         /\ \A i \in 1 .. Len(p) + Len(h) :
              (p \o h)[i] = IF i <= Len(p) THEN p[i] ELSE h[i - Len(p)]
<1>1. p \o h \in Seq(S)
  BY SMT
<1>2. Len(p \o h) = Len(p) + Len(h)
  BY SMT
<1>3. \A i \in 1 .. Len(p) + Len(h) :
        (p \o h)[i] = IF i <= Len(p) THEN p[i] ELSE h[i - Len(p)]
  BY SMT
<1> QED BY <1>1, <1>2, <1>3

(* What a filter received are events.                                      *)
LEMMA ReceivedEvents ==
  ASSUME FilterInv, NEW s \in Sub
  PROVE  /\ polled[s] \in Seq(1 .. MaxEvents) /\ hashes[s] \in Seq(1 .. MaxEvents)
         /\ Received(s) \in Seq(1 .. MaxEvents)
         /\ \A i \in DOMAIN Received(s) : Received(s)[i] \in 1 .. MaxEvents
<1>1. polled[s] \in Seq(1 .. MaxEvents) /\ hashes[s] \in Seq(1 .. MaxEvents)
  BY FilterTypes
<1>2. Received(s) \in Seq(1 .. MaxEvents)
  BY <1>1, ConcatFacts DEF Received
<1> QED BY <1>1, <1>2, SeqFacts

(* A step that gives no filter an event, and puts none on its way, keeps   *)
(* what is said of events.                                                 *)
LEMMA EventsStay ==
  ASSUME FilterInv, EventInv', UNCHANGED <<polled, hashes>>,
         Past \in Int, Past' \in Int, Past' >= Past,
         \A s \in Sub : call[s] = "subscribed" => call'[s] = "subscribed",
         \A s \in Sub : reader'[s] = "holding" => reader[s] = "holding" /\ held'[s] = held[s],
         \A s \in Sub : held'[s] \in {held[s], 0},
         \A c \in Chan : /\ publisher'[c].batch \subseteq publisher[c].batch
                         /\ publisher'[c].batch # {} => publisher'[c].event = publisher[c].event
  PROVE  OnItsWay' /\ NoEventTwice'
<1>1. NoEventTwice'
  <2>1. ASSUME NEW s \in Sub, NEW i \in DOMAIN Received(s)', NEW j \in DOMAIN Received(s)',
               Received(s)'[i] = Received(s)'[j]
        PROVE  i = j
    <3>1. Received(s)' = Received(s)
      BY DEF Received
    <3> QED BY <2>1, <3>1 DEF FilterInv, NoEventTwice, Received
  <2> QED BY <2>1 DEF NoEventTwice, Received
<1>2. ASSUME NEW s \in Sub
      PROVE  /\ call'[s] # "subscribed" => polled'[s] = <<>> /\ hashes'[s] = <<>>
             /\ reader'[s] = "holding" => held'[s] > 0 /\ Fresh(held'[s], Received(s)')
  <2>1. /\ call[s] # "subscribed" => polled[s] = <<>> /\ hashes[s] = <<>>
        /\ reader[s] = "holding" => held[s] > 0 /\ Fresh(held[s], Received(s))
    BY DEF FilterInv, OnItsWay
  <2>2. Received(s)' = Received(s)
    BY DEF Received
  <2> QED BY <2>1, <2>2
<1>3. ASSUME NEW s \in Sub, NEW i \in DOMAIN Received(s)'
      PROVE  Received(s)'[i] <= Past'
  <2>1. Received(s)' = Received(s)
    BY DEF Received
  <2>2. Received(s)[i] <= Past
    BY <1>3, <2>1 DEF FilterInv, OnItsWay
  <2>3. Received(s)[i] \in Int
    <3>1. i \in DOMAIN Received(s)
      BY <1>3, <2>1
    <3>2. Received(s)[i] \in 1 .. MaxEvents
      BY <3>1, ReceivedEvents
    <3> QED BY <3>2, EventAssumption, SMT, Z3
  <2> QED BY <2>1, <2>2, <2>3, SMT, Z3
<1>4. ASSUME NEW s \in Sub, NEW c \in Chan, s \in publisher'[c].batch
      PROVE  held'[s] # publisher'[c].event /\ Fresh(publisher'[c].event, Received(s)')
  <2>1. publisher'[c].event = publisher[c].event /\ s \in publisher[c].batch
    BY <1>4
  <2>2. held[s] # publisher[c].event /\ Fresh(publisher[c].event, Received(s))
    BY <2>1 DEF FilterInv, OnItsWay
  <2>3. publisher'[c].event # 0
    BY <1>4 DEF EventInv, PublishersApart
  <2> QED BY <2>1, <2>2, <2>3 DEF Fresh, Received
<1> QED BY <1>1, <1>2, <1>3, <1>4 DEF OnItsWay

(* A step that adds no filter and closes no channel keeps UninstalledOnce. *)
LEMMA NothingUninstalled ==
  ASSUME FilterInv, filters' \subseteq filters,
         UNCHANGED <<deadline, leaving, errClosed, eventClosed>>,
         \A s \in Sub : call[s] = "subscribed" => call'[s] = "subscribed",
         \A t \in Topic : subscribers'[t] \subseteq subscribers[t]
  PROVE  UninstalledOnce'
<1>1. filters \subseteq Sub /\ errClosed \subseteq Sub /\ eventClosed \subseteq Sub
      /\ TopicOf \in [Sub -> Topic]
  BY FilterTypes
<1> QED BY <1>1 DEF FilterInv, UninstalledOnce

(* The last event consumeEvents is done with is a number.                  *)
LEMMA PastIsInt ==
  ASSUME EventInv, EventInv'
  PROVE  Past \in Int /\ Past' \in Int
<1>1. sent \in Int /\ sent' \in Int
  BY EventAssumption, SMT, Z3 DEF EventInv, EventTypes
<1> QED BY <1>1, SMT, Z3 DEF Past

(* The install case makes a channel for a call that had made none.         *)
LEMMA InstallFilterStep ==
  ASSUME FilterInv, UNCHANGED apiVars, NEW s \in Sub, Install(s)
  PROVE  FilterInv'
<1>1. /\ call[s] = "installing" /\ call' = [call EXCEPT ![s] = "joining"]
      /\ index' = index \cup {s} /\ made' = made + 1
      /\ topicChans' = [topicChans EXCEPT ![TopicOf[s]] = made + 1]
      /\ UNCHANGED <<subscribers, eventClosed, closed, errClosed, consumer, leaving, sent,
                     reader, held, crash>>
  BY DEF Install, readerVars
<1>2. EventInv
  BY FilterTypes
<1>3. EventInv'
  BY <1>2, InstallKeeps
<1>4. ApiTypes'
  BY <1>1, ApiTypesStay DEF apiVars
<1>5. \A r \in Sub : call[r] = "subscribed" => call'[r] = "subscribed"
  BY <1>1, FilterTypes
<1>6. UninstalledOnce'
  BY <1>1, <1>5, NothingUninstalled DEF apiVars
<1>7. OnItsWay' /\ NoEventTwice'
  <2>1. \A c \in Chan : /\ publisher'[c].batch \subseteq publisher[c].batch
                        /\ publisher'[c].batch # {} => publisher'[c].event = publisher[c].event
    BY <1>2, InstallPublishers
  <2>2. Past' = Past /\ Past \in Int /\ polled' = polled /\ hashes' = hashes
    BY <1>1, <1>2, <1>3, PastIsInt DEF Past, apiVars
  <2>3. Past' >= Past
    BY <2>2, SMT, Z3
  <2> QED BY <1>1, <1>3, <1>5, <2>1, <2>2, <2>3, EventsStay
<1>8. PollNeverBlocks' /\ ClosedOnce'
  BY <1>1, FilterTypes DEF apiVars, PollNeverBlocks, ClosedOnce
<1> QED BY <1>3, <1>4, <1>6, <1>7, <1>8 DEF FilterInv

(* Steps of consumeEvents that pass nothing on, and the last step of a     *)
(* publisher.                                                              *)
LEMMA QuietFilterSteps ==
  ASSUME FilterInv, UNCHANGED apiVars,
         \/ \E t \in Topic : ReceiveEvent(t)
         \/ DropEvent \/ SendClosed
         \/ \E c \in Chan : DeleteTopic(c)
  PROVE  FilterInv'
<1>1. EventInv
  BY FilterTypes
<1>2. /\ EventInv' /\ Past' \in Int /\ Past \in Int /\ Past' >= Past
  <2>1. EventInv' /\ (Past' >= Past \/ Past' = Past)
    BY <1>1, ReceiveKeeps, DropKeeps, SendClosedKeeps, DeleteKeeps
  <2> QED BY <1>1, <2>1, PastIsInt, SMT, Z3
<1>3. /\ UNCHANGED <<subscribers, eventClosed, topicChans, made, closed, errClosed, index,
                     call, leaving, reader, held>>
      /\ crash' \in {crash, "send on closed topic channel"}
  <2>1. CASE (\E t \in Topic : ReceiveEvent(t)) \/ DropEvent
    BY <2>1 DEF ReceiveEvent, DropEvent, busVars, loopVars, readerVars
  <2>2. CASE SendClosed
    BY <2>2 DEF SendClosed, Crash, busVars, loopVars, readerVars
  <2>3. CASE \E c \in Chan : DeleteTopic(c)
    BY <2>3 DEF DeleteTopic, loopVars, readerVars
  <2> QED BY <2>1, <2>2, <2>3
<1>4. ApiTypes'
  BY <1>3, ApiTypesStay DEF apiVars
<1>5. UninstalledOnce'
  BY <1>3, NothingUninstalled DEF apiVars
<1>6. OnItsWay' /\ NoEventTwice'
  <2>1. \A c \in Chan : /\ publisher'[c].batch = publisher[c].batch
                        /\ publisher'[c].event = publisher[c].event
    BY <1>1, DeleteKeeps DEF ReceiveEvent, DropEvent, SendClosed, busVars
  <2>2. polled' = polled /\ hashes' = hashes
    BY DEF apiVars
  <2> QED BY <1>2, <1>3, <2>1, <2>2, EventsStay
<1>7. PollNeverBlocks' /\ ClosedOnce'
  BY <1>3, FilterTypes DEF apiVars, PollNeverBlocks, ClosedOnce
<1> QED BY <1>2, <1>4, <1>5, <1>6, <1>7 DEF FilterInv

(* The uninstall case closes the error channel of a subscription that was  *)
(* handed to it once.                                                      *)
LEMMA UninstallFilterStep ==
  ASSUME FilterInv, UNCHANGED apiVars, NEW s \in Sub, Uninstall(s)
  PROVE  FilterInv'
<1>1. EventInv
  BY FilterTypes
<1>2. EventInv' /\ Past' = Past
  BY <1>1, UninstallKeeps
<1>3. /\ leaving[s] > 0 /\ leaving' = [leaving EXCEPT ![s] = @ - 1]
      /\ errClosed' = errClosed \cup {s} /\ index' = index \ {s}
      /\ UNCHANGED <<subscribers, eventClosed, publisher, made, consumer, call, sent, reader, held>>
  BY DEF Uninstall, readerVars
<1>4. leaving[s] = 1 /\ call[s] = "subscribed" /\ s \notin errClosed
  <2>1. leaving[s] \in {0, 1} /\ (leaving[s] = 1 => call[s] = "subscribed" /\ s \notin errClosed)
    BY DEF FilterInv, UninstalledOnce
  <2>2. leaving[s] # 0
    BY <1>3, SMT, Z3
  <2> QED BY <2>1, <2>2
<1>5. crash' = crash
  BY <1>4 DEF Uninstall
<1>6. leaving' = [leaving EXCEPT ![s] = 0]
  BY <1>3, <1>4, SMT, Z3
<1>7. ApiTypes'
  <2>1. ApiTypes
    BY DEF FilterInv
  <2>2. leaving \in [Sub -> Nat] /\ errClosed \subseteq Sub /\ 0 \in Nat
    BY <2>1, SMT, Z3 DEF ApiTypes
  <2>3. leaving' \in [Sub -> Nat] /\ errClosed' \subseteq Sub
    BY <1>3, <1>6, <2>2
  <2> QED BY <1>3, <2>1, <2>3 DEF apiVars, ApiTypes
<1>8. UninstalledOnce'
  <2>1. /\ \A r \in filters : deadline[r] \in {"running", "fired"} /\ call[r] = "subscribed"
                              /\ leaving[r] = 0 /\ r \notin errClosed
        /\ \A r \in Sub : /\ leaving[r] \in {0, 1}
                          /\ leaving[r] = 1 => call[r] = "subscribed" /\ r \notin errClosed
        /\ \A r \in errClosed : call[r] = "subscribed"
        /\ \A r \in eventClosed : call[r] = "subscribed" /\ r \notin subscribers[TopicOf[r]]
    BY DEF FilterInv, UninstalledOnce
  <2>2. filters \subseteq Sub /\ leaving \in [Sub -> Nat]
    BY FilterTypes
  <2>3. s \notin filters
    BY <1>4, <2>1, SMT, Z3
  <2>4. filters' = filters /\ deadline' = deadline
    BY DEF apiVars
  <2> QED BY <1>3, <1>4, <1>6, <2>1, <2>2, <2>3, <2>4 DEF UninstalledOnce
<1>9. OnItsWay' /\ NoEventTwice'
  <2>1. polled' = polled /\ hashes' = hashes
    BY DEF apiVars
  <2>2. Past \in Int /\ Past' \in Int /\ Past' >= Past
    BY <1>1, <1>2, PastIsInt, SMT, Z3
  <2> QED BY <1>2, <1>3, <2>1, <2>2, EventsStay
<1>10. PollNeverBlocks' /\ ClosedOnce'
  BY <1>5, FilterTypes DEF apiVars, PollNeverBlocks, ClosedOnce
<1> QED BY <1>2, <1>7, <1>8, <1>9, <1>10 DEF FilterInv

(* closeAllSubscribers closes channels of subscriptions that the bus has,  *)
(* which it has not closed before.                                         *)
LEMMA CloseFilterStep ==
  ASSUME FilterInv, UNCHANGED apiVars, NEW c \in Chan, CloseAllSubscribers(c)
  PROVE  FilterInv'
<1> DEFINE t == publisher[c].topic
<1>1. EventInv
  BY FilterTypes
<1>2. EventInv' /\ Past' = Past
  BY <1>1, CloseKeeps
<1>3. /\ eventClosed' = eventClosed \cup subscribers[t]
      /\ subscribers' = [subscribers EXCEPT ![t] = {}]
      /\ UNCHANGED <<topics, index, topicChans, made, closed, errClosed, consumer, call, leaving,
                     sent, reader, held>>
  BY DEF CloseAllSubscribers, loopVars, readerVars
<1>4. t \in Topic
  BY <1>1, ClosePublishers
<1>5. crash' = crash
  <2>1. ASSUME NEW s \in subscribers[t] \cap eventClosed
        PROVE  FALSE
    <3>1. TopicOf[s] = t
      BY <1>1, <1>4 DEF EventInv, Registered
    <3> QED BY <3>1 DEF FilterInv, UninstalledOnce
  <2> QED BY <2>1 DEF CloseAllSubscribers
<1> HIDE DEF t
<1>6. subscribers[t] \subseteq Sub
  BY <1>4, FilterTypes
<1>7. ApiTypes'
  <2>1. eventClosed' \subseteq Sub
    BY <1>3, <1>6, FilterTypes
  <2>2. ApiTypes
    BY DEF FilterInv
  <2> QED BY <1>3, <2>1, <2>2 DEF apiVars, ApiTypes
<1>8. UninstalledOnce'
  <2>1. ASSUME NEW s \in eventClosed'
        PROVE  call'[s] = "subscribed" /\ s \notin subscribers'[TopicOf[s]]
    <3>1. CASE s \in subscribers[t]
      <4>1. TopicOf[s] = t /\ call[s] = "subscribed"
        BY <1>1, <1>4, <3>1 DEF EventInv, Registered
      <4>2. subscribers'[t] = {}
        BY <1>3, <1>4, FilterTypes
      <4> QED BY <1>3, <4>1, <4>2
    <3>2. CASE s \in eventClosed
      <4>1. call[s] = "subscribed" /\ s \notin subscribers[TopicOf[s]]
        BY <3>2 DEF FilterInv, UninstalledOnce
      <4>2. TopicOf[s] \in Topic
        BY <3>2, FilterTypes
      <4>3. subscribers'[TopicOf[s]] \subseteq subscribers[TopicOf[s]]
        BY <1>3, <4>2, FilterTypes
      <4> QED BY <1>3, <4>1, <4>3
    <3> QED BY <1>3, <2>1, <3>1, <3>2
  <2>2. filters' = filters /\ deadline' = deadline
    BY DEF apiVars
  <2> QED BY <1>3, <2>1, <2>2 DEF FilterInv, UninstalledOnce
<1>9. OnItsWay' /\ NoEventTwice'
  <2>1. polled' = polled /\ hashes' = hashes
    BY DEF apiVars
  <2>2. Past \in Int /\ Past' \in Int /\ Past' >= Past
    BY <1>1, <1>2, PastIsInt, SMT, Z3
  <2>3. \A d \in Chan : /\ publisher'[d].batch = publisher[d].batch
                        /\ publisher'[d].event = publisher[d].event
    BY <1>1, ClosePublishers
  <2> QED BY <1>2, <1>3, <2>1, <2>2, <2>3, EventsStay
<1>10. PollNeverBlocks' /\ ClosedOnce'
  BY <1>5, FilterTypes DEF apiVars, PollNeverBlocks, ClosedOnce
<1> QED BY <1>2, <1>7, <1>8, <1>9, <1>10 DEF FilterInv

(* A send of consumeEvents puts an event on its way that is newer than all *)
(* a filter has.                                                           *)
LEMMA SendFilterStep ==
  ASSUME FilterInv, UNCHANGED apiVars, SendEvent
  PROVE  FilterInv'
<1>1. EventInv
  BY FilterTypes
<1>2. EventInv' /\ Past \in Nat /\ Past' = consumer.event /\ Past < consumer.event
  BY <1>1, SendKeeps
<1>3. /\ consumer' = waitingConsumer
      /\ UNCHANGED <<topics, subscribers, eventClosed, index, topicChans, made, closed, errClosed,
                     call, leaving, reader, held, crash>>
      /\ UNCHANGED <<filters, deadline, polled, hashes, filtersMu>>
  BY DEF SendEvent, loopVars, readerVars, apiVars
<1>4. ApiTypes'
  BY <1>3, ApiTypesStay
<1>5. UninstalledOnce'
  BY <1>3, NothingUninstalled
<1>6. NoEventTwice'
  <2>1. ASSUME NEW s \in Sub, NEW i \in DOMAIN Received(s)', NEW j \in DOMAIN Received(s)',
               Received(s)'[i] = Received(s)'[j]
        PROVE  i = j
    BY <1>3, <2>1 DEF FilterInv, NoEventTwice, Received
  <2> QED BY <2>1 DEF NoEventTwice, Received
<1>7. OnItsWay'
  <2>1. ASSUME NEW s \in Sub
        PROVE  /\ Received(s)' = Received(s)
               /\ call[s] # "subscribed" => polled[s] = <<>> /\ hashes[s] = <<>>
               /\ reader[s] = "holding" => held[s] > 0 /\ Fresh(held[s], Received(s))
               /\ \A i \in DOMAIN Received(s) : Received(s)[i] <= Past
               /\ \A c \in Chan : s \in publisher[c].batch =>
                    held[s] # publisher[c].event /\ Fresh(publisher[c].event, Received(s))
    BY <1>3, <2>1 DEF FilterInv, OnItsWay, Received
  <2>2. ASSUME NEW s \in Sub, NEW i \in DOMAIN Received(s)
        PROVE  Received(s)[i] < consumer.event
    <3>1. Received(s)[i] \in 1 .. MaxEvents /\ Received(s)[i] <= Past
      BY <2>1, <2>2, ReceivedEvents
    <3>2. consumer.event \in Int
      BY <1>1, EventAssumption, SMT, Z3 DEF EventInv, EventTypes
    <3> QED BY <1>2, <3>1, <3>2, EventAssumption, SMT, Z3
  <2>3. ASSUME NEW s \in Sub
        PROVE  held[s] < consumer.event /\ consumer.event \in Int
    <3>1. held[s] \in Int /\ consumer.event \in Int /\ held[s] <= Past
      BY <1>1, EventAssumption, SMT, Z3 DEF EventInv, EventTypes, EventsPast
    <3> QED BY <1>2, <3>1, SMT, Z3
  <2>4. ASSUME NEW s \in Sub, NEW i \in DOMAIN Received(s)
        PROVE  Received(s)[i] <= Past' /\ Received(s)[i] # consumer.event
    <3>1. Received(s)[i] \in Int
      <4>1. Received(s)[i] \in 1 .. MaxEvents
        BY <2>4, ReceivedEvents
      <4> QED BY <4>1, EventAssumption, SMT, Z3
    <3> QED BY <1>2, <2>2, <2>3, <3>1, SMT, Z3
  <2>5. ASSUME NEW s \in Sub, NEW c \in Chan, s \in publisher'[c].batch
        PROVE  held[s] # publisher'[c].event /\ Fresh(publisher'[c].event, Received(s))
    <3>1. CASE publisher'[c] = publisher[c]
      BY <2>1, <2>5, <3>1
    <3>2. CASE publisher'[c].event = consumer.event
      <4>1. held[s] # consumer.event
        BY <2>3, SMT, Z3
      <4> QED BY <2>4, <3>2, <4>1 DEF Fresh
    <3> QED BY <1>1, <2>5, <3>1, <3>2, SendPublishers
  <2>6. ASSUME NEW s \in Sub
        PROVE  /\ call'[s] # "subscribed" => polled'[s] = <<>> /\ hashes'[s] = <<>>
               /\ reader'[s] = "holding" => held'[s] > 0 /\ Fresh(held'[s], Received(s)')
    BY <1>3, <2>1
  <2> QED BY <1>3, <2>1, <2>4, <2>5, <2>6 DEF OnItsWay
<1>8. PollNeverBlocks' /\ ClosedOnce'
  BY <1>3, FilterTypes DEF PollNeverBlocks, ClosedOnce
<1> QED BY <1>2, <1>4, <1>5, <1>6, <1>7, <1>8 DEF FilterInv

(* publishAllSubscribers hands an event to a reader, which no other        *)
(* publisher has.                                                          *)
LEMMA PublishFilterStep ==
  ASSUME FilterInv, UNCHANGED apiVars, NEW c \in Chan, NEW s \in Sub, PublishOne(c, s)
  PROVE  FilterInv'
<1>1. EventInv
  BY FilterTypes
<1>2. EventInv'
  BY <1>1, PublishOneKeeps
<1>3. /\ UNCHANGED <<topics, subscribers, eventClosed, index, topicChans, made, closed, errClosed,
                     consumer, sent, call, leaving>>
      /\ UNCHANGED <<filters, deadline, polled, hashes, filtersMu>>
      /\ crash' \in {crash, "send on closed event channel"}
  <2>1. CASE s \in eventClosed
    BY <2>1 DEF PublishOne, Crash, loopVars, apiVars
  <2>2. CASE s \notin eventClosed
    BY <2>2 DEF PublishOne, loopVars, apiVars
  <2> QED BY <2>1, <2>2
<1>4. /\ publisher[c].pc = "publishing" /\ s \in publisher[c].batch
      /\ \/ reader' = reader /\ held' = held
         \/ /\ reader' = [reader EXCEPT ![s] = "holding"]
            /\ held' = [held EXCEPT ![s] = publisher[c].event]
  BY <1>1, PublishOneReader DEF readerVars
<1>5. ApiTypes'
  BY <1>3, ApiTypesStay
<1>6. UninstalledOnce'
  BY <1>3, NothingUninstalled
<1>7. NoEventTwice'
  <2>1. ASSUME NEW r \in Sub, NEW i \in DOMAIN Received(r)', NEW j \in DOMAIN Received(r)',
               Received(r)'[i] = Received(r)'[j]
        PROVE  i = j
    BY <1>3, <2>1 DEF FilterInv, NoEventTwice, Received
  <2> QED BY <2>1 DEF NoEventTwice, Received
<1>8. OnItsWay'
  <2>1. ASSUME NEW r \in Sub
        PROVE  /\ Received(r)' = Received(r) /\ Past' = Past
               /\ call[r] # "subscribed" => polled[r] = <<>> /\ hashes[r] = <<>>
               /\ reader[r] = "holding" => held[r] > 0 /\ Fresh(held[r], Received(r))
               /\ \A i \in DOMAIN Received(r) : Received(r)[i] <= Past
               /\ \A d \in Chan : r \in publisher[d].batch =>
                    held[r] # publisher[d].event /\ Fresh(publisher[d].event, Received(r))
    BY <1>3, <2>1 DEF FilterInv, OnItsWay, Received, Past
  <2>2. ASSUME NEW r \in Sub
        PROVE  \/ reader'[r] = reader[r] /\ held'[r] = held[r]
               \/ r = s /\ held'[r] = publisher[c].event
    BY <1>4, FilterTypes
  <2>3. publisher[c].event > 0 /\ Fresh(publisher[c].event, Received(s))
    BY <1>1, <1>4, <2>1 DEF EventInv, PublishersApart
  <2>4. ASSUME NEW r \in Sub, reader'[r] = "holding"
        PROVE  held'[r] > 0 /\ Fresh(held'[r], Received(r))
    BY <2>1, <2>2, <2>3, <2>4
  <2>5. ASSUME NEW r \in Sub, NEW d \in Chan, r \in publisher'[d].batch
        PROVE  held'[r] # publisher'[d].event /\ Fresh(publisher'[d].event, Received(r))
    <3>1. /\ r \in publisher[d].batch /\ publisher'[d].event = publisher[d].event
          /\ d = c => r # s
      BY <1>1, <2>5, PublishOnePublishers
    <3>2. held[r] # publisher[d].event /\ Fresh(publisher[d].event, Received(r))
      BY <2>1, <3>1
    <3>3. CASE held'[r] = held[r]
      BY <3>1, <3>2, <3>3
    <3>4. CASE r = s /\ held'[r] = publisher[c].event
      <4>1. d # c /\ publisher[d].pc = "publishing"
        BY <1>1, <3>1, <3>4 DEF EventInv, PublishersApart
      <4>2. publisher[d].event # publisher[c].event
        BY <1>1, <1>4, <4>1 DEF EventInv, PublishersApart
      <4> QED BY <3>1, <3>2, <3>4, <4>2
    <3> QED BY <2>2, <3>3, <3>4
  <2> QED BY <1>3, <2>1, <2>4, <2>5 DEF OnItsWay
<1>9. PollNeverBlocks' /\ ClosedOnce'
  BY <1>3, FilterTypes DEF PollNeverBlocks, ClosedOnce
<1> QED BY <1>2, <1>5, <1>6, <1>7, <1>8, <1>9 DEF FilterInv

(* Creating a filter: no step of it touches filters that are there.        *)
LEMMA CreateSteps ==
  ASSUME FilterInv, NEW s \in Sub, NewFilter(s) \/ Subscribe(s)
  PROVE  FilterInv'
<1>1. EventInv /\ call \in [Sub -> CallState]
  BY FilterTypes
<1>2. /\ UNCHANGED <<topics, subscribers, eventClosed, publisher, index, topicChans, made, closed,
                     errClosed, consumer, leaving, sent, reader, held, crash>>
      /\ UNCHANGED <<filters, deadline, hashes, polled, uninstalled>>
  <2>1. CASE NewFilter(s)
    BY <2>1 DEF NewFilter, busVars, loopVars, readerVars
  <2>2. CASE Subscribe(s)
    BY <2>2 DEF Subscribe, StartSubscribe, FindTopic, busVars, loopVars, readerVars
  <2> QED BY <2>1, <2>2
<1>3. filtersMu' \in {Free, filtersMu, s}
  BY DEF NewFilter, Subscribe
<1>4. /\ EventInv' /\ call[s] # "subscribed"
      /\ \E k \in CallState : /\ call' = [call EXCEPT ![s] = k]
                              /\ call[s] = "joining" => k \in {"adding", "failed"}
      /\ call[s] \in {"new", "called", "joining"}
  <2>1. CASE NewFilter(s)
    <3>1. /\ call[s] = "new" /\ remote' = remote
          /\ \E k \in {"failed", "called"} : call' = [call EXCEPT ![s] = k]
      BY <2>1 DEF NewFilter
    <3>2. remote' \in SUBSET Topic
      BY <1>1, <3>1 DEF EventInv, EventTypes
    <3>3. EventInv'
      BY <1>1, <1>2, <3>1, <3>2, CallKeeps DEF CallState
    <3> QED BY <3>1, <3>3 DEF CallState
  <2>2. CASE Subscribe(s)
    <3>1. StartSubscribe(s) \/ FindTopic(s)
      BY <2>2 DEF Subscribe
    <3>2. /\ EventInv' /\ call[s] \in {"called", "joining"}
          /\ \E k \in {"installing", "joining", "adding", "failed"} :
               call' = [call EXCEPT ![s] = k]
      BY <1>1, <3>1, SubscribeKeeps
    <3>3. CASE FindTopic(s)
      <4>1. \E k \in {"adding", "failed"} : call' = [call EXCEPT ![s] = k]
        BY <3>3 DEF FindTopic
      <4> QED BY <3>2, <4>1 DEF CallState
    <3>4. CASE StartSubscribe(s)
      <4>1. call[s] = "called"
        BY <3>4 DEF StartSubscribe
      <4> QED BY <3>2, <4>1 DEF CallState
    <3> QED BY <3>1, <3>3, <3>4
  <2> QED BY <2>1, <2>2
<1>5. \A r \in Sub : call[r] = "subscribed" => call'[r] = "subscribed"
  BY <1>1, <1>4
<1>6. ApiTypes'
  BY <1>2, ApiTypesStay
<1>7. UninstalledOnce'
  BY <1>2, <1>5, NothingUninstalled
<1>8. OnItsWay' /\ NoEventTwice'
  <2>1. Past' = Past
    BY <1>2 DEF Past
  <2>2. Past \in Int /\ Past' \in Int /\ Past' >= Past
    BY <1>1, <1>4, <2>1, PastIsInt, SMT, Z3
  <2> QED BY <1>2, <1>4, <1>5, <2>2, EventsStay
<1>9. PollNeverBlocks' /\ ClosedOnce'
  <2>1. s # Poll /\ Free # Poll
    BY HolderAssumption
  <2> QED BY <1>2, <1>3, <2>1, FilterTypes DEF PollNeverBlocks, ClosedOnce
<1> QED BY <1>4, <1>6, <1>7, <1>8, <1>9 DEF FilterInv

(* A new filter has received nothing, and its event channel is open.       *)
LEMMA StartFilterStep ==
  ASSUME FilterInv, NEW s \in Sub, StartFilter(s)
  PROVE  FilterInv'
<1>1. EventInv /\ call \in [Sub -> CallState]
  BY FilterTypes
<1>2. /\ call[s] = "adding" /\ AddSubscriber(s) /\ call' = [call EXCEPT ![s] = "subscribed"]
      /\ reader' = [reader EXCEPT ![s] = "waiting"]
      /\ filters' = filters \cup {s} /\ deadline' = [deadline EXCEPT ![s] = "running"]
      /\ filtersMu' = Free
      /\ UNCHANGED <<topics, eventClosed, index, topicChans, made, closed, errClosed, consumer,
                     remote, leaving, sent, held, hashes, polled, uninstalled>>
  BY DEF StartFilter, loopVars
<1>3. EventInv'
  BY <1>1, <1>2, AddSubscriberKeeps
<1>4. /\ crash' \in {crash, "concurrent map access"}
      /\ subscribers' = [subscribers EXCEPT ![TopicOf[s]] = @ \cup {s}]
  BY <1>2 DEF AddSubscriber, Crash
<1>5. ApiTypes'
  <2>1. filters' \subseteq Sub /\ deadline' \in [Sub -> {"none", "running", "fired", "drained"}]
    BY <1>2, FilterTypes
  <2>2. ApiTypes
    BY DEF FilterInv
  <2> QED BY <1>2, <2>1, <2>2 DEF ApiTypes
<1>6. UninstalledOnce'
  <2>1. /\ \A r \in filters : deadline[r] \in {"running", "fired"} /\ call[r] = "subscribed"
                              /\ leaving[r] = 0 /\ r \notin errClosed
        /\ \A r \in Sub : /\ leaving[r] \in {0, 1}
                          /\ leaving[r] = 1 => call[r] = "subscribed" /\ r \notin errClosed
        /\ \A r \in errClosed : call[r] = "subscribed"
        /\ \A r \in eventClosed : call[r] = "subscribed" /\ r \notin subscribers[TopicOf[r]]
    BY DEF FilterInv, UninstalledOnce
  <2>2. leaving[s] = 0 /\ s \notin errClosed /\ s \notin eventClosed /\ s \notin filters
    BY <1>2, <2>1
  <2>3. /\ filters \subseteq Sub /\ errClosed \subseteq Sub /\ eventClosed \subseteq Sub
        /\ deadline \in [Sub -> {"none", "running", "fired", "drained"}]
        /\ subscribers \in [Topic -> SUBSET Sub] /\ TopicOf \in [Sub -> Topic]
    BY FilterTypes
  <2>4. \A r \in Sub : call'[r] = IF r = s THEN "subscribed" ELSE call[r]
    BY <1>1, <1>2
  <2>5. \A r \in Sub : deadline'[r] = IF r = s THEN "running" ELSE deadline[r]
    BY <1>2, <2>3
  <2>6. \A r \in Sub \ {s} : r \notin subscribers[TopicOf[r]] => r \notin subscribers'[TopicOf[r]]
    BY <1>4, <2>3
  <2>7. \A r \in filters' : deadline'[r] \in {"running", "fired"} /\ call'[r] = "subscribed"
                            /\ leaving'[r] = 0 /\ r \notin errClosed'
    BY <1>2, <2>1, <2>2, <2>3, <2>4, <2>5
  <2>8. /\ \A r \in Sub : /\ leaving'[r] \in {0, 1}
                          /\ leaving'[r] = 1 => call'[r] = "subscribed" /\ r \notin errClosed'
        /\ \A r \in errClosed' : call'[r] = "subscribed"
    BY <1>2, <2>1, <2>3, <2>4
  <2>9. \A r \in eventClosed' : call'[r] = "subscribed" /\ r \notin subscribers'[TopicOf[r]]
    BY <1>2, <2>1, <2>2, <2>3, <2>4, <2>6
  <2> QED BY <2>7, <2>8, <2>9 DEF UninstalledOnce
<1>7. NoEventTwice'
  <2>1. ASSUME NEW r \in Sub, NEW i \in DOMAIN Received(r)', NEW j \in DOMAIN Received(r)',
               Received(r)'[i] = Received(r)'[j]
        PROVE  i = j
    BY <1>2, <2>1 DEF FilterInv, NoEventTwice, Received
  <2> QED BY <2>1 DEF NoEventTwice, Received
<1>8. OnItsWay'
  <2>1. ASSUME NEW r \in Sub
        PROVE  /\ Received(r)' = Received(r) /\ Past' = Past
               /\ call[r] # "subscribed" => polled[r] = <<>> /\ hashes[r] = <<>>
               /\ reader[r] = "holding" => held[r] > 0 /\ Fresh(held[r], Received(r))
               /\ \A i \in DOMAIN Received(r) : Received(r)[i] <= Past
               /\ \A d \in Chan : r \in publisher[d].batch =>
                    held[r] # publisher[d].event /\ Fresh(publisher[d].event, Received(r))
    BY <1>2, <2>1 DEF FilterInv, OnItsWay, Received, Past
  <2>2. ASSUME NEW r \in Sub
        PROVE  /\ reader'[r] = "holding" => reader[r] = "holding"
               /\ call'[r] # "subscribed" => call[r] # "subscribed"
    BY <1>1, <1>2, FilterTypes
  <2>3. Received(s) = <<>> /\ held[s] = 0
    <3>1. polled[s] = <<>> /\ hashes[s] = <<>>
      BY <1>2, <2>1
    <3>2. Received(s) = <<>>
      BY <3>1, SMT, Z3 DEF Received
    <3> QED BY <1>1, <1>2, <3>2 DEF EventInv, Registered
  <2>4. ASSUME NEW r \in Sub, NEW d \in Chan, r \in publisher'[d].batch
        PROVE  held'[r] # publisher'[d].event /\ Fresh(publisher'[d].event, Received(r))
    <3>1. publisher'[d].event = publisher[d].event
      BY <1>1, <1>2, AddSubscriberPublishers
    <3>2. CASE r \in publisher[d].batch
      BY <1>2, <2>1, <3>1, <3>2
    <3>3. CASE r = s
      <4>1. publisher'[d].event # 0
        BY <1>3, <2>4 DEF EventInv, PublishersApart
      <4>2. Fresh(publisher'[d].event, <<>>)
        BY SMT DEF Fresh
      <4> QED BY <1>2, <2>3, <3>3, <4>1, <4>2
    <3> QED BY <1>1, <1>2, <2>4, <3>2, <3>3, AddSubscriberPublishers
  <2> QED BY <1>2, <2>1, <2>2, <2>4 DEF OnItsWay
<1>9. PollNeverBlocks' /\ ClosedOnce'
  <2>1. Free # Poll
    BY HolderAssumption
  <2> QED BY <1>2, <1>4, <2>1, FilterTypes DEF PollNeverBlocks, ClosedOnce
<1> QED BY <1>3, <1>5, <1>6, <1>7, <1>8, <1>9 DEF FilterInv

(* Steps of a reader that give its filter nothing.                         *)
LEMMA QuietReaderSteps ==
  ASSUME FilterInv, NEW s \in Sub,
         \/ DecodeFails(s) \/ EventClosed(s) \/ ErrClosed(s) \/ RemoveFilter(s) \/ ReturnReader(s)
  PROVE  FilterInv'
<1>1. EventInv /\ reader \in [Sub -> ReaderState] /\ held \in [Sub -> 0 .. MaxEvents]
  BY FilterTypes
<1>2. /\ UNCHANGED <<topics, eventClosed, index, topicChans, made, closed, errClosed, consumer,
                     remote, leaving, sent, call>>
      /\ UNCHANGED <<filtersMu, deadline, hashes, polled, uninstalled>>
      /\ filters' \subseteq filters
      /\ reader[s] # "none"
      /\ \E r \in {"returning", "ended", "erred", "waiting", "done"} :
           reader' = [reader EXCEPT ![s] = r]
      /\ held' \in {held, [held EXCEPT ![s] = 0]}
      /\ \/ UNCHANGED <<subscribers, publisher, crash>>
         \/ unsubscribe(s) /\ reader' = [reader EXCEPT ![s] = "done"] /\ held' = held
  <2>1. CASE DecodeFails(s)
    BY <2>1 DEF DecodeFails, busVars, loopVars, apiVars
  <2>2. CASE EventClosed(s)
    BY <2>2 DEF EventClosed, busVars, loopVars, apiVars
  <2>3. CASE ErrClosed(s)
    BY <2>3 DEF ErrClosed, busVars, loopVars, apiVars
  <2>4. CASE RemoveFilter(s)
    BY <2>4 DEF RemoveFilter, busVars, loopVars
  <2>5. CASE ReturnReader(s)
    BY <2>5 DEF ReturnReader, loopVars, apiVars
  <2> QED BY <2>1, <2>2, <2>3, <2>4, <2>5
<1>3. EventInv'
  <2>1. CASE UNCHANGED <<subscribers, publisher, crash>>
    <3>1. PICK r \in ReaderState : reader' = [reader EXCEPT ![s] = r]
      BY <1>2 DEF ReaderState
    <3> QED BY <1>1, <1>2, <2>1, <3>1, ReaderKeeps
  <2>2. CASE unsubscribe(s) /\ reader' = [reader EXCEPT ![s] = "done"] /\ held' = held
    BY <1>1, <1>2, <2>2, UnsubscribeKeeps
  <2> QED BY <1>2, <2>1, <2>2
<1>4. /\ \A c \in Chan : /\ publisher'[c].batch \subseteq publisher[c].batch
                         /\ publisher'[c].batch # {} => publisher'[c].event = publisher[c].event
      /\ \A t \in Topic : subscribers'[t] \subseteq subscribers[t]
      /\ crash' \in {crash, "concurrent map access"}
  <2>1. CASE UNCHANGED <<subscribers, publisher, crash>>
    BY <2>1
  <2>2. CASE unsubscribe(s)
    <3>1. \A c \in Chan : /\ publisher'[c].batch \subseteq publisher[c].batch
                          /\ publisher'[c].batch # {} => publisher'[c].event = publisher[c].event
      <4>1. ASSUME NEW c \in Chan,
                   publisher'[c] = Publishing(publisher[c], publisher[c].event,
                                              publisher[c].batch \ {s})
            PROVE  /\ publisher'[c].batch \subseteq publisher[c].batch
                   /\ publisher'[c].batch # {} => publisher'[c].event = publisher[c].event
        <5>1. /\ publisher[c] \in Publisher /\ publisher[c].event \in 0 .. MaxEvents
              /\ publisher[c].batch \ {s} \in SUBSET Sub
          BY <1>1, SMT, Z3 DEF EventInv, EventTypes, Publisher
        <5> QED BY <4>1, <5>1, PublishingFields
      <4> QED BY <1>1, <2>2, <4>1, UnsubscribePublishers
    <3>2. /\ subscribers' = [subscribers EXCEPT ![TopicOf[s]] = @ \ {s}]
          /\ crash' \in {crash, "concurrent map access"}
      BY <2>2 DEF unsubscribe, Crash
    <3>3. subscribers \in [Topic -> SUBSET Sub]
      BY FilterTypes
    <3> QED BY <3>1, <3>2, <3>3
  <2> QED BY <1>2, <2>1, <2>2
<1>5. ApiTypes'
  BY <1>2, ApiTypesStay
<1>6. UninstalledOnce'
  BY <1>2, <1>4, NothingUninstalled
<1>7. OnItsWay' /\ NoEventTwice'
  <2>1. Past' = Past
    BY <1>2 DEF Past
  <2>2. Past \in Int /\ Past' \in Int /\ Past' >= Past
    BY <1>1, <1>3, <2>1, PastIsInt, SMT, Z3
  <2>3. ASSUME NEW r \in Sub
        PROVE  /\ reader'[r] = "holding" => reader[r] = "holding" /\ held'[r] = held[r]
               /\ held'[r] \in {held[r], 0}
    BY <1>1, <1>2
  <2> QED BY <1>2, <1>3, <1>4, <2>2, <2>3, EventsStay
<1>8. PollNeverBlocks' /\ ClosedOnce'
  BY <1>2, <1>4, FilterTypes DEF PollNeverBlocks, ClosedOnce
<1> QED BY <1>3, <1>5, <1>6, <1>7, <1>8 DEF FilterInv

(* What appending one event to the second of two sequences gives.          *)
LEMMA AppendedEvent ==
  ASSUME NEW S, NEW p \in Seq(S), NEW h \in Seq(S), NEW e \in S
  PROVE  /\ h \o <<e>> \in Seq(S)
         /\ DOMAIN (p \o (h \o <<e>>)) = 1 .. Len(p \o h) + 1
         /\ DOMAIN (p \o h) = 1 .. Len(p \o h) /\ Len(p \o h) \in Nat
         /\ \A i \in 1 .. Len(p \o h) : (p \o (h \o <<e>>))[i] = (p \o h)[i]
         /\ (p \o (h \o <<e>>))[Len(p \o h) + 1] = e
<1>1. <<e>> \in Seq(S) /\ Len(<<e>>) = 1 /\ <<e>>[1] = e
  BY SMT
<1>2. p \o h \in Seq(S) /\ h \o <<e>> \in Seq(S)
  BY <1>1, ConcatFacts
<1>3. (p \o h) \o <<e>> = p \o (h \o <<e>>)
  BY SMT
<1>4. /\ (p \o h) \o <<e>> \in Seq(S) /\ Len((p \o h) \o <<e>>) = Len(p \o h) + 1
      /\ \A i \in 1 .. Len(p \o h) + 1 : ((p \o h) \o <<e>>)[i] =
           IF i <= Len(p \o h) THEN (p \o h)[i] ELSE <<e>>[i - Len(p \o h)]
  BY <1>1, <1>2, ConcatFacts
<1>5. /\ Len(p \o h) \in Nat /\ DOMAIN (p \o h) = 1 .. Len(p \o h)
      /\ DOMAIN ((p \o h) \o <<e>>) = 1 .. Len((p \o h) \o <<e>>)
  BY <1>2, <1>4, SeqFacts
<1> HIDE <1>3
<1>6. /\ \A i \in 1 .. Len(p \o h) : ((p \o h) \o <<e>>)[i] = (p \o h)[i]
      /\ ((p \o h) \o <<e>>)[Len(p \o h) + 1] = e
  <2> DEFINE n == Len(p \o h)
             q == (p \o h) \o <<e>>
             a == p \o h
  <2>1. /\ n \in Nat /\ <<e>>[1] = e
        /\ \A i \in 1 .. n + 1 : q[i] = IF i <= n THEN a[i] ELSE <<e>>[i - n]
    BY <1>1, <1>4, <1>5
  <2> HIDE DEF n, q, a
  <2>2. (\A i \in 1 .. n : q[i] = a[i]) /\ q[n + 1] = e
    <3>1. n + 1 \in 1 .. n + 1 /\ ~(n + 1 <= n) /\ (n + 1) - n = 1
      BY <2>1, SMT, Z3
    <3>2. q[n + 1] = e
      BY <2>1, <3>1
    <3>3. \A i \in 1 .. n : i \in 1 .. n + 1 /\ i <= n
      BY <2>1, SMT, Z3
    <3> QED BY <2>1, <3>2, <3>3
  <2> QED BY <2>2 DEF n, q, a
<1> QED BY <1>2, <1>3, <1>4, <1>5, <1>6

(* The reader of a filter appends the event it holds, which the filter has *)
(* not received.                                                           *)
LEMMA HandleEventStep ==
  ASSUME FilterInv, NEW s \in Sub, HandleEvent(s)
  PROVE  FilterInv'
<1>1. EventInv /\ reader \in [Sub -> ReaderState] /\ held \in [Sub -> 0 .. MaxEvents]
      /\ hashes \in [Sub -> Seq(1 .. MaxEvents)]
  BY FilterTypes
<1>2. /\ UNCHANGED <<topics, subscribers, eventClosed, publisher, index, topicChans, made, closed,
                     errClosed, consumer, remote, leaving, sent, call, crash>>
      /\ UNCHANGED <<filtersMu, filters, deadline, polled, uninstalled>>
      /\ reader[s] = "holding" /\ reader' = [reader EXCEPT ![s] = "waiting"]
      /\ held' = [held EXCEPT ![s] = 0]
  BY DEF HandleEvent, busVars, loopVars
<1>3. hashes' = hashes \/ hashes' = [hashes EXCEPT ![s] = @ \o <<>>]
      \/ hashes' = [hashes EXCEPT ![s] = @ \o <<held[s]>>]
  BY DEF HandleEvent, found
<1>4. EventInv'
  <2>1. held' \in {held, [held EXCEPT ![s] = 0]} /\ reader[s] # "none" /\ "waiting" \in ReaderState
    BY <1>2 DEF ReaderState
  <2> QED BY <1>1, <1>2, <2>1, ReaderKeeps
<1>5. /\ held[s] \in 1 .. MaxEvents /\ Fresh(held[s], Received(s)) /\ held[s] <= Past
      /\ call[s] = "subscribed"
  <2>1. held[s] > 0 /\ Fresh(held[s], Received(s))
    BY <1>2 DEF FilterInv, OnItsWay
  <2>2. held[s] \in 0 .. MaxEvents /\ held[s] <= Past
    BY <1>1 DEF EventInv, EventsPast
  <2>3. held[s] \in 1 .. MaxEvents
    BY <2>1, <2>2, EventAssumption, SMT, Z3
  <2>4. call[s] = "subscribed"
    BY <1>1, <1>2 DEF EventInv, Registered
  <2> QED BY <2>1, <2>2, <2>3, <2>4
<1> DEFINE more == hashes[s] \o <<held[s]>>
<1>6. /\ polled[s] \in Seq(1 .. MaxEvents) /\ hashes[s] \in Seq(1 .. MaxEvents)
  BY FilterTypes
<1>7. hashes' = hashes \/ hashes' = [hashes EXCEPT ![s] = more]
  <2>1. hashes[s] \o <<>> = hashes[s]
    BY <1>6, SeqFacts
  <2>2. hashes = [hashes EXCEPT ![s] = hashes[s]]
    BY <1>1
  <2> QED BY <1>3, <2>1, <2>2
<1>8. /\ more \in Seq(1 .. MaxEvents)
      /\ DOMAIN (polled[s] \o more) = 1 .. Len(Received(s)) + 1
      /\ DOMAIN Received(s) = 1 .. Len(Received(s)) /\ Len(Received(s)) \in Nat
      /\ \A i \in 1 .. Len(Received(s)) : (polled[s] \o more)[i] = Received(s)[i]
      /\ (polled[s] \o more)[Len(Received(s)) + 1] = held[s]
  <2> DEFINE p == polled[s]
             h == hashes[s]
             e == held[s]
  <2>1. p \in Seq(1 .. MaxEvents) /\ h \in Seq(1 .. MaxEvents) /\ e \in 1 .. MaxEvents
    BY <1>5, <1>6
  <2>2. more = h \o <<e>> /\ Received(s) = p \o h
    BY DEF Received
  <2> HIDE DEF p, h, e, more
  <2>3. /\ h \o <<e>> \in Seq(1 .. MaxEvents)
        /\ DOMAIN (p \o (h \o <<e>>)) = 1 .. Len(p \o h) + 1
        /\ DOMAIN (p \o h) = 1 .. Len(p \o h) /\ Len(p \o h) \in Nat
        /\ \A i \in 1 .. Len(p \o h) : (p \o (h \o <<e>>))[i] = (p \o h)[i]
        /\ (p \o (h \o <<e>>))[Len(p \o h) + 1] = e
    BY <2>1, AppendedEvent
  <2>4. /\ more \in Seq(1 .. MaxEvents)
        /\ DOMAIN (p \o more) = 1 .. Len(Received(s)) + 1
        /\ DOMAIN Received(s) = 1 .. Len(Received(s)) /\ Len(Received(s)) \in Nat
        /\ \A i \in 1 .. Len(Received(s)) : (p \o more)[i] = Received(s)[i]
        /\ (p \o more)[Len(Received(s)) + 1] = e
    BY <2>2, <2>3
  <2> QED BY <2>4 DEF p, e
<1> HIDE DEF more
<1>9. ASSUME NEW r \in Sub
      PROVE  \/ Received(r)' = Received(r)
             \/ /\ r = s /\ Len(Received(s)) \in Nat
                /\ DOMAIN Received(s) = 1 .. Len(Received(s))
                /\ DOMAIN Received(r)' = 1 .. Len(Received(s)) + 1
                /\ \A i \in 1 .. Len(Received(s)) : Received(r)'[i] = Received(s)[i]
                /\ Received(r)'[Len(Received(s)) + 1] = held[s]
  <2>1. CASE hashes' = hashes
    BY <1>2, <2>1 DEF Received
  <2>2. CASE hashes' = [hashes EXCEPT ![s] = more] /\ r = s
    <3>1. Received(r)' = polled[s] \o more
      BY <1>1, <1>2, <2>2 DEF Received
    <3> QED BY <1>8, <2>2, <3>1
  <2>3. CASE hashes' = [hashes EXCEPT ![s] = more] /\ r # s
    BY <1>1, <1>2, <2>3 DEF Received
  <2> QED BY <1>7, <2>1, <2>2, <2>3
<1>10. ASSUME NEW r \in Sub, NEW i \in DOMAIN Received(r)'
       PROVE  \/ i \in DOMAIN Received(r) /\ Received(r)'[i] = Received(r)[i]
              \/ r = s /\ i = Len(Received(s)) + 1 /\ Received(r)'[i] = held[s]
  <2>1. CASE Received(r)' = Received(r)
    BY <1>10, <2>1
  <2>2. CASE Received(r)' # Received(r)
    <3>1. /\ r = s /\ Len(Received(s)) \in Nat /\ i \in 1 .. Len(Received(s)) + 1
          /\ DOMAIN Received(s) = 1 .. Len(Received(s))
      BY <1>9, <1>10, <2>2
    <3>2. i \in 1 .. Len(Received(s)) \/ i = Len(Received(s)) + 1
      BY <3>1, SMT, Z3
    <3> QED BY <1>9, <2>2, <3>1, <3>2
  <2> QED BY <2>1, <2>2
<1>11. ApiTypes'
  <2>1. hashes' \in [Sub -> Seq(1 .. MaxEvents)]
    BY <1>1, <1>7, <1>8
  <2>2. ApiTypes
    BY DEF FilterInv
  <2> QED BY <1>2, <2>1, <2>2 DEF ApiTypes
<1>12. UninstalledOnce'
  BY <1>2, NothingUninstalled
<1>13. NoEventTwice'
  <2>1. ASSUME NEW r \in Sub, NEW i \in DOMAIN Received(r)', NEW j \in DOMAIN Received(r)',
               Received(r)'[i] = Received(r)'[j]
        PROVE  i = j
    <3>1. ASSUME NEW k \in DOMAIN Received(s)
          PROVE  Received(s)[k] # held[s]
      BY <1>5, <3>1 DEF Fresh
    <3>2. ASSUME i \in DOMAIN Received(r), j \in DOMAIN Received(r), Received(r)[i] = Received(r)[j]
          PROVE  i = j
      BY <3>2 DEF FilterInv, NoEventTwice, Received
    <3> QED BY <1>10, <2>1, <3>1, <3>2
  <2> QED BY <2>1 DEF NoEventTwice, Received
<1>14. OnItsWay'
  <2>1. ASSUME NEW r \in Sub
        PROVE  /\ Past' = Past
               /\ call[r] # "subscribed" => polled[r] = <<>> /\ hashes[r] = <<>>
               /\ reader[r] = "holding" => held[r] > 0 /\ Fresh(held[r], Received(r))
               /\ \A i \in DOMAIN Received(r) : Received(r)[i] <= Past
               /\ \A d \in Chan : r \in publisher[d].batch =>
                    held[r] # publisher[d].event /\ Fresh(publisher[d].event, Received(r))
    BY <1>2, <2>1 DEF FilterInv, OnItsWay, Past
  <2>2. ASSUME NEW r \in Sub
        PROVE  call'[r] # "subscribed" => polled'[r] = <<>> /\ hashes'[r] = <<>>
    <3>1. r # s => hashes'[r] = hashes[r]
      BY <1>1, <1>7
    <3> QED BY <1>2, <1>5, <2>1, <3>1
  <2>3. ASSUME NEW r \in Sub, NEW i \in DOMAIN Received(r)'
        PROVE  Received(r)'[i] <= Past'
    BY <1>5, <1>10, <2>1, <2>3
  <2>4. ASSUME NEW r \in Sub, reader'[r] = "holding"
        PROVE  held'[r] > 0 /\ Fresh(held'[r], Received(r)')
    <3>1. r # s /\ reader[r] = "holding" /\ held'[r] = held[r]
      BY <1>1, <1>2, <2>4
    <3>2. Received(r)' = Received(r)
      BY <1>9, <3>1
    <3> QED BY <2>1, <3>1, <3>2
  <2>5. ASSUME NEW r \in Sub, NEW d \in Chan, r \in publisher'[d].batch
        PROVE  held'[r] # publisher'[d].event /\ Fresh(publisher'[d].event, Received(r)')
    <3>1. /\ publisher[d].event # held[r] /\ Fresh(publisher[d].event, Received(r))
          /\ publisher' = publisher
      BY <1>2, <2>1, <2>5
    <3>2. publisher'[d].event # 0
      BY <1>4, <2>5 DEF EventInv, PublishersApart
    <3>3. held'[r] \in {held[r], 0}
      BY <1>1, <1>2
    <3>4. ASSUME NEW i \in DOMAIN Received(r)'
          PROVE  Received(r)'[i] # publisher[d].event
      BY <1>10, <3>1, <3>4 DEF Fresh
    <3> QED BY <3>1, <3>2, <3>3, <3>4 DEF Fresh
  <2> QED BY <2>2, <2>3, <2>4, <2>5 DEF OnItsWay
<1>15. PollNeverBlocks' /\ ClosedOnce'
  BY <1>2, FilterTypes DEF PollNeverBlocks, ClosedOnce
<1> QED BY <1>4, <1>11, <1>12, <1>13, <1>14, <1>15 DEF FilterInv

(* A poll finds the timer of its filter with its value, running or fired,  *)
(* and moves the events of the filter into its answer.                     *)
LEMMA PollStep ==
  ASSUME FilterInv, NEW s \in Sub, GetFilterChanges(s)
  PROVE  FilterInv'
<1>1. EventInv /\ hashes \in [Sub -> Seq(1 .. MaxEvents)] /\ polled \in [Sub -> Seq(1 .. MaxEvents)]
      /\ deadline \in [Sub -> {"none", "running", "fired", "drained"}]
  BY FilterTypes
<1>2. s \in filters /\ UNCHANGED <<eventVars, filters, uninstalled>>
  BY DEF GetFilterChanges
<1>3. deadline[s] # "drained" /\ call[s] = "subscribed"
  BY <1>2 DEF FilterInv, UninstalledOnce
<1>4. /\ deadline' = [deadline EXCEPT ![s] = "running"] /\ filtersMu' = filtersMu
      /\ polled' = [polled EXCEPT ![s] = @ \o hashes[s]]
      /\ hashes' = [hashes EXCEPT ![s] = <<>>]
  BY <1>3 DEF GetFilterChanges
<1>5. EventInv' /\ Past' = Past
  BY <1>1, <1>2, EventUnchanged
<1>6. UNCHANGED <<topics, subscribers, eventClosed, publisher, index, topicChans, made, closed,
                  errClosed, consumer, remote, leaving, sent, call, crash, reader, held>>
  BY <1>2 DEF eventVars, busVars, loopVars, readerVars
<1>7. Received(s) \in Seq(1 .. MaxEvents)
  BY ReceivedEvents
<1>8. <<>> \in Seq(1 .. MaxEvents) /\ Received(s) \o <<>> = Received(s)
  <2>1. <<>> \in Seq(1 .. MaxEvents)
    BY SMT
  <2> QED BY <1>7, <2>1, SeqFacts
<1>9. ASSUME NEW r \in Sub
      PROVE  Received(r)' = Received(r)
  <2>1. CASE r = s
    <3>1. polled'[s] = Received(s) /\ hashes'[s] = <<>>
      BY <1>1, <1>4 DEF Received
    <3> QED BY <1>8, <2>1, <3>1 DEF Received
  <2>2. CASE r # s
    BY <1>1, <1>4, <2>2 DEF Received
  <2> QED BY <2>1, <2>2
<1>10. ApiTypes'
  <2>1. polled' \in [Sub -> Seq(1 .. MaxEvents)]
    BY <1>1, <1>4, <1>7 DEF Received
  <2>2. hashes' \in [Sub -> Seq(1 .. MaxEvents)]
    BY <1>1, <1>4, <1>8
  <2>3. deadline' \in [Sub -> {"none", "running", "fired", "drained"}]
    BY <1>1, <1>4
  <2>4. ApiTypes
    BY DEF FilterInv
  <2> QED BY <1>2, <1>6, <2>1, <2>2, <2>3, <2>4 DEF ApiTypes
<1>11. UninstalledOnce'
  <2>1. ASSUME NEW r \in filters
        PROVE  deadline'[r] \in {"running", "fired"}
    <3>1. r \in Sub /\ deadline[r] \in {"running", "fired"}
      BY <2>1, FilterTypes DEF UninstalledOnce
    <3> QED BY <1>1, <1>4, <3>1
  <2> QED BY <1>2, <1>6, <2>1 DEF FilterInv, UninstalledOnce
<1>12. NoEventTwice'
  <2>1. ASSUME NEW r \in Sub, NEW i \in DOMAIN Received(r)', NEW j \in DOMAIN Received(r)',
               Received(r)'[i] = Received(r)'[j]
        PROVE  i = j
    BY <1>9, <2>1 DEF FilterInv, NoEventTwice, Received
  <2> QED BY <2>1 DEF NoEventTwice, Received
<1>13. OnItsWay'
  <2>1. ASSUME NEW r \in Sub, call[r] # "subscribed"
        PROVE  polled'[r] = <<>> /\ hashes'[r] = <<>>
    <3>1. r # s /\ polled[r] = <<>> /\ hashes[r] = <<>>
      BY <1>3, <2>1 DEF FilterInv, OnItsWay
    <3> QED BY <1>1, <1>4, <3>1
  <2> QED BY <1>5, <1>6, <1>9, <2>1 DEF FilterInv, OnItsWay
<1>14. PollNeverBlocks' /\ ClosedOnce'
  BY <1>4, <1>6, FilterTypes DEF PollNeverBlocks, ClosedOnce
<1> QED BY <1>5, <1>10, <1>11, <1>12, <1>13, <1>14 DEF FilterInv

(* UninstallFilter and a tick of timeoutLoop remove filters and hand each  *)
(* to uninstall; a timer that fires changes no filter.                     *)
LEMMA RemovalSteps ==
  ASSUME FilterInv,
         (\E s \in Sub : UninstallFilter(s) \/ ExpireDeadline(s)) \/ timeoutLoop
  PROVE  FilterInv'
<1>1. EventInv /\ filters \subseteq Sub /\ leaving \in [Sub -> Nat]
      /\ deadline \in [Sub -> {"none", "running", "fired", "drained"}]
  BY FilterTypes
<1>2. /\ UNCHANGED <<topics, subscribers, eventClosed, publisher, index, topicChans, made, closed,
                     errClosed, consumer, remote, sent, call, crash, reader, held>>
      /\ UNCHANGED <<filtersMu, hashes, polled>>
  <2>1. CASE \E s \in Sub : UninstallFilter(s)
    BY <2>1 DEF UninstallFilter, busVars, loopVars, readerVars
  <2>2. CASE \E s \in Sub : ExpireDeadline(s)
    BY <2>2 DEF ExpireDeadline, eventVars, busVars, loopVars, readerVars
  <2>3. CASE timeoutLoop
    BY <2>3 DEF timeoutLoop, busVars, loopVars, readerVars
  <2> QED BY <2>1, <2>2, <2>3
<1>3. EventInv'
  BY <1>1, <1>2, EventSame
<1> DEFINE Removes(gone) ==
        /\ filters' = filters \ gone
        /\ \A r \in Sub : leaving'[r] = IF r \in gone THEN leaving[r] + 1 ELSE leaving[r]
        /\ leaving' \in [Sub -> Nat]
        /\ deadline' \in [Sub -> {"none", "running", "fired", "drained"}]
        /\ \A r \in filters \ gone : deadline'[r] \in {deadline[r], "fired"}
<1>4. \E gone \in SUBSET filters : Removes(gone)
  <2>1. ASSUME NEW gone \in SUBSET filters, Unsubscribe(gone)
        PROVE  /\ leaving' \in [Sub -> Nat]
               /\ \A r \in Sub : leaving'[r] = IF r \in gone THEN leaving[r] + 1 ELSE leaving[r]
    <3>1. leaving' = [r \in Sub |-> leaving[r] + (IF r \in gone THEN 1 ELSE 0)]
      BY <2>1 DEF Unsubscribe
    <3> QED BY <1>1, <3>1, SMT, Z3
  <2>2. ASSUME NEW s \in Sub, UninstallFilter(s)
        PROVE  \E gone \in SUBSET filters : Removes(gone)
    <3>1. /\ {s} \in SUBSET filters /\ Unsubscribe({s}) /\ filters' = filters \ {s}
          /\ deadline' = deadline
      BY <2>2 DEF UninstallFilter
    <3> QED BY <1>1, <2>1, <3>1
  <2>3. ASSUME NEW s \in Sub, ExpireDeadline(s)
        PROVE  \E gone \in SUBSET filters : Removes(gone)
    <3>1. /\ filters' = filters /\ leaving' = leaving
          /\ deadline' = [deadline EXCEPT ![s] = "fired"]
      BY <2>3 DEF ExpireDeadline, eventVars
    <3>2. {} \in SUBSET filters /\ filters' = filters \ {}
      BY <3>1
    <3>3. deadline' \in [Sub -> {"none", "running", "fired", "drained"}]
          /\ \A r \in filters : deadline'[r] \in {deadline[r], "fired"}
      BY <1>1, <3>1
    <3> QED BY <1>1, <3>1, <3>2, <3>3
  <2>4. ASSUME timeoutLoop
        PROVE  \E gone \in SUBSET filters : Removes(gone)
    <3> DEFINE expired == {s \in filters : deadline[s] = "fired"}
    <3>1. /\ expired \in SUBSET filters /\ Unsubscribe(expired) /\ filters' = filters \ expired
          /\ deadline' = [s \in Sub |-> IF s \in expired THEN "drained" ELSE deadline[s]]
      BY <2>4 DEF timeoutLoop
    <3> HIDE DEF expired
    <3>2. deadline' \in [Sub -> {"none", "running", "fired", "drained"}]
          /\ \A r \in filters \ expired : deadline'[r] = deadline[r]
      BY <1>1, <3>1
    <3> QED BY <2>1, <3>1, <3>2
  <2> QED BY <2>2, <2>3, <2>4
<1>5. PICK gone \in SUBSET filters : Removes(gone)
  BY <1>4
<1>6. ApiTypes'
  <2>1. ApiTypes
    BY DEF FilterInv
  <2> QED BY <1>1, <1>2, <1>5, <2>1 DEF ApiTypes
<1>7. UninstalledOnce'
  <2>1. /\ \A r \in filters : deadline[r] \in {"running", "fired"} /\ call[r] = "subscribed"
                              /\ leaving[r] = 0 /\ r \notin errClosed
        /\ \A r \in Sub : /\ leaving[r] \in {0, 1}
                          /\ leaving[r] = 1 => call[r] = "subscribed" /\ r \notin errClosed
        /\ \A r \in errClosed : call[r] = "subscribed"
        /\ \A r \in eventClosed : call[r] = "subscribed" /\ r \notin subscribers[TopicOf[r]]
    BY DEF FilterInv, UninstalledOnce
  <2>2. \A r \in filters' : /\ deadline'[r] \in {"running", "fired"} /\ call[r] = "subscribed"
                            /\ leaving'[r] = 0 /\ r \notin errClosed
    BY <1>1, <1>5, <2>1
  <2>3. ASSUME NEW r \in Sub
        PROVE  /\ leaving'[r] \in {0, 1}
               /\ leaving'[r] = 1 => call[r] = "subscribed" /\ r \notin errClosed
    <3>1. CASE r \in gone
      <4>1. r \in filters /\ leaving'[r] = leaving[r] + 1 /\ leaving[r] = 0
        BY <1>5, <2>1, <3>1
      <4>2. leaving'[r] = 1
        BY <4>1, SMT, Z3
      <4> QED BY <2>1, <4>1, <4>2
    <3>2. CASE r \notin gone
      BY <1>5, <2>1, <3>2
    <3> QED BY <3>1, <3>2
  <2> QED BY <1>2, <2>1, <2>2, <2>3 DEF UninstalledOnce
<1>8. OnItsWay' /\ NoEventTwice'
  <2>1. Past' = Past
    BY <1>2 DEF Past
  <2>2. Past \in Int /\ Past' \in Int /\ Past' >= Past
    BY <1>1, <1>3, <2>1, PastIsInt, SMT, Z3
  <2> QED BY <1>2, <1>3, <2>2, EventsStay
<1>9. PollNeverBlocks' /\ ClosedOnce'
  BY <1>2, FilterTypes DEF PollNeverBlocks, ClosedOnce
<1> QED BY <1>3, <1>6, <1>7, <1>8, <1>9 DEF FilterInv

(* FilterInv holds at the start.                                           *)
LEMMA FilterStarts ==
  ASSUME Init
  PROVE  FilterInv
<1>1. EventInit /\ EventInv
  BY EventStarts DEF Init
<1>2. /\ filtersMu = Free /\ filters = {} /\ uninstalled = {}
      /\ deadline = [s \in Sub |-> "none"] /\ hashes = [s \in Sub |-> <<>>]
      /\ polled = [s \in Sub |-> <<>>]
  BY DEF Init
<1>3. /\ topics = [t \in Topic |-> NoChan] /\ topicChans = [t \in Topic |-> NoChan]
      /\ made = NoChan /\ closed = {} /\ eventClosed = {} /\ errClosed = {} /\ index = {}
      /\ consumer = waitingConsumer /\ leaving = [s \in Sub |-> 0]
      /\ reader = [s \in Sub |-> "none"] /\ held = [s \in Sub |-> 0] /\ crash = "none"
      /\ publisher = [c \in Chan |-> noPublisher]
  BY <1>1 DEF EventInit, NoChan
<1>4. ApiTypes
  <2>1. <<>> \in Seq(1 .. MaxEvents) /\ 0 \in Nat
    BY SMT
  <2> QED BY <1>2, <1>3, <2>1 DEF ApiTypes
<1>5. UninstalledOnce
  BY <1>2, <1>3 DEF UninstalledOnce
<1>6. ASSUME NEW s \in Sub
      PROVE  Received(s) = <<>> /\ DOMAIN Received(s) = {}
  <2>1. polled[s] = <<>> /\ hashes[s] = <<>>
    BY <1>2
  <2>2. <<>> \o <<>> = <<>> /\ DOMAIN <<>> = {}
    BY SMT
  <2> QED BY <2>1, <2>2 DEF Received
<1>7. NoEventTwice
  BY <1>6 DEF NoEventTwice, Received
<1>8. OnItsWay
  <2>1. ASSUME NEW s \in Sub
        PROVE  polled[s] = <<>> /\ hashes[s] = <<>> /\ reader[s] # "holding"
    BY <1>2, <1>3
  <2>2. ASSUME NEW c \in Chan
        PROVE  publisher[c].batch = {}
    BY <1>3 DEF noPublisher
  <2> QED BY <1>6, <2>1, <2>2 DEF OnItsWay, Fresh
<1>9. PollNeverBlocks /\ ClosedOnce
  BY <1>2, <1>3, HolderAssumption DEF PollNeverBlocks, ClosedOnce
<1> QED BY <1>1, <1>4, <1>5, <1>7, <1>8, <1>9 DEF FilterInv

(* Every step of the filters and of the event system below them keeps      *)
(* FilterInv.                                                              *)
LEMMA FilterInvariant ==
  Spec => []FilterInv
<1>1. Init => FilterInv
  BY FilterStarts
<1>2. ASSUME FilterInv, [Next]_vars
      PROVE  FilterInv'
  <2>1. CASE EventStep /\ UNCHANGED apiVars
    <3>1. CASE \E s \in Sub : Install(s) \/ Uninstall(s)
      BY <1>2, <2>1, <3>1, InstallFilterStep, UninstallFilterStep
    <3>2. CASE \E c \in Chan : CloseAllSubscribers(c)
      BY <1>2, <2>1, <3>2, CloseFilterStep
    <3>3. CASE \E c \in Chan : \E s \in Sub : PublishOne(c, s)
      BY <1>2, <2>1, <3>3, PublishFilterStep
    <3>4. CASE SendEvent
      BY <1>2, <2>1, <3>4, SendFilterStep
    <3>5. CASE \/ \E t \in Topic : ReceiveEvent(t)
               \/ DropEvent \/ SendClosed
               \/ \E c \in Chan : DeleteTopic(c)
      BY <1>2, <2>1, <3>5, QuietFilterSteps
    <3> QED BY <2>1, <3>1, <3>2, <3>3, <3>4, <3>5 DEF EventStep
  <2>2. CASE \E s \in Sub : NewFilter(s) \/ Subscribe(s) \/ StartFilter(s)
    BY <1>2, <2>2, CreateSteps, StartFilterStep
  <2>3. CASE \E s \in Sub : HandleEvent(s) \/ GetFilterChanges(s)
    BY <1>2, <2>3, HandleEventStep, PollStep
  <2>4. CASE \E s \in Sub : \/ DecodeFails(s) \/ EventClosed(s) \/ ErrClosed(s)
                            \/ RemoveFilter(s) \/ ReturnReader(s)
    BY <1>2, <2>4, QuietReaderSteps
  <2>5. CASE (\E s \in Sub : UninstallFilter(s) \/ ExpireDeadline(s)) \/ timeoutLoop
    BY <1>2, <2>5, RemovalSteps
  <2>6. CASE UNCHANGED vars
    <3>1. UNCHANGED eventVars /\ UNCHANGED apiVars
      BY <2>6 DEF vars
    <3>2. EventInv' /\ Past' = Past
      BY <1>2, <3>1, FilterTypes, EventUnchanged
    <3>3. /\ UNCHANGED <<topics, subscribers, eventClosed, publisher, index, topicChans, made,
                         closed, errClosed, consumer, remote, leaving, sent, call, crash, reader,
                         held>>
          /\ UNCHANGED <<filtersMu, filters, deadline, hashes, polled, uninstalled>>
      BY <3>1 DEF eventVars, busVars, loopVars, readerVars, apiVars
    <3>4. ApiTypes'
      BY <1>2, <3>3, ApiTypesStay
    <3>5. UninstalledOnce'
      BY <1>2, <3>3, NothingUninstalled
    <3>6. Past \in Int /\ Past' \in Int /\ Past' >= Past
      <4>1. EventInv
        BY <1>2, FilterTypes
      <4> QED BY <3>2, <4>1, PastIsInt, SMT, Z3
    <3>7. OnItsWay' /\ NoEventTwice'
      BY <1>2, <3>2, <3>3, <3>6, EventsStay
    <3>8. PollNeverBlocks' /\ ClosedOnce'
      BY <1>2, <3>3, FilterTypes DEF PollNeverBlocks, ClosedOnce
    <3> QED BY <3>2, <3>4, <3>5, <3>7, <3>8 DEF FilterInv
  <2> QED BY <1>2, <2>1, <2>2, <2>3, <2>4, <2>5, <2>6 DEF Next
<1> QED BY <1>1, <1>2, PTL DEF Spec

(* GetFilterChanges never waits for a timer with filtersMu held: a filter  *)
(* that is there has a timer whose value nobody took.                      *)
THEOREM PollsReturn == Spec => []PollNeverBlocks
<1>1. FilterInv => PollNeverBlocks
  BY DEF FilterInv
<1> QED BY <1>1, FilterInvariant, PTL

(* eventLoop closes the error channel of a subscription once, and the bus  *)
(* its event channel once.                                                 *)
THEOREM ChannelsClosedOnce == Spec => []ClosedOnce
<1>1. FilterInv => ClosedOnce
  BY DEF FilterInv
<1> QED BY <1>1, FilterInvariant, PTL

(* However polls, events, uninstalls and restarts of a topic interleave,   *)
(* no event comes twice through one filter.                                *)
THEOREM EventsComeOnce == Spec => []NoEventTwice
<1>1. FilterInv => NoEventTwice
  BY DEF FilterInv
<1> QED BY <1>1, FilterInvariant, PTL

=============================================================================
