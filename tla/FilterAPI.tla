------------------------------ MODULE FilterAPI ------------------------------
(***************************************************************************)
(* The polling filters of the JSON-RPC server over the event system:       *)
(* rpc/namespaces/ethereum/eth/filters/api.go.  NewBlockFilter, NewFilter  *)
(* and NewPendingTransactionFilter make a filter with a deadline timer and *)
(* a goroutine that appends what its subscription delivers;                *)
(* GetFilterChanges takes it and winds the timer up again;                 *)
(* UninstallFilter and timeoutLoop remove the filter.  All of them take    *)
(* filtersMu, and creating a filter holds it across the whole subscribe.   *)
(***************************************************************************)
EXTENDS EventSystem

CONSTANTS
  RPCFilterCap,  \* bound of the configuration on the filters
  Free,          \* filtersMu is not held
  Poll           \* a poll waits with filtersMu

ASSUME CapAssumption == RPCFilterCap \in Nat
ASSUME HolderAssumption == Free \notin Sub /\ Poll \notin Sub /\ Free # Poll

VARIABLES
  filtersMu,  \* the filter being created, Free, or Poll
  filters,    \* subscriptions with a filter
  deadline,   \* the timer of a filter
  hashes,     \* events a filter has for the next poll
  polled,     \* history: events its polls returned
  uninstalled \* history: filters a client or the timeout removed

apiVars == <<filtersMu, filters, deadline, hashes, polled, uninstalled>>
vars == <<eventVars, apiVars>>

Init ==
  /\ EventInit
  /\ filtersMu = Free /\ filters = {} /\ deadline = [s \in Sub |-> "none"]
  /\ hashes = [s \in Sub |-> <<>>] /\ polled = [s \in Sub |-> <<>>]
  /\ uninstalled = {}

-----------------------------------------------------------------------------
(* Creating a filter: NewBlockFilter, NewFilter and                        *)
(* NewPendingTransactionFilter, by the topic of the subscription.          *)

capReached(n) == n >= RPCFilterCap

(* SubscribeLogs refuses some block ranges.                                *)
refuses(s) == capReached(Cardinality(filters)) \/ TopicOf[s] = "evmEvents"

(* Identifiers are fresh: those of a topic are taken in order.             *)
NewFilter(s) ==
  /\ running
  /\ filtersMu = Free /\ call[s] = "new"
  /\ \A r \in Sub : r < s /\ TopicOf[r] = TopicOf[s] => call[r] # "new"
  /\ \/ /\ refuses(s)
        /\ call' = [call EXCEPT ![s] = "failed"] /\ UNCHANGED filtersMu
     \/ /\ ~capReached(Cardinality(filters))
        /\ call' = [call EXCEPT ![s] = "called"] /\ filtersMu' = s
  /\ UNCHANGED <<busVars, loopVars, consumer, remote, leaving, sent, readerVars, crash,
                 filters, deadline, hashes, polled, uninstalled>>

(* The steps of subscribe; an error returns from the constructor.          *)
Subscribe(s) ==
  /\ StartSubscribe(s) \/ FindTopic(s)
  /\ filtersMu' = IF call'[s] = "failed" THEN Free ELSE filtersMu
  /\ UNCHANGED <<filters, deadline, hashes, polled, uninstalled>>

(* The subscription is there: the filter, its timer and its reader start.  *)
StartFilter(s) ==
  /\ running
  /\ call[s] = "adding"
  /\ AddSubscriber(s)
  /\ call' = [call EXCEPT ![s] = "subscribed"]
  /\ reader' = [reader EXCEPT ![s] = "waiting"]
  /\ filters' = filters \cup {s} /\ deadline' = [deadline EXCEPT ![s] = "running"]
  /\ filtersMu' = Free
  /\ UNCHANGED <<topics, eventClosed, loopVars, consumer, remote, leaving, sent, held,
                 hashes, polled, uninstalled>>

-----------------------------------------------------------------------------
(* The reader of a filter.                                                 *)

(* What an event adds to a filter: a header always, a transaction only if  *)
(* it decodes and has something the filter is about.                       *)
found(s) == IF TopicOf[s] = "headerEvents" THEN {<<held[s]>>} ELSE {<<>>, <<held[s]>>}

HandleEvent(s) ==
  /\ running
  /\ filtersMu = Free /\ reader[s] = "holding"
  /\ \E new \in found(s) :
       hashes' = IF s \in filters THEN [hashes EXCEPT ![s] = @ \o new] ELSE hashes
  /\ reader' = [reader EXCEPT ![s] = "waiting"] /\ held' = [held EXCEPT ![s] = 0]
  /\ UNCHANGED <<busVars, loopVars, consumer, remote, call, leaving, sent, crash,
                 filtersMu, filters, deadline, polled, uninstalled>>

(* A response that does not decode ends the reader of a log filter, and    *)
(* leaves the filter.                                                      *)
DecodeFails(s) ==
  /\ running
  /\ reader[s] = "holding" /\ TopicOf[s] = "evmEvents"
  /\ reader' = [reader EXCEPT ![s] = "returning"] /\ held' = [held EXCEPT ![s] = 0]
  /\ UNCHANGED <<busVars, loopVars, consumer, remote, call, leaving, sent, crash, apiVars>>

(* The event channel is closed, or the error channel is: the reader will   *)
(* remove the filter and return, except that of a pending transaction      *)
(* filter after its error channel.                                         *)
EventClosed(s) ==
  /\ running
  /\ reader[s] = "waiting" /\ s \in eventClosed
  /\ reader' = [reader EXCEPT ![s] = "ended"]
  /\ UNCHANGED <<busVars, loopVars, consumer, remote, call, leaving, sent, held, crash,
                 apiVars>>

ErrClosed(s) ==
  /\ running
  /\ reader[s] = "waiting" /\ s \in errClosed
  /\ reader' = [reader EXCEPT ![s] = IF TopicOf[s] = "txEvents" THEN "erred" ELSE "ended"]
  /\ UNCHANGED <<busVars, loopVars, consumer, remote, call, leaving, sent, held, crash,
                 apiVars>>

RemoveFilter(s) ==
  /\ running
  /\ filtersMu = Free /\ reader[s] \in {"ended", "erred"}
  /\ filters' = filters \ {s}
  /\ reader' = [reader EXCEPT ![s] = IF @ = "ended" THEN "returning" ELSE "waiting"]
  /\ UNCHANGED <<busVars, loopVars, consumer, remote, call, leaving, sent, held, crash,
                 filtersMu, deadline, hashes, polled, uninstalled>>

(* The deferred cancelSubs.                                                *)
ReturnReader(s) ==
  /\ running
  /\ reader[s] = "returning"
  /\ unsubscribe(s)
  /\ reader' = [reader EXCEPT ![s] = "done"]
  /\ UNCHANGED <<topics, eventClosed, loopVars, consumer, remote, call, leaving, sent,
                 held, apiVars>>

-----------------------------------------------------------------------------
(* Polling, and removing filters.                                          *)

ExpireDeadline(s) ==
  /\ running
  /\ s \in filters /\ deadline[s] = "running"
  /\ deadline' = [deadline EXCEPT ![s] = "fired"]
  /\ UNCHANGED <<eventVars, filtersMu, filters, hashes, polled, uninstalled>>

(* Stopping a timer that has fired waits for its value, with filtersMu.    *)
GetFilterChanges_again(s) ==   \* faulty variant: the events stay
  /\ running
  /\ filtersMu = Free /\ s \in filters
  /\ Len(polled[s]) < 2
  /\ polled' = [polled EXCEPT ![s] = @ \o hashes[s]]
  /\ UNCHANGED <<eventVars, filtersMu, filters, deadline, hashes, uninstalled>>

GetFilterChanges(s) ==
  /\ running
  /\ filtersMu = Free /\ s \in filters
  /\ IF deadline[s] = "drained"
     THEN filtersMu' = Poll /\ UNCHANGED <<deadline, hashes, polled>>
     ELSE /\ deadline' = [deadline EXCEPT ![s] = "running"]
          /\ polled' = [polled EXCEPT ![s] = @ \o hashes[s]]
          /\ hashes' = [hashes EXCEPT ![s] = <<>>]
          /\ UNCHANGED filtersMu
  /\ UNCHANGED <<eventVars, filters, uninstalled>>

(* Subscription.Unsubscribe starts a goroutine that waits for eventLoop.   *)
Unsubscribe(S) == leaving' = [s \in Sub |-> leaving[s] + (IF s \in S THEN 1 ELSE 0)]

UninstallFilter_kept(s) ==   \* faulty variant: the filter stays
  /\ running
  /\ filtersMu = Free /\ s \in filters
  /\ leaving[s] < 2
  /\ uninstalled' = uninstalled \cup {s}
  /\ Unsubscribe({s})
  /\ UNCHANGED <<busVars, loopVars, consumer, remote, call, sent, readerVars, crash,
                 filtersMu, filters, deadline, hashes, polled>>

UninstallFilter(s) ==
  /\ running
  /\ filtersMu = Free /\ s \in filters
  /\ filters' = filters \ {s} /\ uninstalled' = uninstalled \cup {s}
  /\ Unsubscribe({s})
  /\ UNCHANGED <<busVars, loopVars, consumer, remote, call, sent, readerVars, crash,
                 filtersMu, deadline, hashes, polled>>

(* A tick of timeoutLoop: it takes the value of each timer that fired.     *)
timeoutLoop_kept ==   \* faulty variant: the filters stay
  LET expired == {s \in filters : deadline[s] = "fired"}
  IN /\ running
     /\ filtersMu = Free /\ expired # {}
     /\ uninstalled' = uninstalled \cup expired
     /\ deadline' = [s \in Sub |-> IF s \in expired THEN "drained" ELSE deadline[s]]
     /\ Unsubscribe(expired)
     /\ UNCHANGED <<busVars, loopVars, consumer, remote, call, sent, readerVars, crash,
                    filtersMu, filters, hashes, polled>>

timeoutLoop ==
  LET expired == {s \in filters : deadline[s] = "fired"}
  IN /\ running
     /\ filtersMu = Free /\ expired # {}
     /\ filters' = filters \ expired /\ uninstalled' = uninstalled \cup expired
     /\ deadline' = [s \in Sub |-> IF s \in expired THEN "drained" ELSE deadline[s]]
     /\ Unsubscribe(expired)
     /\ UNCHANGED <<busVars, loopVars, consumer, remote, call, sent, readerVars, crash,
                    filtersMu, hashes, polled>>

Next ==
  \/ EventStep /\ UNCHANGED apiVars
  \/ \E s \in Sub : \/ NewFilter(s) \/ Subscribe(s) \/ StartFilter(s)
                    \/ HandleEvent(s) \/ DecodeFails(s) \/ EventClosed(s) \/ ErrClosed(s)
                    \/ RemoveFilter(s) \/ ReturnReader(s)
                    \/ ExpireDeadline(s) \/ GetFilterChanges(s) \/ UninstallFilter(s)
  \/ timeoutLoop

(* Every goroutine that can go on does; clients, timers and Tendermint     *)
(* need not.  A select with two cases ready picks one at random, so a      *)
(* reader that loops takes each of them in the end.                        *)
Fairness ==
  /\ \A s \in Sub :
       /\ WF_vars(Subscribe(s) \/ StartFilter(s))
       /\ WF_vars(HandleEvent(s) \/ ErrClosed(s) \/ RemoveFilter(s) \/ ReturnReader(s))
       /\ SF_vars(EventClosed(s))
  /\ WF_vars((\E s \in Sub : Install(s) \/ Uninstall(s)) /\ UNCHANGED apiVars)
  /\ \A c \in Chan :
       WF_vars(/\ CloseAllSubscribers(c) \/ DeleteTopic(c) \/ \E s \in Sub : PublishOne(c, s)
               /\ UNCHANGED apiVars)
  /\ WF_vars((SendEvent \/ DropEvent \/ SendClosed) /\ UNCHANGED apiVars)

Spec == Init /\ [][Next]_vars /\ Fairness

-----------------------------------------------------------------------------
(* The variables have their types: every channel a map or a goroutine      *)
(* refers to is one that was made, and the crash is one of the known ones. *)
TypeOK ==
  /\ topics \in [Topic -> Chan \cup {NoChan}] /\ subscribers \in [Topic -> SUBSET Sub]
  /\ topicChans \in [Topic -> Chan \cup {NoChan}] /\ closed \subseteq Chan
  /\ made \in Chan \cup {NoChan} /\ remote \subseteq Topic
  /\ eventClosed \subseteq Sub /\ errClosed \subseteq Sub /\ index \subseteq Sub
  /\ filters \subseteq Sub /\ uninstalled \subseteq Sub
  /\ publisher \in [Chan -> Publisher]
  /\ consumer \in [pc : {"waiting", "sending"}, ch : Chan \cup {NoChan}, event : 0 .. MaxEvents]
  /\ call \in [Sub -> {"new", "called", "installing", "joining", "adding",
                       "subscribed", "failed"}]
  /\ reader \in [Sub -> {"none", "waiting", "holding", "ended", "erred", "returning", "done"}]
  /\ leaving \in [Sub -> Nat] /\ sent \in 0 .. MaxEvents /\ held \in [Sub -> 0 .. MaxEvents]
  /\ crash \in {"none", "second close", "concurrent map access",
                "send on closed event channel", "send on closed topic channel"}
  /\ filtersMu \in Sub \cup {Free, Poll}
  /\ deadline \in [Sub -> {"none", "running", "fired", "drained"}]
  /\ hashes \in [Sub -> Seq(1 .. MaxEvents)] /\ polled \in [Sub -> Seq(1 .. MaxEvents)]

(* GetFilterChanges never waits with filtersMu for a timer whose value     *)
(* timeoutLoop has taken already.                                          *)
PollNeverBlocks == filtersMu # Poll

(* No channel is closed twice: each subscription is handed to uninstall at *)
(* most once, by UninstallFilter or timeoutLoop, and leaves the bus before *)
(* its event channel is closed.                                            *)
ClosedOnce == crash # "second close"

(* No event comes twice through one filter: "`getFilterChanges` returns    *)
(* the filter's internal list of block hashes and resets it", and an event *)
(* goes through one channel of its topic only.                             *)
NoEventTwice ==
  \A s \in Sub :
    LET all == polled[s] \o hashes[s]
    IN \A i, j \in DOMAIN all : all[i] = all[j] => i = j

(* Whoever creates a filter lets filtersMu go: eventLoop answers it, and   *)
(* no goroutine it waits for waits for filtersMu.                          *)
MutexReleased == (filtersMu # Free) ~> (filtersMu = Free \/ ~running)

(* UninstallFilter and the timeout end the goroutine of a block or log     *)
(* filter, also while others use its topic.                                *)
ReaderStops ==
  \A s \in Sub :
    (s \in uninstalled /\ TopicOf[s] # "txEvents") ~> (reader[s] = "done" \/ ~running)

(* CHANGELOG.md: "`uninstallFilter` stops the polling goroutine".          *)
EveryReaderStops ==
  \A s \in Sub : (s \in uninstalled) ~> (reader[s] = "done" \/ ~running)

(* eventLoop: "remove topic only when channel is not used by other         *)
(* subscriptions".  No event channel is closed but those of filters that   *)
(* were uninstalled.                                                       *)
OpenWhileInUse == eventClosed \subseteq uninstalled

(* "subscribe performs a new event subscription to a given Tendermint      *)
(* event": while a filter is there, so is the query of its topic.          *)
SubscribedToTendermint ==
  \A s \in filters : s \in index => TopicOf[s] \in remote

(* consumeEvents: "gracefully handle lagging subscribers".                 *)
LaggingHandled == crash # "send on closed topic channel"

=============================================================================
