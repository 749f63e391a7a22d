---------------------------- MODULE StakeHubEvents ----------------------------
(***************************************************************************)
(* The event side of the Go binding of the StakeHub contract of BSC: the   *)
(* iterators that Filter<Event> returns and the goroutines that            *)
(* Watch<Event> starts.  The binding has one copy of this code per event,  *)
(* and the copies differ in nothing but the event's name, its fields and   *)
(* its indexed arguments: an event is here a record with the name and the  *)
(* arguments its copy was generated for, and the code is written once.     *)
(*                                                                         *)
(* bind.BoundContract, event.Subscription and the node are external: what  *)
(* the binding relies on is FilterLogs, whose producer goroutine pushes    *)
(* the result of one query into a channel of ChanCap logs; WatchLogs,      *)
(* whose RPC subscription forwards new logs into such a channel until the  *)
(* connection fails; and Unsubscribe, which waits for the goroutine of the *)
(* subscription to end.                                                    *)
(***************************************************************************)
EXTENDS Naturals, Sequences, FiniteSets

CONSTANTS
    Iterators,   \* iterators a client may create
    Watchers,    \* watch goroutines a client may start
    Topics,      \* values of indexed arguments
    Logs,        \* the logs StakeHub may emit
    Queries,     \* what clients ask for: an event and a rule per argument
    ChanCap,     \* capacity of the logs channels
    MaxClients,  \* bound: iterators and watchers created
    NoLog        \* no event in hand

ASSUME ChanCapAssumption == ChanCap \in Nat \ {0}

-----------------------------------------------------------------------------
Event(name, indexed) == [name |-> name, indexed |-> indexed]

Claimed == Event("Claimed", <<"operatorAddress", "delegator">>)
CommissionRateEdited == Event("CommissionRateEdited", <<"operatorAddress">>)
ConsensusAddressEdited ==
    Event("ConsensusAddressEdited", <<"operatorAddress", "newConsensusAddress">>)
Delegated == Event("Delegated", <<"operatorAddress", "delegator">>)
DescriptionEdited == Event("DescriptionEdited", <<"operatorAddress">>)
Initialized == Event("Initialized", <<>>)
ParamChange == Event("ParamChange", <<>>)
Paused == Event("Paused", <<>>)
Redelegated ==
    Event("Redelegated", <<"srcValidator", "dstValidator", "delegator">>)
Resumed == Event("Resumed", <<>>)
RewardDistributeFailed == Event("RewardDistributeFailed", <<"operatorAddress">>)
RewardDistributed == Event("RewardDistributed", <<"operatorAddress">>)
Undelegated == Event("Undelegated", <<"operatorAddress", "delegator">>)
ValidatorCreated ==
    Event("ValidatorCreated",
          <<"consensusAddress", "operatorAddress", "creditContract">>)
ValidatorEmptyJailed == Event("ValidatorEmptyJailed", <<"operatorAddress">>)
ValidatorJailed == Event("ValidatorJailed", <<"operatorAddress">>)
ValidatorSlashed == Event("ValidatorSlashed", <<"operatorAddress">>)
ValidatorUnjailed == Event("ValidatorUnjailed", <<"operatorAddress">>)
VoteAddressEdited == Event("VoteAddressEdited", <<"operatorAddress">>)

Events ==
    { Claimed, CommissionRateEdited, ConsensusAddressEdited, Delegated,
      DescriptionEdited, Initialized, ParamChange, Paused, Redelegated,
      Resumed, RewardDistributeFailed, RewardDistributed, Undelegated,
      ValidatorCreated, ValidatorEmptyJailed, ValidatorJailed,
      ValidatorSlashed, ValidatorUnjailed, VoteAddressEdited }

\* A log carries the name of its event as topic 0, the indexed arguments as
\* the topics after it, and data the ABI of the binding can decode or not.
LogOf(e) ==
    [name : {e.name}, topics : [1..Len(e.indexed) -> Topics], decodable : BOOLEAN]

\* A rule without values lets every value through.
QueryOf(e) == [event : {e}, rules : [1..Len(e.indexed) -> SUBSET Topics]]

ASSUME ClientAssumption == Iterators \cap Watchers = {}

ASSUME LogsAssumption ==
    /\ \A l \in Logs : \E e \in Events : l \in LogOf(e)
    /\ \A q \in Queries : \E e \in Events : q \in QueryOf(e)
    /\ Queries # {}
    /\ NoLog \notin Logs

Matches(q, l) ==
    /\ l.name = q.event.name
    /\ \A i \in DOMAIN q.rules : q.rules[i] = {} \/ l.topics[i] \in q.rules[i]

\* UnpackLog, which Parse<Event> and every delivery go through.
Unpacks(e, l) == l.name = e.name /\ l.decodable

VARIABLES
    answer,  \* the node: the logs that match each query, in their order
    emitted, \* the number of logs StakeHub has emitted
    iter,    \* the iterators: their fields, their producer, their caller
    watch    \* the watch goroutines, their RPC subscription, their client

nodeVars == <<answer, emitted>>
hubVars == <<nodeVars, iter, watch>>

NoIterator ==
    [pc |-> "none", query |-> CHOOSE q \in Queries : TRUE, found |-> <<>>,
     buff |-> <<>>, logs |-> <<>>, ended |-> FALSE, unsub |-> FALSE,
     done |-> FALSE, fail |-> FALSE, got |-> <<>>, exhausted |-> FALSE]

NoWatcher ==
    [pc |-> "none", query |-> CHOOSE q \in Queries : TRUE, start |-> 0,
     forward |-> <<>>, conn |-> "live", logs |-> <<>>, event |-> NoLog,
     unsub |-> FALSE, result |-> "nil", reported |-> "open",
     client |-> "idle", got |-> <<>>]

HubInit ==
    /\ answer = [q \in Queries |-> <<>>]
    /\ emitted = 0
    /\ iter = [i \in Iterators |-> NoIterator]
    /\ watch = [w \in Watchers |-> NoWatcher]

MoreClients ==
    Cardinality({i \in Iterators : iter[i].pc # "none"})
        + Cardinality({w \in Watchers : watch[w].pc # "none"}) < MaxClients

-----------------------------------------------------------------------------
(* Iterators.  found, got and exhausted are history: what the query        *)
(* returned, what Next delivered and whether it said there is no more.     *)

\* The step of an iterator changes nothing but the iterator.
IteratorBecomes(i, r) ==
    /\ iter' = [iter EXCEPT ![i] = r]
    /\ UNCHANGED <<nodeVars, watch>>

\* Filter<Event>: the query runs before the call returns, and a goroutine
\* starts to push its result.
Filter(i, q) ==
    /\ iter[i].pc = "none" /\ MoreClients
    /\ IteratorBecomes(i, [NoIterator EXCEPT !.pc = "idle", !.query = q,
                                             !.found = answer[q], !.buff = answer[q]])

\* The producer of FilterLogs: push a log, or end, closing sub.Err(), when
\* all are pushed or Close asked it to.
Push(i) ==
    /\ iter[i].pc # "none" /\ ~iter[i].ended
    /\ iter[i].buff # <<>>
    /\ Len(iter[i].logs) < ChanCap
    /\ IteratorBecomes(i, [iter[i] EXCEPT !.logs = Append(@, Head(iter[i].buff)),
                                          !.buff = Tail(@)])

EndProducer(i) ==
    /\ iter[i].pc # "none" /\ ~iter[i].ended
    /\ iter[i].buff = <<>> \/ iter[i].unsub
    /\ IteratorBecomes(i, [iter[i] EXCEPT !.ended = TRUE])

\* Next: an iterator that failed returns at once.
CallNext(i) ==
    /\ iter[i].pc = "idle" /\ ~iter[i].fail
    /\ IteratorBecomes(i, [iter[i] EXCEPT !.pc = "next"])

\* The case of both selects that receives a log: deliver it or fail.
Delivered(r) ==
    [r EXCEPT !.pc = "idle", !.logs = Tail(@), !.got = Append(@, Head(r.logs))]
Failed(r) == [r EXCEPT !.pc = "idle", !.logs = Tail(@), !.fail = TRUE]

NextLog(i) ==
    /\ iter[i].pc = "next"
    /\ iter[i].logs # <<>>
    /\ IteratorBecomes(i, IF Unpacks(iter[i].query.event, Head(iter[i].logs))
                          THEN Delivered(iter[i])
                          ELSE Failed(iter[i]))

\* Wrong: the iteration is over as soon as the subscription is.
NextErrStops(i) ==
    /\ iter[i].pc = "next" /\ ~iter[i].done
    /\ iter[i].ended
    /\ IteratorBecomes(i, [iter[i] EXCEPT !.pc = "idle", !.done = TRUE, !.exhausted = TRUE])

\* Wrong: only a subscription that was closed ends the wait of Next.
NextErrOnClose(i) ==
    /\ iter[i].pc = "next" /\ ~iter[i].done
    /\ iter[i].ended /\ iter[i].unsub
    /\ IteratorBecomes(i, [iter[i] EXCEPT !.done = TRUE])

\* sub.Err() was closed without an error: go on with what is in the channel.
NextErr(i) ==
    /\ iter[i].pc = "next" /\ ~iter[i].done
    /\ iter[i].ended
    /\ IteratorBecomes(i, [iter[i] EXCEPT !.done = TRUE])

\* The default case of the first select.
NextNone(i) ==
    /\ iter[i].pc = "next" /\ iter[i].done
    /\ iter[i].logs = <<>>
    /\ IteratorBecomes(i, [iter[i] EXCEPT !.pc = "idle", !.exhausted = TRUE])

\* Close: Unsubscribe asks a producer that still runs to end, and waits for it.
Close(i) ==
    /\ iter[i].pc = "idle"
    /\ IteratorBecomes(i, [iter[i] EXCEPT !.pc = "close", !.unsub = @ \/ ~iter[i].ended])

CloseReturns(i) ==
    /\ iter[i].pc = "close"
    /\ iter[i].ended
    /\ IteratorBecomes(i, [iter[i] EXCEPT !.pc = "idle"])

NextStep(i) == NextLog(i) \/ NextErr(i) \/ NextNone(i)
Producer(i) == Push(i) \/ EndProducer(i)

-----------------------------------------------------------------------------
(* Watchers.  start and got are history: how many logs matched when the    *)
(* subscription began, and what the client received.                       *)

\* The step of a watcher changes nothing but the watcher.
WatcherBecomes(w, r) ==
    /\ watch' = [watch EXCEPT ![w] = r]
    /\ UNCHANGED <<nodeVars, iter>>

\* Watch<Event>: subscribe at the node and start the goroutine.
Watch(w, q) ==
    /\ watch[w].pc = "none" /\ MoreClients
    /\ WatcherBecomes(w, [NoWatcher EXCEPT !.pc = "select", !.query = q,
                                           !.start = Len(answer[q])])

\* The node notifies the subscriptions that are live of a new log.
Notified(r, l) == r.pc # "none" /\ r.conn = "live" /\ Matches(r.query, l)

Emit(l) ==
    /\ emitted' = emitted + 1
    /\ answer' = [q \in Queries |->
           IF Matches(q, l) THEN Append(answer[q], l) ELSE answer[q]]
    /\ watch' = [w \in Watchers |->
           IF Notified(watch[w], l)
           THEN [watch[w] EXCEPT !.forward = Append(@, l)]
           ELSE watch[w]]
    /\ UNCHANGED iter

\* The RPC client hands a notification over.
Forward(w) ==
    /\ watch[w].conn = "live"
    /\ watch[w].forward # <<>>
    /\ Len(watch[w].logs) < ChanCap
    /\ WatcherBecomes(w, [watch[w] EXCEPT !.logs = Append(@, Head(watch[w].forward)),
                                          !.forward = Tail(@)])

\* The subscription ends with an error (connection lost, queue overflow) or,
\* when the client of the node is closed, with a nil error.  What was not
\* handed over is lost.
Disconnect(w, conn) ==
    /\ watch[w].pc # "none" /\ watch[w].conn = "live"
    /\ WatcherBecomes(w, [watch[w] EXCEPT !.conn = conn, !.forward = <<>>])

\* The outer select receives a log: unpack it, or end with the error.
Taken(r) == [r EXCEPT !.pc = "send", !.logs = Tail(@), !.event = Head(r.logs)]
Ends(r, result) == [r EXCEPT !.pc = "cleanup", !.result = result]

TakeLog(w) ==
    /\ watch[w].pc = "select"
    /\ watch[w].logs # <<>>
    /\ WatcherBecomes(w, IF Unpacks(watch[w].query.event, Head(watch[w].logs))
                         THEN Taken(watch[w])
                         ELSE Ends([watch[w] EXCEPT !.logs = Tail(@)], "error"))

\* Wrong: the event in hand is dropped when another log is waiting.
SendDropping(w) ==
    /\ watch[w].pc = "send"
    /\ WatcherBecomes(w, [watch[w] EXCEPT !.pc = "select", !.event = NoLog,
           !.got = IF watch[w].logs = <<>> THEN Append(@, watch[w].event) ELSE @])

\* sink <- event: the client receives it, or its channel has room.
Send(w) ==
    /\ watch[w].pc = "send"
    /\ WatcherBecomes(w, [watch[w] EXCEPT !.pc = "select", !.event = NoLog,
                                          !.got = Append(@, watch[w].event)])

\* Wrong: the inner select has no case for the error.
SeeErrInSelect(w) ==
    /\ watch[w].pc = "select"
    /\ watch[w].conn \in {"failed", "shut"}
    /\ WatcherBecomes(w, Ends(watch[w], IF watch[w].conn = "failed" THEN "error" ELSE "nil"))

\* Wrong: passes on how the connection ended.
SeeErrRaw(w) ==
    /\ watch[w].pc \in {"select", "send"}
    /\ watch[w].conn \in {"failed", "shut"}
    /\ WatcherBecomes(w, Ends(watch[w], watch[w].conn))

\* Both selects: the subscription reports an error, or a nil one.
SeeErr(w) ==
    /\ watch[w].pc \in {"select", "send"}
    /\ watch[w].conn \in {"failed", "shut"}
    /\ WatcherBecomes(w, Ends(watch[w], IF watch[w].conn = "failed" THEN "error" ELSE "nil"))

\* Wrong: the inner select has no case for quit.
SeeQuitInSelect(w) ==
    /\ watch[w].pc = "select"
    /\ watch[w].unsub
    /\ WatcherBecomes(w, Ends(watch[w], "nil"))

\* Both selects: the client asked the goroutine to quit.
SeeQuit(w) ==
    /\ watch[w].pc \in {"select", "send"}
    /\ watch[w].unsub
    /\ WatcherBecomes(w, Ends(watch[w], "nil"))

\* The deferred sub.Unsubscribe() at the node, then the end of the goroutine:
\* its error reaches the client unless that has unsubscribed meanwhile.
Cleanup(w) ==
    /\ watch[w].pc = "cleanup"
    /\ WatcherBecomes(w, [watch[w] EXCEPT !.pc = "done", !.conn = "closed",
           !.forward = <<>>,
           !.reported = IF watch[w].unsub THEN "nil" ELSE watch[w].result])

\* Unsubscribe by the client, which returns at once when the goroutine ended
\* and waits for its end otherwise.
Unsubscribe(w) ==
    /\ watch[w].pc \notin {"none", "done"}
    /\ watch[w].client = "idle"
    /\ WatcherBecomes(w, [watch[w] EXCEPT !.unsub = TRUE, !.client = "wait"])

UnsubscribeReturns(w) ==
    /\ watch[w].client = "wait"
    /\ watch[w].pc = "done"
    /\ WatcherBecomes(w, [watch[w] EXCEPT !.client = "idle"])

Goroutine(w) == TakeLog(w) \/ SeeErr(w) \/ SeeQuit(w) \/ Cleanup(w)

-----------------------------------------------------------------------------
IteratorNext(i) ==
    \/ \E q \in Queries : Filter(i, q)
    \/ Producer(i) \/ CallNext(i) \/ NextStep(i) \/ Close(i) \/ CloseReturns(i)

WatcherNext(w) ==
    \/ \E q \in Queries : Watch(w, q)
    \/ Forward(w)
    \/ \E conn \in {"failed", "shut"} : Disconnect(w, conn)
    \/ Goroutine(w) \/ Send(w) \/ Unsubscribe(w) \/ UnsubscribeReturns(w)

ClientNext ==
    \/ \E i \in Iterators : IteratorNext(i)
    \/ \E w \in Watchers : WatcherNext(w)

HubNext == ClientNext \/ \E l \in Logs : Emit(l)

HubSpec == HubInit /\ [][HubNext]_hubVars

\* The Go scheduler runs every goroutine that can go on; what a client calls,
\* and whether it reads its sink, is up to the client.
HubFairness ==
    /\ \A i \in Iterators : /\ WF_hubVars(Producer(i))
                            /\ WF_hubVars(NextStep(i))
                            /\ WF_hubVars(CloseReturns(i))
    /\ \A w \in Watchers : /\ WF_hubVars(Goroutine(w))
                           /\ WF_hubVars(UnsubscribeReturns(w))

-----------------------------------------------------------------------------
LogSeq == Seq(Logs)

IteratorType ==
    [pc : {"none", "idle", "next", "close"}, query : Queries,
     found : LogSeq, buff : LogSeq, logs : LogSeq, ended : BOOLEAN,
     unsub : BOOLEAN, done : BOOLEAN, fail : BOOLEAN, got : LogSeq,
     exhausted : BOOLEAN]

WatcherType ==
    [pc : {"none", "select", "send", "cleanup", "done"}, query : Queries,
     start : Nat, forward : LogSeq, conn : {"live", "failed", "shut", "closed"},
     logs : LogSeq, event : Logs \cup {NoLog}, unsub : BOOLEAN,
     result : {"nil", "error"}, reported : {"open", "nil", "error"},
     client : {"idle", "wait"}, got : LogSeq]

\* The types of the state of the binding's clients and their goroutines.
HubTypeOK ==
    /\ answer \in [Queries -> LogSeq]
    /\ emitted \in Nat
    /\ iter \in [Iterators -> IteratorType]
    /\ watch \in [Watchers -> WatcherType]

\* When Next says there are no more events, and neither failed nor was
\* closed before, it has delivered every event the query found, in order,
\* whichever way the selects of Next and the producer interleaved.
IterationComplete ==
    \A i \in Iterators :
        iter[i].exhausted /\ ~iter[i].fail /\ ~iter[i].unsub
            => iter[i].got = iter[i].found

\* Next, Close and Unsubscribe return, also when the client does not read
\* its sink while it unsubscribes and when no log ever comes.
ShutdownReturns ==
    /\ \A i \in Iterators : iter[i].pc \in {"next", "close"} ~> iter[i].pc = "idle"
    /\ \A w \in Watchers : watch[w].client = "wait" ~> watch[w].client = "idle"

\* A client that does not unsubscribe learns that its subscription broke, even
\* if it stopped reading the sink.
LossIsReported ==
    \A w \in Watchers :
        watch[w].conn = "failed"
            ~> (watch[w].reported = "error" \/ watch[w].unsub)

\* What a client has received, and what there is for it to receive.
Seen == [c \in Iterators \cup Watchers |->
            IF c \in Iterators THEN iter[c].got ELSE watch[c].got]
Wanted == [c \in Iterators \cup Watchers |->
            IF c \in Iterators
            THEN iter[c].found
            ELSE IF watch[c].pc = "none"
                 THEN <<>>
                 ELSE LET all == answer[watch[c].query]
                      IN  SubSeq(all, watch[c].start + 1, Len(all))]

LF == INSTANCE LogFeed WITH Clients <- Iterators \cup Watchers,
                            seen <- Seen, wanted <- Wanted

\* Every client receives the events it asked for in the order of the chain,
\* none twice and none left out, as far as it gets: the channels, goroutines
\* and connections implement the feed of LogFeed.
Feed == LF!FeedSpec
=============================================================================
