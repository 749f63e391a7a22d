--------------------------- MODULE StakeHub_proofs ---------------------------
(***************************************************************************)
(* Proofs about the clients of the StakeHub binding: types, completeness   *)
(* of an iteration, and the refinement of LogFeed.                         *)
(***************************************************************************)
EXTENDS CreateValidator, ChannelLemmas

\* What ChannelLemmas says of the sequences of logs.
LEMMA HeadsMove ==
    \A u, v \in Seq(Logs) : v # <<>> => Append(u, Head(v)) \o Tail(v) = u \o v
BY MoveHead

LEMMA HeadsMoveThrough ==
    \A u, v, w \in Seq(Logs) :
        v # <<>> => Append(u, Head(v)) \o (Tail(v) \o w) = u \o (v \o w)
BY MoveHeadThrough

LEMMA LogsAppend ==
    \A u, v \in Seq(Logs), l \in Logs : u \o Append(v, l) = Append(u \o v, l)
BY AppendLast

-----------------------------------------------------------------------------
(* Types.                                                                  *)

\* What iterators and watchers are before they exist.
LEMMA NoClientType ==
    NoIterator \in IteratorType /\ NoWatcher \in WatcherType
<1>1. (CHOOSE q \in Queries : TRUE) \in Queries
  BY LogsAssumption
<1>2. <<>> \in LogSeq
  BY DEF LogSeq
<1> DEFINE q0 == CHOOSE q \in Queries : TRUE
<1> HIDE DEF q0
<1>3. q0 \in Queries
  BY <1>1 DEF q0
<1>4. NoIterator =
        [pc |-> "none", query |-> q0, found |-> <<>>, buff |-> <<>>,
         logs |-> <<>>, ended |-> FALSE, unsub |-> FALSE, done |-> FALSE,
         fail |-> FALSE, got |-> <<>>, exhausted |-> FALSE]
  BY DEF NoIterator, q0
<1>5. NoWatcher =
        [pc |-> "none", query |-> q0, start |-> 0, forward |-> <<>>,
         conn |-> "live", logs |-> <<>>, event |-> NoLog, unsub |-> FALSE,
         result |-> "nil", reported |-> "open", client |-> "idle", got |-> <<>>]
  BY DEF NoWatcher, q0
<1>6. NoIterator \in IteratorType
  BY <1>2, <1>3, <1>4 DEF IteratorType
<1>7. NoWatcher \in WatcherType
  BY <1>2, <1>3, <1>5 DEF WatcherType
<1> QED BY <1>6, <1>7

\* The step of an iterator leaves it an iterator, and all else alone.
LEMMA IteratorTypeStep ==
    ASSUME HubTypeOK, NEW i \in Iterators, IteratorNext(i)
    PROVE  HubTypeOK'
<1>1. iter[i] \in IteratorType
  BY DEF HubTypeOK
<1>2. SUFFICES \E r \in IteratorType : IteratorBecomes(i, r)
  BY <1>2 DEF HubTypeOK, IteratorBecomes, nodeVars
<1> USE DEF LogSeq
<1>3. ASSUME NEW q \in Queries, Filter(i, q) PROVE <1>2!1
  <2>1. [NoIterator EXCEPT !.pc = "idle", !.query = q, !.found = answer[q],
                           !.buff = answer[q]] \in IteratorType
    <3>1. answer[q] \in LogSeq
      BY DEF HubTypeOK
    <3> QED BY <3>1, NoClientType DEF IteratorType
  <2> QED BY <1>3, <2>1 DEF Filter
<1>4. CASE Push(i)
  <2>1. /\ Append(iter[i].logs, Head(iter[i].buff)) \in LogSeq
        /\ Tail(iter[i].buff) \in LogSeq
    BY <1>1, <1>4, MoveHead DEF Push, IteratorType
  <2>2. [iter[i] EXCEPT !.logs = Append(@, Head(iter[i].buff)),
                        !.buff = Tail(@)] \in IteratorType
    BY <1>1, <2>1 DEF IteratorType
  <2> QED BY <1>4, <2>2 DEF Push
<1>5. CASE EndProducer(i)
  <2>1. [iter[i] EXCEPT !.ended = TRUE] \in IteratorType
    BY <1>1 DEF IteratorType
  <2> QED BY <1>5, <2>1 DEF EndProducer
<1>6. CASE CallNext(i)
  <2>1. [iter[i] EXCEPT !.pc = "next"] \in IteratorType
    BY <1>1 DEF IteratorType
  <2> QED BY <1>6, <2>1 DEF CallNext
<1>7. CASE NextLog(i)
  <2>1. /\ Append(iter[i].got, Head(iter[i].logs)) \in LogSeq
        /\ Tail(iter[i].logs) \in LogSeq
    BY <1>1, <1>7, MoveHead DEF NextLog, IteratorType
  <2>2. Delivered(iter[i]) \in IteratorType /\ Failed(iter[i]) \in IteratorType
    BY <1>1, <2>1 DEF IteratorType, Delivered, Failed
  <2> QED BY <1>7, <2>2 DEF NextLog
<1>8. CASE NextErr(i)
  <2>1. [iter[i] EXCEPT !.done = TRUE] \in IteratorType
    BY <1>1 DEF IteratorType
  <2> QED BY <1>8, <2>1 DEF NextErr
<1>9. CASE NextNone(i)
  <2>1. [iter[i] EXCEPT !.pc = "idle", !.exhausted = TRUE] \in IteratorType
    BY <1>1 DEF IteratorType
  <2> QED BY <1>9, <2>1 DEF NextNone
<1>10. CASE Close(i)
  <2>1. [iter[i] EXCEPT !.pc = "close", !.unsub = @ \/ ~iter[i].ended] \in IteratorType
    BY <1>1 DEF IteratorType
  <2> QED BY <1>10, <2>1 DEF Close
<1>11. CASE CloseReturns(i)
  <2>1. [iter[i] EXCEPT !.pc = "idle"] \in IteratorType
    BY <1>1 DEF IteratorType
  <2> QED BY <1>11, <2>1 DEF CloseReturns
<1> QED BY <1>3, <1>4, <1>5, <1>6, <1>7, <1>8, <1>9, <1>10, <1>11
        DEF IteratorNext, Producer, NextStep

\* The step of a watcher leaves it a watcher, and all else alone.
LEMMA WatcherTypeStep ==
    ASSUME HubTypeOK, NEW w \in Watchers, WatcherNext(w),
           watch[w].pc = "send" => watch[w].event \in Logs
    PROVE  HubTypeOK'
<1>1. watch[w] \in WatcherType /\ <<>> \in LogSeq
  BY DEF HubTypeOK, LogSeq
<1>2. SUFFICES \E r \in WatcherType : WatcherBecomes(w, r)
  BY <1>2 DEF HubTypeOK, WatcherBecomes, nodeVars
<1>3. ASSUME NEW q \in Queries, Watch(w, q) PROVE <1>2!1
  <2>1. [NoWatcher EXCEPT !.pc = "select", !.query = q,
                          !.start = Len(answer[q])] \in WatcherType
    <3>1. Len(answer[q]) \in Nat
      BY DEF HubTypeOK, LogSeq
    <3> QED BY <3>1, NoClientType DEF WatcherType
  <2> QED BY <1>3, <2>1 DEF Watch
<1>4. CASE Forward(w)
  <2>1. /\ Append(watch[w].logs, Head(watch[w].forward)) \in LogSeq
        /\ Tail(watch[w].forward) \in LogSeq
    BY <1>1, <1>4, MoveHead DEF Forward, WatcherType, LogSeq
  <2>2. [watch[w] EXCEPT !.logs = Append(@, Head(watch[w].forward)),
                         !.forward = Tail(@)] \in WatcherType
    BY <1>1, <2>1 DEF WatcherType
  <2> QED BY <1>4, <2>2 DEF Forward
<1>5. ASSUME NEW conn \in {"failed", "shut"}, Disconnect(w, conn) PROVE <1>2!1
  <2>1. [watch[w] EXCEPT !.conn = conn, !.forward = <<>>] \in WatcherType
    BY <1>1 DEF WatcherType
  <2> QED BY <1>5, <2>1 DEF Disconnect
<1>6. CASE TakeLog(w)
  <2>1. /\ Head(watch[w].logs) \in Logs
        /\ Tail(watch[w].logs) \in LogSeq
    BY <1>1, <1>6, HeadTailProperties DEF TakeLog, WatcherType, LogSeq
  <2>2. Taken(watch[w]) \in WatcherType
    BY <1>1, <2>1 DEF WatcherType, Taken
  <2>3. Ends([watch[w] EXCEPT !.logs = Tail(@)], "error") \in WatcherType
    BY <1>1, <2>1 DEF WatcherType, Ends
  <2> QED BY <1>6, <2>2, <2>3 DEF TakeLog
<1>7. \A result \in {"nil", "error"} : Ends(watch[w], result) \in WatcherType
  BY <1>1 DEF Ends, WatcherType
<1>8. CASE SeeErr(w) \/ SeeQuit(w)
  BY <1>7, <1>8 DEF SeeErr, SeeQuit
<1>9. CASE Cleanup(w)
  <2>1. [watch[w] EXCEPT !.pc = "done", !.conn = "closed", !.forward = <<>>,
             !.reported = IF watch[w].unsub THEN "nil" ELSE watch[w].result]
            \in WatcherType
    <3>1. (IF watch[w].unsub THEN "nil" ELSE watch[w].result) \in {"open", "nil", "error"}
      BY <1>1 DEF WatcherType
    <3> QED BY <1>1, <3>1 DEF WatcherType
  <2> QED BY <1>9, <2>1 DEF Cleanup
<1>10. CASE Send(w)
  <2>1. watch[w].event \in Logs => Append(watch[w].got, watch[w].event) \in LogSeq
    BY <1>1, AppendProperties DEF WatcherType, LogSeq
  <2>2. watch[w].event \in Logs =>
          [watch[w] EXCEPT !.pc = "select", !.event = NoLog,
                           !.got = Append(@, watch[w].event)] \in WatcherType
    BY <1>1, <2>1 DEF WatcherType
  <2> QED BY <1>10, <2>2 DEF Send
<1>11. CASE Unsubscribe(w)
  <2>1. [watch[w] EXCEPT !.unsub = TRUE, !.client = "wait"] \in WatcherType
    BY <1>1 DEF WatcherType
  <2> QED BY <1>11, <2>1 DEF Unsubscribe
<1>12. CASE UnsubscribeReturns(w)
  <2>1. [watch[w] EXCEPT !.client = "idle"] \in WatcherType
    BY <1>1 DEF WatcherType
  <2> QED BY <1>12, <2>1 DEF UnsubscribeReturns
<1> QED BY <1>3, <1>4, <1>5, <1>6, <1>8, <1>9, <1>10, <1>11, <1>12
        DEF WatcherNext, Goroutine

\* A log that StakeHub emits keeps the types.
LEMMA EmitTypeStep ==
    ASSUME HubTypeOK, NEW l \in Logs, Emit(l)
    PROVE  HubTypeOK'
<1>1. answer' \in [Queries -> LogSeq]
  <2>1. ASSUME NEW q \in Queries
        PROVE  (IF Matches(q, l) THEN Append(answer[q], l) ELSE answer[q]) \in LogSeq
    BY AppendProperties DEF HubTypeOK, LogSeq
  <2> QED BY <2>1 DEF Emit
<1>2. watch' \in [Watchers -> WatcherType]
  <2>1. ASSUME NEW w \in Watchers
        PROVE  (IF Notified(watch[w], l)
                THEN [watch[w] EXCEPT !.forward = Append(@, l)]
                ELSE watch[w]) \in WatcherType
    <3>1. watch[w] \in WatcherType
      BY DEF HubTypeOK
    <3>2. Append(watch[w].forward, l) \in LogSeq
      BY <3>1, AppendProperties DEF WatcherType, LogSeq
    <3>3. [watch[w] EXCEPT !.forward = Append(@, l)] \in WatcherType
      BY <3>1, <3>2 DEF WatcherType
    <3> QED BY <3>1, <3>3
  <2> QED BY <2>1 DEF Emit
<1>3. emitted' \in Nat /\ iter' \in [Iterators -> IteratorType]
  BY DEF Emit, HubTypeOK
<1> QED BY <1>1, <1>2, <1>3 DEF HubTypeOK

-----------------------------------------------------------------------------
(* What is on its way to a client, and what it is compared with.           *)

InHand(r) == IF r.pc = "send" THEN <<r.event>> ELSE <<>>
Pipe(r) == r.got \o (InHand(r) \o (r.logs \o r.forward))
Running(r) == r.pc \in {"select", "send"}

\* An iterator passes on the whole result of its query; when it says there
\* is no more, nothing is left.
IteratorInv(r) ==
    /\ r.pc = "none" => r.got = <<>> /\ r.found = <<>>
    /\ r.fail => r.pc # "next"
    /\ ~r.fail => r.got \o (r.logs \o r.buff) = r.found
    /\ r.ended /\ ~r.unsub => r.buff = <<>>
    /\ r.done => r.ended
    /\ r.exhausted => r.ended /\ r.logs = <<>>

\* What a watcher received and what is on its way to it is what has matched
\* since it began, as far as the connection held.
WatcherInv(r, all) ==
    /\ r.pc = "none" => r.got = <<>>
    /\ r.pc # "none" => r.start <= Len(all)
    /\ r.pc = "send" => r.event \in Logs
    /\ Running(r) => Prefix(Pipe(r), Suffix(all, r.start))
    /\ Running(r) /\ r.conn = "live" => Pipe(r) = Suffix(all, r.start)

HubInv ==
    /\ HubTypeOK
    /\ \A i \in Iterators : IteratorInv(iter[i])
    /\ \A w \in Watchers : WatcherInv(watch[w], answer[watch[w].query])

-----------------------------------------------------------------------------
(* The invariant is kept.                                                  *)

\* The producer pushes a log into the channel.
LEMMA PushKeeps ==
    ASSUME NEW r \in IteratorType, IteratorInv(r), r.pc # "none", ~r.ended,
           r.buff # <<>>,
           NEW t, t = [r EXCEPT !.logs = Append(@, Head(r.buff)), !.buff = Tail(@)]
    PROVE  IteratorInv(t)
<1>1. /\ r.got \in Seq(Logs) /\ r.logs \in Seq(Logs) /\ r.buff \in Seq(Logs)
      /\ r.done \in BOOLEAN /\ r.ended = FALSE /\ r.exhausted \in BOOLEAN
  BY DEF IteratorType, LogSeq
<1>2. t.logs \o t.buff = r.logs \o r.buff
  <2>1. t.logs = Append(r.logs, Head(r.buff)) /\ t.buff = Tail(r.buff)
    BY DEF IteratorType
  <2>2. Append(r.logs, Head(r.buff)) \o Tail(r.buff) = r.logs \o r.buff
    <3>1. \A u, v \in Seq(Logs) : v # <<>> => Append(u, Head(v)) \o Tail(v) = u \o v
      BY HeadsMove, Zenon
    <3> QED BY <1>1, <3>1, Zenon
  <2> QED BY <2>1, <2>2
<1>3. /\ t.pc = r.pc /\ t.got = r.got /\ t.found = r.found /\ t.fail = r.fail
      /\ t.ended = r.ended /\ t.unsub = r.unsub /\ t.done = r.done
      /\ t.exhausted = r.exhausted
  BY DEF IteratorType
<1> QED BY <1>1, <1>2, <1>3 DEF IteratorInv

\* Next receives a log, which it delivers or fails on.
LEMMA NextLogKeeps ==
    ASSUME NEW r \in IteratorType, IteratorInv(r), r.pc = "next", r.logs # <<>>,
           NEW t, t \in {Delivered(r), Failed(r)}
    PROVE  IteratorInv(t)
<1>1. /\ r.got \in Seq(Logs) /\ r.logs \in Seq(Logs) /\ r.buff \in Seq(Logs)
      /\ ~r.fail /\ ~r.exhausted
  BY DEF IteratorType, LogSeq, IteratorInv
<1>2. CASE t = Delivered(r)
  <2>1. /\ t.pc = "idle" /\ t.got = Append(r.got, Head(r.logs)) /\ t.logs = Tail(r.logs)
        /\ t.found = r.found /\ t.buff = r.buff /\ t.fail = r.fail /\ t.ended = r.ended
        /\ t.unsub = r.unsub /\ t.done = r.done /\ t.exhausted = r.exhausted
    BY <1>2 DEF Delivered, IteratorType
  <2>2. t.got \o (t.logs \o t.buff) = r.got \o (r.logs \o r.buff)
    <3>1. Append(r.got, Head(r.logs)) \o (Tail(r.logs) \o r.buff)
              = r.got \o (r.logs \o r.buff)
      <4>1. \A u, v, w \in Seq(Logs) :
                v # <<>> => Append(u, Head(v)) \o (Tail(v) \o w) = u \o (v \o w)
        BY HeadsMoveThrough, Zenon
      <4> QED BY <1>1, <4>1, Zenon
    <3> QED BY <2>1, <3>1
  <2> QED BY <1>1, <2>1, <2>2 DEF IteratorInv
<1>3. CASE t = Failed(r)
  <2>1. /\ t.pc = "idle" /\ t.fail = TRUE
        /\ t.buff = r.buff /\ t.ended = r.ended
        /\ t.unsub = r.unsub /\ t.done = r.done /\ t.exhausted = r.exhausted
    BY <1>3 DEF Failed, IteratorType
  <2> QED BY <1>1, <2>1 DEF IteratorInv
<1> QED BY <1>2, <1>3

\* What only changes the control of an iterator.
LEMMA IteratorControlKeeps ==
    ASSUME NEW r \in IteratorType, IteratorInv(r), NEW t,
           \/ ~r.ended /\ (r.buff = <<>> \/ r.unsub) /\ t = [r EXCEPT !.ended = TRUE]
           \/ ~r.fail /\ r.pc = "idle" /\ t = [r EXCEPT !.pc = "next"]
           \/ r.ended /\ r.pc = "next" /\ t = [r EXCEPT !.done = TRUE]
           \/ /\ r.done /\ r.pc = "next" /\ r.logs = <<>>
              /\ t = [r EXCEPT !.pc = "idle", !.exhausted = TRUE]
           \/ r.pc = "idle" /\ t = [r EXCEPT !.pc = "close", !.unsub = @ \/ ~r.ended]
           \/ r.pc = "close" /\ t = [r EXCEPT !.pc = "idle"]
    PROVE  IteratorInv(t)
<1>1. /\ t.got = r.got /\ t.logs = r.logs /\ t.buff = r.buff /\ t.found = r.found
      /\ t.fail = r.fail
  BY DEF IteratorType
<1>2. r.ended \in BOOLEAN /\ r.done \in BOOLEAN /\ r.exhausted \in BOOLEAN
      /\ r.unsub \in BOOLEAN /\ r.fail \in BOOLEAN
  BY DEF IteratorType
<1>3. CASE ~r.ended /\ (r.buff = <<>> \/ r.unsub) /\ t = [r EXCEPT !.ended = TRUE]
  <2>1. /\ t.ended = TRUE /\ t.pc = r.pc /\ t.unsub = r.unsub /\ t.done = r.done
        /\ t.exhausted = r.exhausted
    BY <1>3 DEF IteratorType
  <2> QED BY <1>1, <1>2, <1>3, <2>1 DEF IteratorInv
<1>4. CASE \/ ~r.fail /\ r.pc = "idle" /\ t = [r EXCEPT !.pc = "next"]
           \/ r.pc = "close" /\ t = [r EXCEPT !.pc = "idle"]
  <2>1. /\ t.pc # "none" /\ (t.pc = "next" => ~r.fail) /\ t.ended = r.ended
        /\ t.unsub = r.unsub /\ t.done = r.done /\ t.exhausted = r.exhausted
    BY <1>4 DEF IteratorType
  <2> QED BY <1>1, <1>2, <2>1 DEF IteratorInv
<1>5. CASE r.ended /\ r.pc = "next" /\ t = [r EXCEPT !.done = TRUE]
  <2>1. /\ t.pc = r.pc /\ t.ended = r.ended /\ t.unsub = r.unsub /\ t.done = TRUE
        /\ t.exhausted = r.exhausted
    BY <1>5 DEF IteratorType
  <2> QED BY <1>1, <1>2, <1>5, <2>1 DEF IteratorInv
<1>6. CASE /\ r.done /\ r.pc = "next" /\ r.logs = <<>>
           /\ t = [r EXCEPT !.pc = "idle", !.exhausted = TRUE]
  <2>1. /\ t.pc = "idle" /\ t.ended = r.ended /\ t.unsub = r.unsub
        /\ t.done = r.done /\ t.exhausted = TRUE
    BY <1>6 DEF IteratorType
  <2> QED BY <1>1, <1>2, <1>6, <2>1 DEF IteratorInv
<1>7. CASE r.pc = "idle" /\ t = [r EXCEPT !.pc = "close", !.unsub = @ \/ ~r.ended]
  <2>1. /\ t.pc = "close" /\ t.ended = r.ended /\ t.unsub = (r.unsub \/ ~r.ended)
        /\ t.done = r.done /\ t.exhausted = r.exhausted
    BY <1>7 DEF IteratorType
  <2> QED BY <1>1, <1>2, <2>1 DEF IteratorInv
<1> QED BY <1>3, <1>4, <1>5, <1>6, <1>7

\* A step of an iterator keeps the invariant.
LEMMA IteratorInvStep ==
    ASSUME HubInv, NEW i \in Iterators, IteratorNext(i)
    PROVE  HubInv'
<1>1. HubTypeOK'
  BY IteratorTypeStep DEF HubInv
<1>2. iter[i] \in IteratorType /\ IteratorInv(iter[i])
  BY DEF HubInv, HubTypeOK
<1>3. SUFFICES \E r : IteratorBecomes(i, r) /\ IteratorInv(r)
  <2>1. PICK r : IteratorBecomes(i, r) /\ IteratorInv(r)
    BY <1>3
  <2>2. /\ \A j \in Iterators : iter'[j] = IF j = i THEN r ELSE iter[j]
        /\ watch' = watch /\ answer' = answer
    BY <2>1 DEF IteratorBecomes, HubInv, HubTypeOK, nodeVars
  <2>3. \A j \in Iterators : IteratorInv(iter'[j])
    BY <2>1, <2>2 DEF HubInv
  <2>4. \A w \in Watchers : WatcherInv(watch'[w], answer'[watch'[w].query])
    BY <2>2 DEF HubInv
  <2> QED BY <1>1, <2>3, <2>4 DEF HubInv
<1>4. ASSUME NEW q \in Queries, Filter(i, q) PROVE <1>3!1
  <2> DEFINE t == [NoIterator EXCEPT !.pc = "idle", !.query = q,
                                     !.found = answer[q], !.buff = answer[q]]
  <2>1. /\ t.pc = "idle" /\ t.got = <<>> /\ t.logs = <<>> /\ t.buff = answer[q]
        /\ t.found = answer[q] /\ t.fail = FALSE /\ t.ended = FALSE
        /\ t.done = FALSE /\ t.exhausted = FALSE
    BY DEF NoIterator
  <2>2. answer[q] \in Seq(Logs) /\ <<>> \o answer[q] = answer[q]
    BY ConcatEmptySeq DEF HubInv, HubTypeOK, LogSeq
  <2>3. IteratorInv(t)
    BY <2>1, <2>2 DEF IteratorInv
  <2> QED BY <1>4, <2>3 DEF Filter
<1>5. CASE Push(i)
  BY <1>2, <1>5, PushKeeps DEF Push
<1>6. CASE NextLog(i)
  BY <1>2, <1>6, NextLogKeeps DEF NextLog
<1>7. CASE EndProducer(i)
  BY <1>2, <1>7, IteratorControlKeeps DEF EndProducer
<1>8. CASE CallNext(i)
  BY <1>2, <1>8, IteratorControlKeeps DEF CallNext
<1>9. CASE NextErr(i)
  BY <1>2, <1>9, IteratorControlKeeps DEF NextErr
<1>10. CASE NextNone(i)
  BY <1>2, <1>10, IteratorControlKeeps DEF NextNone
<1>11. CASE Close(i)
  BY <1>2, <1>11, IteratorControlKeeps DEF Close
<1>12. CASE CloseReturns(i)
  BY <1>2, <1>12, IteratorControlKeeps DEF CloseReturns
<1> QED BY <1>4, <1>5, <1>6, <1>7, <1>8, <1>9, <1>10, <1>11, <1>12
        DEF IteratorNext, Producer, NextStep

\* The parts of a pipe are sequences of logs.
LEMMA PipeType ==
    ASSUME NEW r \in WatcherType, r.pc = "send" => r.event \in Logs
    PROVE  /\ r.got \in Seq(Logs) /\ InHand(r) \in Seq(Logs)
           /\ r.logs \in Seq(Logs) /\ r.forward \in Seq(Logs)
           /\ r.logs \o r.forward \in Seq(Logs)
           /\ InHand(r) \o (r.logs \o r.forward) \in Seq(Logs)
           /\ Pipe(r) \in Seq(Logs)
<1>1. r.got \in Seq(Logs) /\ r.logs \in Seq(Logs) /\ r.forward \in Seq(Logs)
  BY DEF WatcherType, LogSeq
<1>2. InHand(r) \in Seq(Logs)
  BY DEF InHand
<1>3. \A u, v \in Seq(Logs) : u \o v \in Seq(Logs)
  BY ConcatProperties
<1>4. r.logs \o r.forward \in Seq(Logs)
  BY <1>1, <1>3
<1>5. InHand(r) \o (r.logs \o r.forward) \in Seq(Logs)
  BY <1>2, <1>3, <1>4
<1>6. Pipe(r) \in Seq(Logs)
  BY <1>1, <1>3, <1>5 DEF Pipe
<1> QED BY <1>1, <1>2, <1>4, <1>5, <1>6

\* A step that keeps what is in the pipe keeps the invariant.
LEMMA SamePipeKeeps ==
    ASSUME NEW r \in WatcherType, NEW t, NEW all \in Seq(Logs), WatcherInv(r, all),
           r.pc # "none" /\ t.pc # "none" /\ t.start = r.start,
           t.pc = "send" => t.event \in Logs,
           Running(t) => Running(r) /\ Pipe(t) = Pipe(r) /\ t.conn = r.conn
    PROVE  WatcherInv(t, all)
BY DEF WatcherInv

\* The RPC client hands over a log.
LEMMA ForwardKeeps ==
    ASSUME NEW r \in WatcherType, NEW all \in Seq(Logs), WatcherInv(r, all),
           r.pc # "none", r.forward # <<>>, NEW t,
           t = [r EXCEPT !.logs = Append(@, Head(r.forward)), !.forward = Tail(@)]
    PROVE  WatcherInv(t, all)
<1>1. /\ t.pc = r.pc /\ t.start = r.start /\ t.event = r.event /\ t.conn = r.conn
      /\ t.got = r.got
      /\ t.logs = Append(r.logs, Head(r.forward)) /\ t.forward = Tail(r.forward)
  BY DEF WatcherType
<1>2. t.logs \o t.forward = r.logs \o r.forward
  <2>1. \A u, v \in Seq(Logs) : v # <<>> => Append(u, Head(v)) \o Tail(v) = u \o v
    BY HeadsMove, Zenon
  <2>2. r.logs \in Seq(Logs) /\ r.forward \in Seq(Logs)
    BY DEF WatcherType, LogSeq
  <2> QED BY <1>1, <2>1, <2>2, Zenon
<1>3. InHand(t) = InHand(r)
  BY <1>1 DEF InHand
<1>4. Pipe(t) = Pipe(r)
  BY <1>1, <1>2, <1>3 DEF Pipe
<1> QED BY <1>1, <1>4, SamePipeKeeps DEF WatcherInv, Running

\* The connection breaks: what was not handed over is lost.
LEMMA DisconnectKeeps ==
    ASSUME NEW r \in WatcherType, NEW all \in Seq(Logs), WatcherInv(r, all),
           r.pc # "none", NEW conn \in {"failed", "shut"}, NEW t,
           t = [r EXCEPT !.conn = conn, !.forward = <<>>]
    PROVE  WatcherInv(t, all)
<1>1. /\ t.pc = r.pc /\ t.start = r.start /\ t.event = r.event /\ t.conn = conn
      /\ t.got = r.got /\ t.logs = r.logs /\ t.forward = <<>>
  BY DEF WatcherType
<1>2. InHand(t) = InHand(r) /\ (Running(t) <=> Running(r))
  BY <1>1 DEF InHand, Running
<1>3. ASSUME Running(r) PROVE Prefix(Pipe(t), Suffix(all, r.start))
  <2>1. /\ r.got \in Seq(Logs) /\ InHand(r) \in Seq(Logs)
        /\ r.logs \in Seq(Logs) /\ r.forward \in Seq(Logs)
    BY PipeType DEF WatcherInv
  <2>5. Suffix(all, r.start) \in Seq(Logs)
    <3>1. r.start \in 0..Len(all)
      BY DEF WatcherInv, WatcherType, Running
    <3>2. CASE Logs = {}
      <4>1. all = <<>>
        BY <3>2, EmptySeq
      <4> QED BY <4>1, <3>1, SubSeqEmpty DEF Suffix
    <3>3. CASE Logs # {}
      BY <3>1, <3>3, SuffixAppend
    <3> QED BY <3>2, <3>3
  <2>6. Prefix(r.got \o (InHand(r) \o (r.logs \o r.forward)), Suffix(all, r.start))
    BY <1>3 DEF WatcherInv, Pipe
  <2>7. Prefix(r.got \o (InHand(r) \o (r.logs \o <<>>)), Suffix(all, r.start))
    BY <2>1, <2>5, <2>6, PrefixWithoutLast
  <2> QED BY <1>1, <1>2, <2>7 DEF Pipe
<1> QED BY <1>1, <1>2, <1>3 DEF WatcherInv

\* The goroutine takes a log from the channel.
LEMMA TakenKeeps ==
    ASSUME NEW r \in WatcherType, NEW all \in Seq(Logs), WatcherInv(r, all),
           r.pc = "select", r.logs # <<>>
    PROVE  WatcherInv(Taken(r), all)
<1> DEFINE t == Taken(r)
<1>1. /\ t.pc = "send" /\ t.start = r.start /\ t.event = Head(r.logs)
      /\ t.conn = r.conn /\ t.got = r.got
      /\ t.logs = Tail(r.logs) /\ t.forward = r.forward
  BY DEF WatcherType, Taken
<1> HIDE DEF t
<1>2. r.logs \in Seq(Logs) /\ r.forward \in Seq(Logs) /\ <<>> \in Seq(Logs)
  BY DEF WatcherType, LogSeq
<1>3. Head(r.logs) \in Logs
  BY <1>2, HeadTailProperties
<1>4. InHand(t) \o (t.logs \o t.forward) = InHand(r) \o (r.logs \o r.forward)
  <2>1. \A u, v, w \in Seq(Logs) :
            v # <<>> => Append(u, Head(v)) \o (Tail(v) \o w) = u \o (v \o w)
    BY HeadsMoveThrough, Zenon
  <2>2. Append(<<>>, Head(r.logs)) \o (Tail(r.logs) \o r.forward)
            = <<>> \o (r.logs \o r.forward)
    BY <1>2, <2>1, Zenon
  <2>3. InHand(r) = <<>> /\ InHand(t) = <<Head(r.logs)>>
    BY <1>1 DEF InHand
  <2>4. Append(<<>>, Head(r.logs)) = <<Head(r.logs)>>
    OBVIOUS
  <2> QED BY <1>1, <2>2, <2>3, <2>4
<1>5. Pipe(t) = Pipe(r)
  BY <1>1, <1>4 DEF Pipe
<1>6. WatcherInv(t, all)
  BY <1>1, <1>3, <1>5, SamePipeKeeps DEF WatcherInv, Running
<1> QED BY <1>6 DEF t

\* The client receives the event in hand.
LEMMA SendKeeps ==
    ASSUME NEW r \in WatcherType, NEW all \in Seq(Logs), WatcherInv(r, all),
           r.pc = "send", NEW t,
           t = [r EXCEPT !.pc = "select", !.event = NoLog, !.got = Append(@, r.event)]
    PROVE  WatcherInv(t, all)
<1>1. /\ t.pc = "select" /\ t.start = r.start
      /\ t.conn = r.conn /\ t.got = Append(r.got, r.event)
      /\ t.logs = r.logs /\ t.forward = r.forward
  BY DEF WatcherType
<1>2. /\ r.got \in Seq(Logs) /\ r.logs \o r.forward \in Seq(Logs)
      /\ r.event \in Logs /\ <<r.event>> \in Seq(Logs)
  BY PipeType DEF WatcherInv
<1>3. Append(r.got, r.event) \o (<<>> \o (r.logs \o r.forward))
          = r.got \o (<<r.event>> \o (r.logs \o r.forward))
  <2>1. \A u, v, w \in Seq(Logs) :
            v # <<>> => Append(u, Head(v)) \o (Tail(v) \o w) = u \o (v \o w)
    BY HeadsMoveThrough, Zenon
  <2>2. <<r.event>> # <<>>
    OBVIOUS
  <2>3. Append(r.got, Head(<<r.event>>)) \o (Tail(<<r.event>>) \o (r.logs \o r.forward))
            = r.got \o (<<r.event>> \o (r.logs \o r.forward))
    BY <1>2, <2>1, <2>2, Zenon
  <2>4. Head(<<r.event>>) = r.event /\ Tail(<<r.event>>) = <<>>
    OBVIOUS
  <2> QED BY <2>3, <2>4
<1>4. InHand(t) = <<>> /\ InHand(r) = <<r.event>>
  BY <1>1 DEF InHand
<1>5. Pipe(t) = Pipe(r)
  BY <1>1, <1>3, <1>4 DEF Pipe
<1> QED BY <1>1, <1>5, SamePipeKeeps DEF WatcherInv, Running

\* A step of a watcher keeps the invariant.
LEMMA WatcherInvStep ==
    ASSUME HubInv, NEW w \in Watchers, WatcherNext(w)
    PROVE  HubInv'
<1> DEFINE all == answer[watch[w].query]
<1>1. HubTypeOK'
  BY WatcherTypeStep DEF HubInv, WatcherInv
<1>2. /\ watch[w] \in WatcherType /\ WatcherInv(watch[w], all) /\ all \in Seq(Logs)
  BY DEF HubInv, HubTypeOK, WatcherType, LogSeq
<1>3. SUFFICES \E r : WatcherBecomes(w, r) /\ WatcherInv(r, answer[r.query])
  <2>1. PICK r : WatcherBecomes(w, r) /\ WatcherInv(r, answer[r.query])
    BY <1>3
  <2>2. /\ \A v \in Watchers : watch'[v] = IF v = w THEN r ELSE watch[v]
        /\ iter' = iter /\ answer' = answer
    BY <2>1 DEF WatcherBecomes, HubInv, HubTypeOK, nodeVars
  <2>3. \A v \in Watchers : WatcherInv(watch'[v], answer'[watch'[v].query])
    BY <2>1, <2>2 DEF HubInv
  <2>4. \A i \in Iterators : IteratorInv(iter'[i])
    BY <2>2 DEF HubInv
  <2> QED BY <1>1, <2>3, <2>4 DEF HubInv
<1>4. \A t : t.query = watch[w].query /\ WatcherInv(t, all) /\ WatcherBecomes(w, t) => <1>3!1
  OBVIOUS
<1> HIDE DEF all
<1>5. ASSUME NEW q \in Queries, Watch(w, q) PROVE <1>3!1
  <2> DEFINE t == [NoWatcher EXCEPT !.pc = "select", !.query = q, !.start = Len(answer[q])]
  <2>1. /\ t.pc = "select" /\ t.query = q /\ t.start = Len(answer[q]) /\ t.got = <<>>
        /\ t.logs = <<>> /\ t.forward = <<>>
    BY DEF NoWatcher
  <2>2. answer[q] \in Seq(Logs) /\ Len(answer[q]) \in Nat
    BY DEF HubInv, HubTypeOK, LogSeq
  <2> HIDE DEF t
  <2>3. Pipe(t) = <<>>
    BY <2>1 DEF Pipe, InHand
  <2>4. Suffix(answer[q], Len(answer[q])) = <<>>
    BY <2>2, SubSeqEmpty DEF Suffix
  <2>5. Prefix(<<>>, <<>>)
    BY DEF Prefix
  <2>6. WatcherInv(t, answer[t.query])
    BY <2>1, <2>2, <2>3, <2>4, <2>5 DEF WatcherInv, Running
  <2> QED BY <1>5, <2>6 DEF Watch, t
<1>6. CASE Forward(w)
  <2> DEFINE t == [watch[w] EXCEPT !.logs = Append(@, Head(watch[w].forward)),
                                   !.forward = Tail(@)]
  <2>1. CASE watch[w].pc = "none"
    <3>1. t.pc = "none" /\ t.got = watch[w].got /\ t.query = watch[w].query
      BY <1>2, <2>1 DEF WatcherType
    <3>2. WatcherInv(t, all)
      BY <1>2, <2>1, <3>1 DEF WatcherInv, Running
    <3> QED BY <1>4, <1>6, <3>1, <3>2 DEF Forward
  <2>2. CASE watch[w].pc # "none"
    <3>1. WatcherInv(t, all)
      BY <1>2, <1>6, <2>2, ForwardKeeps DEF Forward
    <3>2. t.query = watch[w].query
      BY <1>2 DEF WatcherType
    <3> QED BY <1>4, <1>6, <3>1, <3>2 DEF Forward
  <2> QED BY <2>1, <2>2
<1>7. ASSUME NEW conn \in {"failed", "shut"}, Disconnect(w, conn) PROVE <1>3!1
  <2> DEFINE t == [watch[w] EXCEPT !.conn = conn, !.forward = <<>>]
  <2>1. WatcherInv(t, all)
    BY <1>2, <1>7, DisconnectKeeps DEF Disconnect
  <2>2. t.query = watch[w].query
    BY <1>2 DEF WatcherType
  <2> QED BY <1>4, <1>7, <2>1, <2>2 DEF Disconnect
<1>8. ASSUME NEW t, t.query = watch[w].query, t.start = watch[w].start,
             t.pc \in {"cleanup", "done"}, watch[w].pc # "none"
      PROVE  WatcherInv(t, all)
  BY <1>2, <1>8, SamePipeKeeps DEF Running
<1>9. CASE TakeLog(w)
  <2> DEFINE t == Taken(watch[w])
             u == Ends([watch[w] EXCEPT !.logs = Tail(@)], "error")
  <2>1. WatcherInv(t, all)
    BY <1>2, <1>9, TakenKeeps DEF TakeLog
  <2>2. t.query = watch[w].query
    BY <1>2 DEF WatcherType, Taken
  <2>3. u.query = watch[w].query /\ u.start = watch[w].start /\ u.pc = "cleanup"
    BY <1>2 DEF WatcherType, Ends
  <2>4. WatcherInv(u, all)
    BY <1>8, <1>9, <2>3 DEF TakeLog
  <2>5. WatcherBecomes(w, t) \/ WatcherBecomes(w, u)
    BY <1>9 DEF TakeLog
  <2> HIDE DEF t, u
  <2> QED BY <1>4, <2>1, <2>2, <2>3, <2>4, <2>5
<1>10. CASE SeeErr(w) \/ SeeQuit(w)
  <2>1. PICK result : WatcherBecomes(w, Ends(watch[w], result)) /\ watch[w].pc # "none"
    BY <1>10 DEF SeeErr, SeeQuit
  <2> DEFINE t == Ends(watch[w], result)
  <2>2. t.query = watch[w].query /\ t.start = watch[w].start /\ t.pc = "cleanup"
    BY <1>2 DEF WatcherType, Ends
  <2> HIDE DEF t
  <2>3. WatcherInv(t, all)
    BY <1>8, <2>1, <2>2
  <2> QED BY <1>4, <2>1, <2>2, <2>3 DEF t
<1>11. CASE Cleanup(w)
  <2> DEFINE t == [watch[w] EXCEPT !.pc = "done", !.conn = "closed", !.forward = <<>>,
                     !.reported = IF watch[w].unsub THEN "nil" ELSE watch[w].result]
  <2>1. t.query = watch[w].query /\ t.start = watch[w].start /\ t.pc = "done"
    BY <1>2 DEF WatcherType
  <2>2. WatcherBecomes(w, t) /\ watch[w].pc # "none"
    BY <1>11 DEF Cleanup
  <2> HIDE DEF t
  <2>3. WatcherInv(t, all)
    BY <1>8, <2>1, <2>2
  <2> QED BY <1>4, <2>1, <2>2, <2>3
<1>12. CASE Send(w)
  <2> DEFINE t == [watch[w] EXCEPT !.pc = "select", !.event = NoLog,
                                   !.got = Append(@, watch[w].event)]
  <2>1. WatcherInv(t, all)
    BY <1>2, <1>12, SendKeeps DEF Send
  <2>2. t.query = watch[w].query
    BY <1>2 DEF WatcherType
  <2> QED BY <1>4, <1>12, <2>1, <2>2 DEF Send
<1>13. ASSUME NEW t, watch[w].pc # "none",
              /\ t.pc = watch[w].pc /\ t.start = watch[w].start /\ t.conn = watch[w].conn
              /\ t.event = watch[w].event /\ t.got = watch[w].got
              /\ t.logs = watch[w].logs /\ t.forward = watch[w].forward
       PROVE  WatcherInv(t, all)
  <2>1. Pipe(t) = Pipe(watch[w])
    BY <1>13 DEF Pipe, InHand
  <2> QED BY <1>2, <1>13, <2>1, SamePipeKeeps DEF Running, WatcherInv
<1>14. CASE Unsubscribe(w)
  <2> DEFINE t == [watch[w] EXCEPT !.unsub = TRUE, !.client = "wait"]
  <2>1. WatcherInv(t, all)
    BY <1>2, <1>13, <1>14 DEF Unsubscribe, WatcherType
  <2>2. t.query = watch[w].query
    BY <1>2 DEF WatcherType
  <2> QED BY <1>4, <1>14, <2>1, <2>2 DEF Unsubscribe
<1>15. CASE UnsubscribeReturns(w)
  <2> DEFINE t == [watch[w] EXCEPT !.client = "idle"]
  <2>1. WatcherInv(t, all)
    BY <1>2, <1>13, <1>15 DEF UnsubscribeReturns, WatcherType
  <2>2. t.query = watch[w].query
    BY <1>2 DEF WatcherType
  <2> QED BY <1>4, <1>15, <2>1, <2>2 DEF UnsubscribeReturns
<1> QED BY <1>5, <1>6, <1>7, <1>9, <1>10, <1>11, <1>12, <1>14, <1>15
        DEF WatcherNext, Goroutine

\* A log reaches the pipes of the watchers it matches.
LEMMA NotifiedKeeps ==
    ASSUME NEW r \in WatcherType, NEW all \in Seq(Logs), NEW l \in Logs,
           WatcherInv(r, all), NEW t,
           t = IF Notified(r, l) THEN [r EXCEPT !.forward = Append(@, l)] ELSE r
    PROVE  WatcherInv(t, IF Matches(r.query, l) THEN Append(all, l) ELSE all)
<1>1. /\ t.pc = r.pc /\ t.start = r.start /\ t.event = r.event /\ t.conn = r.conn
      /\ t.got = r.got /\ t.logs = r.logs
      /\ t.forward = IF Notified(r, l) THEN Append(r.forward, l) ELSE r.forward
  BY DEF WatcherType
<1>2. /\ Append(all, l) \in Seq(Logs) /\ Len(Append(all, l)) = Len(all) + 1
      /\ Len(all) \in Nat /\ r.start \in Nat
  BY AppendProperties DEF WatcherType
<1>3. InHand(t) = InHand(r) /\ (Running(t) <=> Running(r))
  BY <1>1 DEF InHand, Running
<1>4. CASE r.pc = "none"
  BY <1>1, <1>3, <1>4 DEF WatcherInv, Running
<1>5. CASE r.pc # "none"
  <2>1. r.start \in 0..Len(all) /\ r.start <= Len(all) + 1
    BY <1>2, <1>5 DEF WatcherInv
  <2>2. /\ Suffix(all, r.start) \in Seq(Logs)
        /\ Suffix(Append(all, l), r.start) = Append(Suffix(all, r.start), l)
    BY <2>1, SuffixAppend
  <2>3. Pipe(r) \in Seq(Logs)
    BY PipeType DEF WatcherInv
  <2>4. CASE ~Matches(r.query, l)
    <3>1. ~Notified(r, l)
      BY <2>4 DEF Notified
    <3>2. t = r
      BY <3>1
    <3> QED BY <2>4, <3>2
  <2>5. CASE Matches(r.query, l) /\ r.conn # "live"
    <3>1. ~Notified(r, l)
      BY <2>5 DEF Notified
    <3>2. t = r
      BY <3>1
    <3>3. Running(r) => Prefix(Pipe(r), Suffix(Append(all, l), r.start))
      <4>1. Running(r) => Prefix(Pipe(r), Suffix(all, r.start))
        BY DEF WatcherInv
      <4>2. Prefix(Pipe(r), Suffix(all, r.start))
                => Prefix(Pipe(r), Append(Suffix(all, r.start), l))
        BY <2>2, <2>3, PrefixAppend
      <4> QED BY <2>2, <4>1, <4>2
    <3> QED BY <1>2, <2>1, <2>5, <3>2, <3>3 DEF WatcherInv
  <2>6. CASE Matches(r.query, l) /\ r.conn = "live"
    <3>1. Notified(r, l)
      BY <1>5, <2>6 DEF Notified
    <3>2. t.forward = Append(r.forward, l)
      BY <1>1, <3>1
    <3>3. Pipe(t) = Append(Pipe(r), l)
      <4>1. /\ r.got \in Seq(Logs) /\ InHand(r) \in Seq(Logs)
            /\ r.logs \in Seq(Logs) /\ r.forward \in Seq(Logs)
            /\ r.logs \o r.forward \in Seq(Logs)
            /\ InHand(r) \o (r.logs \o r.forward) \in Seq(Logs)
        BY PipeType DEF WatcherInv
      <4>2. \A u, v \in Seq(Logs) : u \o Append(v, l) = Append(u \o v, l)
        BY LogsAppend, Zenon
      <4>3. r.logs \o t.forward = Append(r.logs \o r.forward, l)
        <5>1. r.logs \o Append(r.forward, l) = Append(r.logs \o r.forward, l)
          BY <4>1, <4>2
        <5> QED BY <3>2, <5>1
      <4>4. InHand(r) \o (r.logs \o t.forward)
                = Append(InHand(r) \o (r.logs \o r.forward), l)
        <5>1. PICK v \in Seq(Logs) : v = r.logs \o r.forward
          BY <4>1
        <5>2. InHand(r) \o Append(v, l) = Append(InHand(r) \o v, l)
          BY <4>1, <4>2
        <5> QED BY <4>3, <5>1, <5>2
      <4>5. r.got \o (InHand(r) \o (r.logs \o t.forward))
                = Append(r.got \o (InHand(r) \o (r.logs \o r.forward)), l)
        <5>1. PICK v \in Seq(Logs) : v = InHand(r) \o (r.logs \o r.forward)
          BY <4>1
        <5>2. r.got \o Append(v, l) = Append(r.got \o v, l)
          BY <4>1, <4>2, <5>1, Zenon
        <5> QED BY <4>4, <5>1, <5>2
      <4> QED BY <1>1, <1>3, <4>5 DEF Pipe
    <3>4. Running(r) => Pipe(t) = Suffix(Append(all, l), r.start)
      BY <2>2, <2>6, <3>3 DEF WatcherInv
    <3>5. \A u : Prefix(u, u) <=> Len(u) <= Len(u)
      BY DEF Prefix
    <3>6. Running(r) => Prefix(Pipe(t), Suffix(Append(all, l), r.start))
      <4>1. Append(Pipe(r), l) \in Seq(Logs)
        BY <2>3, AppendProperties
      <4>2. Len(Pipe(t)) \in Nat
        BY <3>3, <4>1
      <4> QED BY <3>4, <3>5, <4>2
    <3> QED BY <1>1, <1>2, <1>3, <1>5, <2>1, <2>6, <3>4, <3>6 DEF WatcherInv
  <2> QED BY <2>4, <2>5, <2>6
<1> QED BY <1>4, <1>5

\* A log that StakeHub emits keeps the invariant.
LEMMA EmitInvStep ==
    ASSUME HubInv, NEW l \in Logs, Emit(l)
    PROVE  HubInv'
<1>1. HubTypeOK'
  BY EmitTypeStep DEF HubInv
<1>2. \A i \in Iterators : IteratorInv(iter'[i])
  BY DEF Emit, HubInv
<1>3. ASSUME NEW w \in Watchers
      PROVE  WatcherInv(watch'[w], answer'[watch'[w].query])
  <2> DEFINE r == watch[w]
             all == answer[r.query]
  <2>1. /\ r \in WatcherType /\ r.query \in Queries
        /\ all \in Seq(Logs) /\ WatcherInv(r, all)
    BY DEF HubInv, HubTypeOK, WatcherType, LogSeq
  <2>2. watch'[w] = IF Notified(r, l) THEN [r EXCEPT !.forward = Append(@, l)] ELSE r
    BY DEF Emit
  <2>3. watch'[w].query = r.query
    BY <2>1, <2>2 DEF WatcherType
  <2>4. answer'[r.query] = IF Matches(r.query, l) THEN Append(all, l) ELSE all
    BY <2>1 DEF Emit
  <2>5. WatcherInv(watch'[w], IF Matches(r.query, l) THEN Append(all, l) ELSE all)
    BY <2>1, <2>2, NotifiedKeeps
  <2> QED BY <2>3, <2>4, <2>5
<1> QED BY <1>1, <1>2, <1>3 DEF HubInv

\* The invariant holds at the start.
LEMMA HubInitInv == HubInit => HubInv
<1> SUFFICES ASSUME HubInit PROVE HubInv
  OBVIOUS
<1>1. HubTypeOK
  BY NoClientType DEF HubInit, HubTypeOK, LogSeq
<1>2. IteratorInv(NoIterator)
  BY DEF IteratorInv, NoIterator
<1>3. \A all \in Seq(Logs) : WatcherInv(NoWatcher, all)
  BY DEF WatcherInv, NoWatcher, Running
<1>4. \A w \in Watchers : answer[watch[w].query] \in Seq(Logs)
  BY <1>1 DEF HubTypeOK, WatcherType, LogSeq
<1> QED BY <1>1, <1>2, <1>3, <1>4 DEF HubInit, HubInv

\* Every step keeps the invariant.
LEMMA HubStepInv == HubInv /\ [HubNext]_hubVars => HubInv'
<1>1. CASE HubNext /\ HubInv
  BY <1>1, IteratorInvStep, WatcherInvStep, EmitInvStep DEF HubNext, ClientNext
<1>2. CASE UNCHANGED hubVars /\ HubInv
  BY <1>2 DEF hubVars, nodeVars, HubInv, HubTypeOK
<1> QED BY <1>1, <1>2

\* The composition with the tool takes only steps of the clients and of the
\* node: what holds of HubSpec holds while create-validator runs.
LEMMA CVImplementsHub == CVSpec => HubSpec
<1>1. CVInit => HubInit
  BY DEF CVInit
<1>2. [CVNext]_cvVars => [HubNext]_hubVars
  <2>1. ASSUME Mine PROVE [HubNext]_hubVars
    <3>1. CreatedLog \in Logs
      BY CreatedLogAssumption
    <3> QED BY <2>1, <3>1 DEF Mine, HubNext
  <2>2. ASSUME NEW r \in Runs, RunNext(r) PROVE UNCHANGED hubVars
    BY <2>2 DEF RunNext, Prepare, PendingNonceAt, SuggestGasPrice, SendTransaction, Panic
  <2>3. (ClientNext \/ OtherEmit) => HubNext
    BY DEF HubNext, OtherEmit
  <2>4. Refused => UNCHANGED hubVars
    BY DEF Refused
  <2>5. UNCHANGED cvVars => UNCHANGED hubVars
    BY DEF cvVars
  <2> QED BY <2>1, <2>2, <2>3, <2>4, <2>5 DEF CVNext
<1> QED BY <1>1, <1>2, PTL DEF CVSpec, HubSpec

\* The invariant holds always, while the tool runs.
LEMMA HubInvariant == CVSpec => []HubInv
BY CVImplementsHub, HubInitInv, HubStepInv, PTL DEF HubSpec

-----------------------------------------------------------------------------
\* The state of the binding's clients keeps its types.
THEOREM HubTypeCorrect == CVSpec => []HubTypeOK
<1>1. HubInv => HubTypeOK
  BY DEF HubInv
<1> QED BY <1>1, HubInvariant, PTL

\* An iteration that ended without an error delivered all the query found:
\* for any number of iterators, any result and any capacity of the channel.
THEOREM IterationIsComplete == CVSpec => []IterationComplete
<1>1. HubInv => IterationComplete
  <2> SUFFICES ASSUME HubInv, NEW i \in Iterators,
                      iter[i].exhausted, ~iter[i].fail, ~iter[i].unsub
               PROVE  iter[i].got = iter[i].found
    BY DEF IterationComplete
  <2>1. iter[i].got \in Seq(Logs)
    BY DEF HubInv, HubTypeOK, IteratorType, LogSeq
  <2>2. iter[i].logs = <<>> /\ iter[i].buff = <<>>
    BY DEF HubInv, IteratorInv
  <2>3. iter[i].got \o (<<>> \o <<>>) = iter[i].found
    BY <2>2 DEF HubInv, IteratorInv
  <2>4. <<>> \o <<>> = <<>> /\ iter[i].got \o <<>> = iter[i].got
    BY <2>1, ConcatEmptySeq
  <2> QED BY <2>3, <2>4
<1> QED BY <1>1, HubInvariant, PTL

-----------------------------------------------------------------------------
(* The refinement of LogFeed.                                              *)

Feeds == Iterators \cup Watchers

\* A step that leaves what was received alone, and only adds to what there is
\* to receive, is a growth of the feeds.
LEMMA GrowStep ==
    ASSUME UNCHANGED Seen,
           \A c \in Feeds : Len(Wanted[c]) \in Nat /\ Prefix(Wanted[c], Wanted'[c])
    PROVE  LF!FeedNext
BY DEF LF!FeedNext, LF!Grow, Prefix, Feeds

\* What the feeds of the iterators and of the watchers are, before and after
\* a step.
LEMMA FeedsOfClients ==
    /\ \A i \in Iterators :
           /\ Seen[i] = iter[i].got /\ Seen'[i] = iter'[i].got
           /\ Wanted[i] = iter[i].found /\ Wanted'[i] = iter'[i].found
    /\ \A w \in Watchers :
           /\ Seen[w] = watch[w].got /\ Seen'[w] = watch'[w].got
           /\ Wanted[w] = IF watch[w].pc = "none" THEN <<>>
                          ELSE Suffix(answer[watch[w].query], watch[w].start)
           /\ Wanted'[w] = IF watch'[w].pc = "none" THEN <<>>
                           ELSE Suffix(answer'[watch'[w].query], watch'[w].start)
    /\ Seen = [c \in Feeds |-> Seen[c]] /\ Seen' = [c \in Feeds |-> Seen'[c]]
    /\ Wanted = [c \in Feeds |-> Wanted[c]] /\ Wanted' = [c \in Feeds |-> Wanted'[c]]
BY ClientAssumption DEF Seen, Wanted, Suffix, Feeds

\* What there is to receive are sequences of logs.
LEMMA WantedType ==
    ASSUME HubInv, NEW c \in Feeds
    PROVE  Wanted[c] \in Seq(Logs)
<1>1. CASE c \in Iterators
  <2>1. Wanted[c] = iter[c].found
    BY <1>1, FeedsOfClients
  <2>2. iter[c] \in IteratorType
    BY <1>1 DEF HubInv, HubTypeOK
  <2> QED BY <2>1, <2>2 DEF IteratorType, LogSeq
<1>2. CASE c \in Watchers
  <2> DEFINE all == answer[watch[c].query]
  <2>1. watch[c] \in WatcherType /\ all \in Seq(Logs) /\ WatcherInv(watch[c], all)
    BY <1>2 DEF HubInv, HubTypeOK, WatcherType, LogSeq
  <2>2. CASE watch[c].pc = "none"
    <3>1. Wanted[c] = <<>>
      BY <1>2, <2>2, FeedsOfClients
    <3>2. <<>> \in Seq(Logs)
      OBVIOUS
    <3> QED BY <3>1, <3>2
  <2>3. CASE watch[c].pc # "none"
    <3>1. watch[c].start \in 0..Len(all)
      BY <2>1, <2>3 DEF WatcherInv, WatcherType
    <3>2. Suffix(all, watch[c].start) \in Seq(Logs)
      <4>1. CreatedLog \in Logs
        BY CreatedLogAssumption
      <4> QED BY <2>1, <3>1, <4>1, SuffixAppend
    <3> QED BY <1>2, <2>3, <3>2, FeedsOfClients
  <2> QED BY <2>2, <2>3
<1> QED BY <1>1, <1>2 DEF Feeds

\* A sequence is a prefix of itself, and the empty one of every sequence.
LEMMA PrefixOfSelf ==
    ASSUME NEW s \in Seq(Logs)
    PROVE  Prefix(s, s) /\ Prefix(<<>>, s) /\ Len(s) \in Nat
BY DEF Prefix

\* A step that changes the feed of one client at most, and there only adds to
\* what it wants, grows the feeds.
LEMMA OneGrows ==
    ASSUME HubInv, NEW c \in Feeds, Seen'[c] = Seen[c], Prefix(Wanted[c], Wanted'[c]),
           \A d \in Feeds \ {c} : Seen'[d] = Seen[d] /\ Wanted'[d] = Wanted[d]
    PROVE  LF!FeedNext
<1>1. \A d \in Feeds : Wanted[d] \in Seq(Logs)
  BY WantedType
<1>2. UNCHANGED Seen
  BY FeedsOfClients
<1>3. \A d \in Feeds : Len(Wanted[d]) \in Nat /\ Prefix(Wanted[d], Wanted'[d])
  BY <1>1, PrefixOfSelf
<1> QED BY <1>2, <1>3, GrowStep

\* A step in which a client receives the next log it wants.
LEMMA DeliverStep ==
    ASSUME HubInv, NEW c \in Feeds, Len(Seen[c]) < Len(Wanted[c]),
           Seen'[c] = Append(Seen[c], Wanted[c][Len(Seen[c]) + 1]),
           Wanted'[c] = Wanted[c],
           \A d \in Feeds \ {c} : Seen'[d] = Seen[d] /\ Wanted'[d] = Wanted[d]
    PROVE  LF!FeedNext
<1>1. UNCHANGED Wanted
  BY FeedsOfClients
<1>2. Seen' = [Seen EXCEPT ![c] = Append(Seen[c], Wanted[c][Len(Seen[c]) + 1])]
  BY FeedsOfClients
<1>3. LF!Deliver(c)
  BY <1>1, <1>2 DEF LF!Deliver
<1> QED BY <1>3 DEF LF!FeedNext, Feeds

\* A step of an iterator is a step of its feed, or none.
LEMMA IteratorFeedStep ==
    ASSUME HubInv, NEW i \in Iterators, IteratorNext(i)
    PROVE  LF!FeedNext
<1>1. iter[i] \in IteratorType /\ IteratorInv(iter[i]) /\ i \in Feeds
  BY DEF HubInv, HubTypeOK, Feeds
<1>2. /\ Wanted[i] \in Seq(Logs) /\ Seen[i] \in Seq(Logs)
      /\ Prefix(Wanted[i], Wanted[i]) /\ Prefix(<<>>, Wanted[i])
  BY <1>1, WantedType, PrefixOfSelf, FeedsOfClients DEF IteratorType, LogSeq
<1>3. ASSUME NEW r, IteratorBecomes(i, r)
      PROVE  /\ Seen'[i] = r.got /\ Wanted'[i] = r.found
             /\ \A d \in Feeds \ {i} : Seen'[d] = Seen[d] /\ Wanted'[d] = Wanted[d]
  <2>1. /\ \A j \in Iterators : iter'[j] = IF j = i THEN r ELSE iter[j]
        /\ watch' = watch /\ answer' = answer
    BY <1>3 DEF IteratorBecomes, HubInv, HubTypeOK, nodeVars
  <2> QED BY <2>1, FeedsOfClients DEF Feeds
<1>4. ASSUME NEW r, IteratorBecomes(i, r), r.got = iter[i].got, r.found = iter[i].found
      PROVE  LF!FeedNext
  <2>1. Seen'[i] = Seen[i] /\ Wanted'[i] = Wanted[i]
    BY <1>3, <1>4, FeedsOfClients
  <2> QED BY <1>1, <1>2, <1>3, <1>4, <2>1, OneGrows
<1>5. ASSUME NEW q \in Queries, Filter(i, q) PROVE LF!FeedNext
  <2> DEFINE t == [NoIterator EXCEPT !.pc = "idle", !.query = q,
                                     !.found = answer[q], !.buff = answer[q]]
  <2>1. t.got = <<>> /\ t.found = answer[q] /\ answer[q] \in Seq(Logs)
    BY DEF NoIterator, HubInv, HubTypeOK, LogSeq
  <2>2. IteratorBecomes(i, t) /\ iter[i].got = <<>> /\ iter[i].found = <<>>
    BY <1>1, <1>5 DEF Filter, IteratorInv
  <2> HIDE DEF t
  <2>3. Seen'[i] = Seen[i] /\ Wanted[i] = <<>> /\ Wanted'[i] = answer[q]
    BY <1>3, <2>1, <2>2, FeedsOfClients
  <2>4. Prefix(Wanted[i], Wanted'[i])
    BY <2>1, <2>3, PrefixOfSelf
  <2> QED BY <1>1, <1>3, <2>2, <2>3, <2>4, OneGrows
<1>6. CASE NextLog(i)
  <2>1. iter[i].logs # <<>> /\ ~iter[i].fail
    BY <1>1, <1>6 DEF NextLog, IteratorInv
  <2>2. CASE IteratorBecomes(i, Failed(iter[i]))
    <3>1. Failed(iter[i]).got = iter[i].got /\ Failed(iter[i]).found = iter[i].found
      BY <1>1 DEF Failed, IteratorType
    <3> QED BY <1>4, <2>2, <3>1
  <2>3. CASE IteratorBecomes(i, Delivered(iter[i]))
    <3> DEFINE r == iter[i]
    <3>1. /\ Delivered(r).got = Append(r.got, Head(r.logs))
          /\ Delivered(r).found = r.found
      BY <1>1 DEF Delivered, IteratorType
    <3>2. /\ r.got \in Seq(Logs) /\ r.logs \in Seq(Logs) /\ r.buff \in Seq(Logs)
          /\ r.found \in Seq(Logs)
      BY <1>1 DEF IteratorType, LogSeq
    <3>3. Len(r.got) < Len(r.found) /\ Head(r.logs) = r.found[Len(r.got) + 1]
      <4>1. /\ r.logs \o r.buff \in Seq(Logs)
            /\ r.logs \o r.buff # <<>>
            /\ Head(r.logs \o r.buff) = Head(r.logs)
        BY <2>1, <3>2, HeadOfConcat
      <4>2. PICK t \in Seq(Logs) : t = r.logs \o r.buff
        BY <4>1
      <4>3. r.got \o t = r.found
        BY <1>1, <2>1, <4>2 DEF IteratorInv
      <4>4. Prefix(r.got \o t, r.found)
        BY <3>2, <4>3, PrefixOfSelf
      <4>5. t # <<>> /\ Head(t) = Head(r.logs)
        BY <4>1, <4>2
      <4> QED BY <3>2, <4>2, <4>4, <4>5, NextOfPrefix
    <3> HIDE DEF r
    <3>4. Seen[i] = r.got /\ Wanted[i] = r.found
      BY FeedsOfClients DEF r
    <3>5. Seen'[i] = Append(r.got, Head(r.logs)) /\ Wanted'[i] = r.found
      BY <1>3, <2>3, <3>1 DEF r
    <3> QED BY <1>1, <1>3, <2>3, <3>3, <3>4, <3>5, DeliverStep
  <2> QED BY <1>6, <2>2, <2>3 DEF NextLog
<1>7. CASE Push(i)
  <2> DEFINE t == [iter[i] EXCEPT !.logs = Append(@, Head(iter[i].buff)), !.buff = Tail(@)]
  <2>1. t.got = iter[i].got /\ t.found = iter[i].found
    BY <1>1 DEF IteratorType
  <2> QED BY <1>4, <1>7, <2>1 DEF Push
<1>8. CASE EndProducer(i) \/ CallNext(i) \/ NextErr(i) \/ NextNone(i) \/ Close(i)
           \/ CloseReturns(i)
  <2>1. \A pc, x :
            /\ [iter[i] EXCEPT !.ended = x].got = iter[i].got
            /\ [iter[i] EXCEPT !.ended = x].found = iter[i].found
            /\ [iter[i] EXCEPT !.pc = pc].got = iter[i].got
            /\ [iter[i] EXCEPT !.pc = pc].found = iter[i].found
            /\ [iter[i] EXCEPT !.done = x].got = iter[i].got
            /\ [iter[i] EXCEPT !.done = x].found = iter[i].found
            /\ [iter[i] EXCEPT !.pc = pc, !.exhausted = x].got = iter[i].got
            /\ [iter[i] EXCEPT !.pc = pc, !.exhausted = x].found = iter[i].found
    BY <1>1 DEF IteratorType
  <2>2. CASE EndProducer(i)
    BY <1>4, <2>1, <2>2 DEF EndProducer
  <2>3. CASE CallNext(i)
    BY <1>4, <2>1, <2>3 DEF CallNext
  <2>4. CASE NextErr(i)
    BY <1>4, <2>1, <2>4 DEF NextErr
  <2>5. CASE NextNone(i)
    BY <1>4, <2>1, <2>5 DEF NextNone
  <2>6. CASE Close(i)
    <3> DEFINE t == [iter[i] EXCEPT !.pc = "close", !.unsub = @ \/ ~iter[i].ended]
    <3>1. t.got = iter[i].got /\ t.found = iter[i].found
      BY <1>1 DEF IteratorType
    <3>2. IteratorBecomes(i, t)
      BY <2>6 DEF Close
    <3> HIDE DEF t
    <3> QED BY <1>4, <3>1, <3>2
  <2>7. CASE CloseReturns(i)
    BY <1>4, <2>1, <2>7 DEF CloseReturns
  <2> QED BY <1>8, <2>2, <2>3, <2>4, <2>5, <2>6, <2>7
<1> QED BY <1>5, <1>6, <1>7, <1>8 DEF IteratorNext, Producer, NextStep

\* A step of a watcher is a step of its feed, or none.
LEMMA WatcherFeedStep ==
    ASSUME HubInv, NEW w \in Watchers, WatcherNext(w)
    PROVE  LF!FeedNext
<1> DEFINE all == answer[watch[w].query]
<1>1. /\ watch[w] \in WatcherType /\ WatcherInv(watch[w], all)
      /\ w \in Feeds /\ all \in Seq(Logs)
  BY DEF HubInv, HubTypeOK, Feeds, WatcherType, LogSeq
<1>2. /\ Wanted[w] \in Seq(Logs) /\ Prefix(Wanted[w], Wanted[w])
  BY <1>1, WantedType, PrefixOfSelf
<1>3. ASSUME NEW r, WatcherBecomes(w, r)
      PROVE  /\ Seen'[w] = r.got
             /\ Wanted'[w] = IF r.pc = "none" THEN <<>> ELSE Suffix(answer[r.query], r.start)
             /\ \A d \in Feeds \ {w} : Seen'[d] = Seen[d] /\ Wanted'[d] = Wanted[d]
  <2>1. /\ \A v \in Watchers : watch'[v] = IF v = w THEN r ELSE watch[v]
        /\ iter' = iter /\ answer' = answer
    BY <1>3 DEF WatcherBecomes, HubInv, HubTypeOK, nodeVars
  <2> QED BY <2>1, FeedsOfClients DEF Feeds
<1>4. ASSUME NEW r, WatcherBecomes(w, r), r.got = watch[w].got,
             r.query = watch[w].query, r.start = watch[w].start,
             r.pc = "none" <=> watch[w].pc = "none"
      PROVE  LF!FeedNext
  <2>1. /\ Seen[w] = watch[w].got
        /\ Wanted[w] = IF watch[w].pc = "none" THEN <<>>
                       ELSE Suffix(answer[watch[w].query], watch[w].start)
    BY FeedsOfClients
  <2>2. /\ Seen'[w] = r.got
        /\ Wanted'[w] = IF r.pc = "none" THEN <<>> ELSE Suffix(answer[r.query], r.start)
    BY <1>3, <1>4
  <2>3. Seen'[w] = Seen[w] /\ Wanted'[w] = Wanted[w]
    BY <1>4, <2>1, <2>2
  <2> QED BY <1>1, <1>2, <1>3, <1>4, <2>3, OneGrows
<1>5. ASSUME NEW q \in Queries, Watch(w, q) PROVE LF!FeedNext
  <2> DEFINE t == [NoWatcher EXCEPT !.pc = "select", !.query = q, !.start = Len(answer[q])]
  <2>1. /\ t.pc = "select" /\ t.query = q /\ t.start = Len(answer[q]) /\ t.got = <<>>
        /\ answer[q] \in Seq(Logs)
    BY DEF NoWatcher, HubInv, HubTypeOK, LogSeq
  <2>2. WatcherBecomes(w, t) /\ watch[w].pc = "none" /\ watch[w].got = <<>>
    BY <1>1, <1>5 DEF Watch, WatcherInv
  <2> HIDE DEF t
  <2>3. Suffix(answer[q], Len(answer[q])) = <<>>
    BY <2>1, SubSeqEmpty DEF Suffix
  <2>4. Seen'[w] = Seen[w] /\ Wanted[w] = <<>> /\ Wanted'[w] = <<>>
    <3>1. Seen[w] = <<>> /\ Wanted[w] = <<>>
      BY <2>2, FeedsOfClients
    <3>2. Seen'[w] = <<>>
      BY <1>3, <2>1, <2>2
    <3>3. Wanted'[w] = Suffix(answer[q], Len(answer[q]))
      BY <1>3, <2>1, <2>2
    <3> QED BY <3>1, <3>2, <3>3, <2>3
  <2>5. Prefix(Wanted[w], Wanted'[w])
    BY <1>2, <2>4
  <2> QED BY <1>1, <1>3, <2>2, <2>4, <2>5, OneGrows
<1>6. CASE Send(w)
  <2> DEFINE r == watch[w]
             t == [r EXCEPT !.pc = "select", !.event = NoLog, !.got = Append(@, r.event)]
             u == Suffix(all, r.start)
  <2>1. /\ r.pc = "send" /\ WatcherBecomes(w, t) /\ r.event \in Logs
        /\ Prefix(Pipe(r), u)
    BY <1>1, <1>6 DEF Send, WatcherInv, Running
  <2>2. /\ t.pc = "select" /\ t.query = r.query /\ t.start = r.start
        /\ t.got = Append(r.got, r.event)
    BY <1>1 DEF WatcherType
  <2>3. /\ Wanted[w] = u /\ Seen[w] = r.got
    BY <2>1, FeedsOfClients
  <2> HIDE DEF t
  <2>4. Wanted'[w] = u /\ Seen'[w] = Append(r.got, r.event)
    BY <1>3, <2>1, <2>2
  <2>5. Len(r.got) < Len(u) /\ r.event = u[Len(r.got) + 1]
    <3>1. /\ r.got \in Seq(Logs) /\ r.logs \o r.forward \in Seq(Logs)
          /\ InHand(r) \o (r.logs \o r.forward) \in Seq(Logs)
          /\ InHand(r) = <<r.event>> /\ <<r.event>> \in Seq(Logs)
      BY <1>1, <2>1, PipeType DEF InHand
    <3>2. /\ <<r.event>> \o (r.logs \o r.forward) # <<>>
          /\ Head(<<r.event>> \o (r.logs \o r.forward)) = Head(<<r.event>>)
      BY <3>1, HeadOfConcat
    <3>3. Head(<<r.event>>) = r.event
      OBVIOUS
    <3>4. PICK x \in Seq(Logs) : x = InHand(r) \o (r.logs \o r.forward)
      BY <3>1
    <3>5. Prefix(r.got \o x, u)
      BY <2>1, <3>4 DEF Pipe
    <3>6. x # <<>> /\ Head(x) = r.event
      BY <3>1, <3>2, <3>3, <3>4
    <3>7. u \in Seq(Logs)
      BY <1>2, <2>3
    <3> HIDE DEF u
    <3> QED BY <3>1, <3>4, <3>5, <3>6, <3>7, NextOfPrefix
  <2> HIDE DEF r, u
  <2> QED BY <1>1, <1>3, <2>1, <2>3, <2>4, <2>5, DeliverStep
<1>7. CASE Forward(w)
  <2> DEFINE t == [watch[w] EXCEPT !.logs = Append(@, Head(watch[w].forward)),
                                   !.forward = Tail(@)]
  <2>1. /\ t.got = watch[w].got /\ t.query = watch[w].query
        /\ t.start = watch[w].start /\ t.pc = watch[w].pc
    BY <1>1 DEF WatcherType
  <2> QED BY <1>4, <1>7, <2>1 DEF Forward
<1>8. ASSUME NEW conn \in {"failed", "shut"}, Disconnect(w, conn) PROVE LF!FeedNext
  <2> DEFINE t == [watch[w] EXCEPT !.conn = conn, !.forward = <<>>]
  <2>1. /\ t.got = watch[w].got /\ t.query = watch[w].query
        /\ t.start = watch[w].start /\ t.pc = watch[w].pc
    BY <1>1 DEF WatcherType
  <2> QED BY <1>4, <1>8, <2>1 DEF Disconnect
<1>9. CASE TakeLog(w)
  <2>1. watch[w].pc = "select"
    BY <1>9 DEF TakeLog
  <2>2. /\ Taken(watch[w]).got = watch[w].got /\ Taken(watch[w]).query = watch[w].query
        /\ Taken(watch[w]).start = watch[w].start /\ Taken(watch[w]).pc = "send"
    BY <1>1 DEF WatcherType, Taken
  <2> DEFINE t == Ends([watch[w] EXCEPT !.logs = Tail(@)], "error")
  <2>3. /\ t.got = watch[w].got /\ t.query = watch[w].query
        /\ t.start = watch[w].start /\ t.pc = "cleanup"
    BY <1>1 DEF WatcherType, Ends
  <2>4. WatcherBecomes(w, Taken(watch[w])) \/ WatcherBecomes(w, t)
    BY <1>9 DEF TakeLog
  <2> HIDE DEF t
  <2>5. CASE WatcherBecomes(w, Taken(watch[w]))
    BY <1>4, <2>1, <2>2, <2>5
  <2>6. CASE WatcherBecomes(w, t)
    BY <1>4, <2>1, <2>3, <2>6
  <2> QED BY <2>4, <2>5, <2>6
<1>10. CASE SeeErr(w) \/ SeeQuit(w)
  <2>1. PICK result : WatcherBecomes(w, Ends(watch[w], result)) /\ watch[w].pc # "none"
    BY <1>10 DEF SeeErr, SeeQuit
  <2> DEFINE t == Ends(watch[w], result)
  <2>2. /\ t.got = watch[w].got /\ t.query = watch[w].query
        /\ t.start = watch[w].start /\ t.pc = "cleanup"
    BY <1>1 DEF WatcherType, Ends
  <2>3. WatcherBecomes(w, t)
    BY <2>1
  <2> HIDE DEF t
  <2> QED BY <1>4, <2>1, <2>2, <2>3
<1>11. CASE Cleanup(w)
  <2> DEFINE t == [watch[w] EXCEPT !.pc = "done", !.conn = "closed", !.forward = <<>>,
                     !.reported = IF watch[w].unsub THEN "nil" ELSE watch[w].result]
  <2>1. /\ t.got = watch[w].got /\ t.query = watch[w].query
        /\ t.start = watch[w].start /\ t.pc = "done"
    BY <1>1 DEF WatcherType
  <2>2. WatcherBecomes(w, t) /\ watch[w].pc # "none"
    BY <1>11 DEF Cleanup
  <2> HIDE DEF t
  <2> QED BY <1>4, <2>1, <2>2
<1>12. CASE Unsubscribe(w)
  <2> DEFINE t == [watch[w] EXCEPT !.unsub = TRUE, !.client = "wait"]
  <2>1. /\ t.got = watch[w].got /\ t.query = watch[w].query
        /\ t.start = watch[w].start /\ t.pc = watch[w].pc
    BY <1>1 DEF WatcherType
  <2> QED BY <1>4, <1>12, <2>1 DEF Unsubscribe
<1>13. CASE UnsubscribeReturns(w)
  <2> DEFINE t == [watch[w] EXCEPT !.client = "idle"]
  <2>1. /\ t.got = watch[w].got /\ t.query = watch[w].query
        /\ t.start = watch[w].start /\ t.pc = watch[w].pc
    BY <1>1 DEF WatcherType
  <2> QED BY <1>4, <1>13, <2>1 DEF UnsubscribeReturns
<1> QED BY <1>5, <1>6, <1>7, <1>8, <1>9, <1>10, <1>11, <1>12, <1>13
        DEF WatcherNext, Goroutine

\* A log that StakeHub emits adds to the feeds of the watchers it matches.
LEMMA EmitFeedStep ==
    ASSUME HubInv, NEW l \in Logs, Emit(l)
    PROVE  LF!FeedNext
<1>1. \A c \in Feeds : Wanted[c] \in Seq(Logs)
  BY WantedType
<1>2. ASSUME NEW i \in Iterators
      PROVE  Seen'[i] = Seen[i] /\ Prefix(Wanted[i], Wanted'[i])
  <2>1. iter' = iter /\ i \in Feeds
    BY DEF Emit, Feeds
  <2>2. Seen'[i] = Seen[i] /\ Wanted'[i] = Wanted[i]
    BY <2>1, FeedsOfClients
  <2> QED BY <1>1, <2>1, <2>2, PrefixOfSelf
<1>3. ASSUME NEW w \in Watchers
      PROVE  Seen'[w] = Seen[w] /\ Prefix(Wanted[w], Wanted'[w])
  <2> DEFINE r == watch[w]
             all == answer[r.query]
             t == watch'[w]
  <2>1. r \in WatcherType /\ r.query \in Queries /\ all \in Seq(Logs) /\ WatcherInv(r, all)
    BY DEF HubInv, HubTypeOK, WatcherType, LogSeq
  <2>2. /\ t.got = r.got /\ t.pc = r.pc /\ t.query = r.query /\ t.start = r.start
    BY <2>1 DEF Emit, WatcherType
  <2>3. answer'[r.query] = IF Matches(r.query, l) THEN Append(all, l) ELSE all
    BY <2>1 DEF Emit
  <2>4. Seen'[w] = Seen[w]
    BY <2>2, FeedsOfClients
  <2>5. CASE r.pc = "none"
    <3>1. Wanted[w] = <<>> /\ Wanted'[w] = <<>>
      BY <2>2, <2>5, FeedsOfClients
    <3>2. Prefix(<<>>, <<>>)
      BY DEF Prefix
    <3> QED BY <2>4, <3>1, <3>2
  <2>6. CASE r.pc # "none"
    <3>1. Wanted[w] = Suffix(all, r.start) /\ Wanted'[w] = Suffix(answer'[r.query], r.start)
      BY <2>2, <2>6, FeedsOfClients
    <3>2. r.start \in 0..Len(all)
      BY <2>1, <2>6 DEF WatcherInv, WatcherType
    <3>3. /\ Suffix(all, r.start) \in Seq(Logs)
          /\ Suffix(Append(all, l), r.start) = Append(Suffix(all, r.start), l)
      BY <2>1, <3>2, SuffixAppend
    <3>4. Prefix(Suffix(all, r.start), Suffix(all, r.start))
      BY <3>3, PrefixOfSelf
    <3>5. Prefix(Suffix(all, r.start), Append(Suffix(all, r.start), l))
      BY <3>3, <3>4, PrefixAppend
    <3> QED BY <2>3, <2>4, <3>1, <3>3, <3>4, <3>5
  <2> QED BY <2>5, <2>6
<1>4. UNCHANGED Seen
  BY <1>2, <1>3, FeedsOfClients DEF Feeds
<1>5. \A c \in Feeds : Len(Wanted[c]) \in Nat /\ Prefix(Wanted[c], Wanted'[c])
  BY <1>1, <1>2, <1>3, PrefixOfSelf DEF Feeds
<1> QED BY <1>4, <1>5, GrowStep

\* The goroutines, channels and connections of the binding implement the feed:
\* every client sees the logs it asked for in order, none twice, none left out.
THEOREM FeedImplemented == CVSpec => Feed
<1>1. HubInit => LF!FeedInit
  BY DEF HubInit, LF!FeedInit, Seen, Wanted, NoIterator, NoWatcher
<1>2. HubInv /\ [HubNext]_hubVars => [LF!FeedNext]_<<Seen, Wanted>>
  <2>1. CASE HubInv /\ HubNext
    BY <2>1, IteratorFeedStep, WatcherFeedStep, EmitFeedStep DEF HubNext, ClientNext
  <2>2. CASE UNCHANGED hubVars
    BY <2>2 DEF hubVars, nodeVars, Seen, Wanted
  <2> QED BY <2>1, <2>2
<1> QED BY <1>1, <1>2, CVImplementsHub, HubInvariant, PTL DEF HubSpec, Feed, LF!FeedSpec
=============================================================================
