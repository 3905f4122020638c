------------------------------ MODULE Thorflux ------------------------------
(***************************************************************************)
(* cmd/thorflux/thorflux.go: the whole process.  Run starts the publisher  *)
(* and the subscriber, which share the channel of block events and the     *)
(* context; Stop cancels the context, waits for both and closes the        *)
(* database (influxdb.go, Close).                                          *)
(*                                                                         *)
(* The publisher is Publisher itself, the subscriber what it promises: its *)
(* specification Consumer, which Subscriber implements.  What each of them *)
(* calls its environment is here the other one, and the command.           *)
(***************************************************************************)
EXTENDS Integers, Sequences

CONSTANTS
    BackWorkers, WorkChanSize, ChanSize, Width, FirstNum, BackSync, MaxNum,
    MaxForks,       \* of the publisher, see Publisher
    Writes          \* what the handlers may write

\* What Publisher assumes of its constants.
ASSUME ThorfluxAssumption ==
    /\ BackWorkers # {}
    /\ WorkChanSize \in Nat \ {0} /\ ChanSize \in Nat \ {0}
    /\ Width \in Nat /\ Width > 1
    /\ FirstNum \in 1 .. Width - 1 /\ BackSync \in 0 .. Width - 1
    /\ MaxNum \in Nat /\ MaxNum >= FirstNum
    /\ MaxForks \in Nat

VARIABLES
    ctxDone, blockChan, chanClosed,     \* shared
    sendPanic, gen, blockNum, workChan, workClosed, worker, height, failed, fwd,
    prev, finalized, nodeBest, nodeFinalized, forks, prevLinked, nextLinked,
    delivered,                          \* the publisher's, see Publisher
    consumer, written,                  \* the subscriber's, see Consumer
    cmd,            \* where Stop is, "running" before it is called
    dbDone,         \* DB.ctx has been cancelled
    clientClosed,   \* the client of the database has been closed
    listener,       \* the goroutine that logs write errors: "select", "exited"
    buffered,       \* points are in the client library's write buffer (which it
                    \* also sends by itself: the worst case is that it does not)
    stopErr         \* Stop returned an error

P == INSTANCE Publisher
C == INSTANCE Consumer WITH Events <- P!Event

dbVars == <<dbDone, clientClosed, listener, buffered, stopErr>>
backVars == <<gen, blockNum, workChan, workClosed, worker, height, failed>>
fwdVars == <<fwd, prev, finalized>>
linkVars == <<prevLinked, nextLinked>>
nodeVars == <<nodeBest, nodeFinalized, forks>>
publisherVars == <<sendPanic, backVars, fwdVars, linkVars, nodeVars>>
subscriberVars == <<consumer, written>>
channelVars == <<blockChan, chanClosed, delivered>>
vars == <<ctxDone, channelVars, publisherVars, subscriberVars, cmd, dbVars>>

Init ==
    /\ P!Init /\ C!ConsumerInit
    /\ cmd = "running"
    /\ dbDone = FALSE /\ clientClosed = FALSE
    /\ listener = "select"
    /\ buffered = FALSE
    /\ stopErr = FALSE

-----------------------------------------------------------------------------
(* Run: the two goroutines and the channel between them.                   *)

\* A step of a syncer, or of Publisher.Run itself.
Publishing(step) ==
    /\ P!Alive
    /\ step
    /\ UNCHANGED <<ctxDone, delivered, nodeVars, subscriberVars, cmd, dbVars>>

Generator == Publishing(P!GeneratorStep /\ UNCHANGED <<fwdVars, linkVars>>)
BackWorker(w) == Publishing(P!BackWorkerStep(w) /\ UNCHANGED <<fwdVars, linkVars>>)
Forward == Publishing(P!ForwardStep /\ UNCHANGED backVars)
PublisherRun == Publishing(P!RunClose)

\* Subscribe takes a step ...
SubscribeStep ==
    /\ P!Alive
    /\ C!ConsumerStep
    /\ delivered' = IF blockChan' # blockChan /\ Head(blockChan)[1] = "back"
                    THEN delivered \cup {Head(blockChan)[2]} ELSE delivered
    /\ UNCHANGED <<publisherVars, cmd, dbVars>>

\* ... or one of its handlers, whose points stay in the write buffer.
WritePoints(p) ==
    /\ P!Alive
    /\ p \notin written
    /\ C!Write(p)
    /\ buffered' = TRUE
    /\ UNCHANGED <<delivered, publisherVars, cmd, dbDone, clientClosed, listener, stopErr>>

NodeStep ==
    /\ P!NodeNext
    /\ UNCHANGED <<ctxDone, channelVars, sendPanic, backVars, fwdVars, subscriberVars, cmd, dbVars>>

-----------------------------------------------------------------------------
(* Stop.                                                                   *)

\* Variant of StopCancel: Stop closes the channel as well.
StopClosesChannel ==
    /\ P!Alive /\ cmd = "running"
    /\ ctxDone' = TRUE
    /\ chanClosed' = TRUE
    /\ cmd' = "wait"
    /\ UNCHANGED <<blockChan, delivered, publisherVars, subscriberVars, dbVars>>

\* Stop cancels the context.  (The context New was given may be cancelled before
\* Stop is called: that is Stop called at that moment, as all it does next is
\* wait.)  Then it ...
StopCancel ==
    /\ P!Alive /\ cmd = "running"
    /\ ctxDone' = TRUE
    /\ cmd' = "wait"
    /\ UNCHANGED <<channelVars, publisherVars, subscriberVars, dbVars>>

\* Variant of StopWait: only the publisher is waited for.
StopWaitsForPublisher ==
    /\ P!Alive /\ cmd = "wait"
    /\ chanClosed
    /\ cmd' = "close"
    /\ UNCHANGED <<ctxDone, channelVars, publisherVars, subscriberVars, dbVars>>

\* ... waits for Publisher.Run and Subscribe ...
StopWait ==
    /\ P!Alive /\ cmd = "wait"
    /\ chanClosed /\ consumer = "returned"
    /\ cmd' = "close"
    /\ UNCHANGED <<ctxDone, channelVars, publisherVars, subscriberVars, dbVars>>

\* ... and closes the database: Close cancels the context of the error listener,
CloseCancel ==
    /\ cmd = "close"
    /\ dbDone' = TRUE
    /\ cmd' = "flush"
    /\ UNCHANGED <<ctxDone, channelVars, publisherVars, subscriberVars,
                   clientClosed, listener, buffered, stopErr>>

\* flushes the write buffer,
CloseFlush ==
    /\ cmd = "flush"
    /\ buffered' = FALSE
    /\ cmd' = "closeClient"
    /\ UNCHANGED <<ctxDone, channelVars, publisherVars, subscriberVars,
                   dbDone, clientClosed, listener, stopErr>>

\* closes the client,
CloseClient ==
    /\ cmd = "closeClient"
    /\ clientClosed' = TRUE
    /\ cmd' = "listener"
    /\ UNCHANGED <<ctxDone, channelVars, publisherVars, subscriberVars,
                   dbDone, listener, buffered, stopErr>>

\* and returns when the listener has, or with an error after DefaultTimeout.
CloseReturn ==
    /\ cmd = "listener"
    /\ \/ listener = "exited" /\ UNCHANGED stopErr
       \/ stopErr' = TRUE
    /\ cmd' = "returned"
    /\ UNCHANGED <<ctxDone, channelVars, publisherVars, subscriberVars,
                   dbDone, clientClosed, listener, buffered>>

StopStep == StopWait \/ CloseCancel \/ CloseFlush \/ CloseClient \/ CloseReturn

\* The error listener sees its context cancelled, or the error channel closed.
ListenerExit ==
    /\ P!Alive
    /\ listener = "select"
    /\ dbDone \/ clientClosed
    /\ listener' = "exited"
    /\ UNCHANGED <<ctxDone, channelVars, publisherVars, subscriberVars, cmd,
                   dbDone, clientClosed, buffered, stopErr>>

Terminated == (cmd = "returned" \/ ~P!Alive) /\ UNCHANGED vars

Next ==
    \/ Generator
    \/ \E w \in BackWorkers : BackWorker(w)
    \/ Forward
    \/ PublisherRun
    \/ SubscribeStep
    \/ \E p \in Writes : WritePoints(p)
    \/ NodeStep
    \/ StopCancel
    \/ StopStep
    \/ ListenerExit
    \/ Terminated

\* The Go scheduler runs the goroutines that can take a step, and the subscriber
\* keeps its promise.  It is enough that one of the backward syncer's goroutines
\* runs when some can.  Nothing is assumed of the node, and nobody has to call
\* Stop.
Fairness ==
    /\ WF_vars(Generator \/ (\E w \in BackWorkers : BackWorker(w)) \/ PublisherRun)
    /\ WF_vars(Forward)
    /\ WF_vars(SubscribeStep)
    /\ WF_vars(StopStep)

Spec == Init /\ [][Next]_vars
FairSpec == Spec /\ Fairness

-----------------------------------------------------------------------------
(* Properties.                                                             *)

\* Each component is what the other takes for its environment.  The subscriber and
\* the command do nothing that Publisher does not allow: neither closes the channel
\* or sends on it.  And the publisher is an environment that the subscriber's
\* promise allows: it sends within the capacity of the channel and closes it once.
\* So all the invariants shown of the two hold in the process.
ImplementsComponents == P!Spec /\ C!Spec

\* And the subscriber goes on receiving until the context is cancelled, as
\* Publisher assumes of it.
SubscriberReceives == P!ConsumerFairness

\* Close is called over a quiet system: once the client is closed no handler
\* writes any more, and all points handed over by then left the write buffer.
NothingAfterClose == clientClosed => ~buffered

\* What makes it inductive: how far Stop is tells what it has waited for and done.
StopInOrder ==
    /\ cmd \notin {"running", "wait"} => consumer = "returned"
    /\ cmd \in {"closeClient", "listener", "returned"} => ~buffered
    /\ clientClosed => cmd \in {"listener", "returned"}

Stopped == cmd = "returned" \/ ~P!Alive

\* The two ways in which the forward syncer can leave Run waiting for ever: it stays
\* at the send of a fork event, or its requests for the finalized block keep failing.
StuckSending == <>[](fwd = "sendFork")
StuckFetching == []<>(fwd = "finalizedFailed")

\* Stop returns, whichever of the two goroutines leaves first and however full
\* the channel and the queue are, unless the forward syncer has detected a fork and
\* gets stuck announcing it.
StopReturnsUnlessForking ==
    StuckSending \/ StuckFetching \/ (cmd = "wait" ~> Stopped)

\* "Run ... blocks until the context is cancelled or the jobs complete"
\* (publisher.go): after the cancellation Stop's wait for it ends, at least with a node
\* that answers the request for its finalized block in the end.  It is violated: the
\* send of the fork event does not look at the context.
StopReturns == StuckFetching \/ (cmd = "wait" ~> Stopped)

\* The backward job ends by itself, however the two syncers compete for the
\* channel; with an end block there is no forward syncer, and both goroutines of
\* Run then return, cancelled or not.
JobCompletes ==
    <>(~P!Alive \/ (gen = "returned" /\ (fwd = "returned" => consumer = "returned")))
=============================================================================
