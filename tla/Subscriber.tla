----------------------------- MODULE Subscriber -----------------------------
(***************************************************************************)
(* pubsub/subscriber.go: the goroutine that receives block events, turns   *)
(* each one into a batch of tasks, one per registered handler, and hands   *)
(* them to its worker pool.  It is the only goroutine that submits tasks,  *)
(* and the one that shuts the pool down, by a deferred call, when it       *)
(* leaves its loop.                                                        *)
(*                                                                         *)
(* blockChan, chanClosed and ctxDone are shared with the publisher and the *)
(* command; the actions of "The environment" stand for these.  Consumer    *)
(* says what the whole promises to them.                                   *)
(***************************************************************************)
EXTENDS WorkerPool

CONSTANTS
    Events,         \* the block events that can be published
    ForkEvents,     \* those with Fork.Occurred set
    Handlers,       \* the registered handlers
    ChanSize        \* capacity of blockChan

ASSUME ForkEventsAssumption == ForkEvents \subseteq Events
ASSUME ChanSizeAssumption == ChanSize \in Nat \ {0}
ASSUME TasksAssumption == Tasks = (Events \ ForkEvents) \X Handlers

VARIABLES
    blockChan,      \* content of the channel of block events
    chanClosed,     \* the publisher closed it
    ctxDone,        \* the command's context has been cancelled
    sub,            \* where Subscribe is
    batch,          \* the tasks SubmitBatch has still to send
    received,       \* history: the events received so far
    refused,        \* history: SubmitBatch returned an error
    unpublished     \* environment: the events the publisher has still to send

subVars == <<sub, batch, received, refused>>
vars == <<poolVars, subVars, blockChan, chanClosed, ctxDone, unpublished>>

SubStates == {"select", "submit", "shutdown", "closing", "waiting", "returned", "panicked"}

TypeOK ==
    /\ PoolTypeOK
    /\ blockChan \in Seq(Events)
    /\ Len(blockChan) <= ChanSize
    /\ chanClosed \in BOOLEAN
    /\ ctxDone \in BOOLEAN
    /\ sub \in SubStates
    /\ batch \in SUBSET Tasks
    /\ received \in SUBSET Events
    /\ refused \in BOOLEAN
    /\ unpublished \in SUBSET Events

SubscribeInit ==
    /\ PoolInit
    /\ sub = "select"
    /\ batch = {}
    /\ received = {}
    /\ refused = FALSE

Init ==
    /\ SubscribeInit
    /\ blockChan = <<>>
    /\ chanClosed = FALSE
    /\ ctxDone = FALSE
    /\ unpublished = Events

\* The tasks Subscribe creates for an event: one per handler.
TasksOf(e) == {t \in Tasks : t[1] = e}

-----------------------------------------------------------------------------
(* Subscribe.                                                              *)

\* The select sees the context cancelled: the deferred Shutdown starts.
SelectDone ==
    /\ sub = "select"
    /\ ctxDone
    /\ sub' = "shutdown"
    /\ UNCHANGED <<poolVars, batch, received, refused, blockChan, chanClosed>>

\* The receive reports the closed and drained channel.
SelectClosed ==
    /\ sub = "select"
    /\ chanClosed /\ blockChan = <<>>
    /\ sub' = "shutdown"
    /\ UNCHANGED <<poolVars, batch, received, refused, blockChan, chanClosed>>

\* A fork event is received: the fork is resolved in this goroutine, an error
\* is only logged, and no task is created.
ReceiveFork ==
    /\ sub = "select"
    /\ blockChan # <<>> /\ Head(blockChan) \in ForkEvents
    /\ blockChan' = Tail(blockChan)
    /\ received' = received \cup {Head(blockChan)}
    /\ UNCHANGED <<poolVars, sub, batch, refused, chanClosed>>

\* A block event is received: one task per handler is created and SubmitBatch
\* called.  SubmitBatch first checks the shutdown flag.
ReceiveBlock ==
    /\ sub = "select"
    /\ blockChan # <<>> /\ Head(blockChan) \notin ForkEvents
    /\ blockChan' = Tail(blockChan)
    /\ received' = received \cup {Head(blockChan)}
    /\ IF isShutdown
       THEN refused' = TRUE /\ UNCHANGED <<sub, batch>>
       ELSE /\ batch' = TasksOf(Head(blockChan))
            /\ sub' = "submit"
            /\ UNCHANGED refused
    /\ UNCHANGED <<poolVars, chanClosed>>

\* Variant of SubmitTask: a select with a default, which drops what does not fit.
SubmitTaskOrDrop(t) ==
    /\ sub = "submit"
    /\ t \in batch
    /\ batch' = batch \ {t}
    /\ IF Len(taskQueue) < QueueSize THEN Enqueue(t) ELSE UNCHANGED poolVars
    /\ UNCHANGED <<sub, received, refused, blockChan, chanClosed>>

\* SubmitBatch's select for one of the remaining tasks (the order is that of
\* an iteration over a Go map, arbitrary).  A cancelled pool makes it return an
\* error and drop the rest; a send on a closed queue panics.
SubmitTask(t) ==
    /\ sub = "submit"
    /\ t \in batch
    /\ \E arm \in ReadyArms :
        IF arm = "done"
        THEN /\ refused' = TRUE
             /\ batch' = {}
             /\ sub' = "select"
             /\ UNCHANGED poolVars
        ELSE IF queueClosed
        THEN /\ sub' = "panicked"
             /\ UNCHANGED <<poolVars, batch, refused>>
        ELSE /\ Enqueue(t)
             /\ batch' = batch \ {t}
             /\ UNCHANGED <<sub, refused>>
    /\ UNCHANGED <<received, blockChan, chanClosed>>

\* SubmitBatch returns nil once every task is queued.
SubmitReturn ==
    /\ sub = "submit"
    /\ batch = {}
    /\ sub' = "select"
    /\ UNCHANGED <<poolVars, batch, received, refused, blockChan, chanClosed>>

\* Variant of Shutdown: the early return's condition is inverted.
ShutdownOnlyTwice ==
    /\ sub = "shutdown"
    /\ IF ~isShutdown
       THEN sub' = "waiting" /\ UNCHANGED poolVars
       ELSE sub' = "closing" /\ ShutdownCancel
    /\ UNCHANGED <<batch, received, refused, blockChan, chanClosed>>

\* Shutdown takes the lock, cancels the pool's context ...
Shutdown ==
    /\ sub = "shutdown"
    /\ IF isShutdown
       THEN sub' = "waiting" /\ UNCHANGED poolVars
       ELSE sub' = "closing" /\ ShutdownCancel
    /\ UNCHANGED <<batch, received, refused, blockChan, chanClosed>>

\* ... closes the queue, sets the flag ...
ShutdownCloseQueue ==
    /\ sub = "closing"
    /\ ShutdownClose
    /\ sub' = "waiting"
    /\ UNCHANGED <<batch, received, refused, blockChan, chanClosed>>

\* Variant of ShutdownWait: no wg.Wait.
ShutdownWithoutWait ==
    /\ sub = "waiting"
    /\ sub' = "returned"
    /\ UNCHANGED <<poolVars, batch, received, refused, blockChan, chanClosed>>

\* ... and returns when the workers have.
ShutdownWait ==
    /\ sub = "waiting"
    /\ AllExited
    /\ sub' = "returned"
    /\ UNCHANGED <<poolVars, batch, received, refused, blockChan, chanClosed>>

SubscribeStep ==
    \/ SelectDone
    \/ SelectClosed
    \/ ReceiveFork
    \/ ReceiveBlock
    \/ \E t \in Tasks : SubmitTask(t)
    \/ SubmitReturn
    \/ Shutdown
    \/ ShutdownCloseQueue
    \/ ShutdownWait

PoolStep(w) == WorkerStep(w) /\ UNCHANGED <<subVars, blockChan, chanClosed>>

\* Every step of the subscriber and of its pool.
SubscribeNext == SubscribeStep \/ \E w \in Workers : PoolStep(w)

-----------------------------------------------------------------------------
(* The environment.                                                        *)

\* A syncer of the publisher sends an event.
Publish(e) ==
    /\ e \in unpublished
    /\ ~chanClosed
    /\ Len(blockChan) < ChanSize
    /\ blockChan' = Append(blockChan, e)
    /\ unpublished' = unpublished \ {e}
    /\ UNCHANGED <<poolVars, subVars, chanClosed, ctxDone>>

\* The publisher closes the channel: its jobs are complete, or cancelled.  The
\* events of blocks it failed to fetch are never sent.
PublisherCloses ==
    /\ ~chanClosed
    /\ chanClosed' = TRUE
    /\ UNCHANGED <<poolVars, subVars, blockChan, ctxDone, unpublished>>

\* Variant of Cancel: the pool's context is derived from the command's.
CancelReachesPool ==
    /\ ~ctxDone
    /\ ctxDone' = TRUE
    /\ poolDone' = TRUE
    /\ UNCHANGED <<taskQueue, queueClosed, isShutdown, running, exited, written, recovered,
                   subVars, blockChan, chanClosed, unpublished>>

\* A signal, or Cmd.Stop, cancels the context.
Cancel ==
    /\ ~ctxDone
    /\ ctxDone' = TRUE
    /\ UNCHANGED <<poolVars, subVars, blockChan, chanClosed, unpublished>>

\* Subscribe and every worker have returned.
Terminated ==
    /\ sub = "returned"
    /\ chanClosed
    /\ UNCHANGED vars

Next ==
    \/ SubscribeNext /\ UNCHANGED <<ctxDone, unpublished>>
    \/ \E e \in Events : Publish(e)
    \/ PublisherCloses
    \/ Cancel
    \/ Terminated

\* The Go scheduler runs every runnable goroutine, and a handler returns, or
\* panics: the node answers its requests (the client sets no timeout, so a call
\* the node never answers would hold its worker, and Shutdown with it).  Nobody
\* has to publish, close or cancel.
Fairness ==
    /\ WF_vars(SubscribeStep /\ UNCHANGED <<ctxDone, unpublished>>)
    /\ \A w \in Workers : WF_vars(PoolStep(w) /\ UNCHANGED <<ctxDone, unpublished>>)

Spec == Init /\ [][Next]_vars
FairSpec == Spec /\ Fairness

-----------------------------------------------------------------------------
(* Properties.                                                             *)

Queued == ToSet(taskQueue)
Busy == UNION {running[w] : w \in Workers}
Created == {t \in Tasks : t[1] \in received}

\* No task of a received block event disappears: SubmitBatch, the workers' loop
\* and processTask pass it on without a gap, so each is about to be submitted,
\* queued, running, written or recovered from (after Shutdown, what was not
\* executed is still in the queue), and no task appears from nowhere.
NoTaskLost == Created = batch \cup Queued \cup Busy \cup written \cup recovered

\* No task runs twice: it is in one place at a time, at one position of the
\* queue, with one worker, and a finished task never comes back.
NoTaskTwice ==
    /\ IsInjective(taskQueue)
    /\ \A v, w \in Workers : v # w => running[v] \cap running[w] = {}
    /\ batch \cap (Queued \cup Busy \cup written \cup recovered) = {}
    /\ Queued \cap (Busy \cup written \cup recovered) = {}
    /\ Busy \cap (written \cup recovered) = {}
    /\ written \cap recovered = {}

\* SubmitBatch never fails: because one goroutine both submits and shuts down,
\* it never finds the pool shut down or cancelled (both error returns are dead
\* code in this program) and never panics by sending on the closed queue.
SubmitNeverFails == ~refused /\ sub # "panicked"

\* Shutdown waits for the workers: once Subscribe returned no handler runs and
\* none can start, so nothing is written after the caller closes the database.
QuietAfterReturn ==
    sub = "returned" => exited = Workers /\ Busy = {}

\* What makes the four invariants above inductive.  The pool is untouched until
\* Subscribe leaves its loop, tasks are pending only within SubmitBatch, and a
\* worker that returned had finished its task.
PoolFollowsSubscribe ==
    /\ sub \in {"select", "submit", "shutdown"} => ~isShutdown /\ ~poolDone /\ ~queueClosed
    /\ sub = "closing" => ~isShutdown /\ ~queueClosed
    /\ sub # "submit" => batch = {}
    /\ sub = "returned" => AllExited
    /\ \A w \in exited : running[w] = {}

\* An event is unpublished, in the channel once, or received.
EventsOnce ==
    /\ IsInjective(blockChan)
    /\ received \cap (ToSet(blockChan) \cup unpublished) = {}
    /\ ToSet(blockChan) \cap unpublished = {}

IndInv ==
    /\ TypeOK
    /\ NoTaskLost
    /\ NoTaskTwice
    /\ SubmitNeverFails
    /\ PoolFollowsSubscribe
    /\ EventsOnce

\* A queued task is executed, also after any number of handler panics (the
\* worker survives them), unless Shutdown cancels the pool first.
QueuedTaskRuns ==
    \A t \in Tasks : (t \in Queued) ~> (t \in written \cup recovered \/ poolDone)

\* Where Consumer's Subscribe is.
Promised ==
    IF sub \in {"select", "submit"} THEN "receiving"
    ELSE IF sub = "returned" THEN "returned" ELSE "leaving"

C == INSTANCE Consumer WITH consumer <- Promised, Writes <- Tasks

\* The pool does not show: with a bounded queue, handlers that panic and workers
\* that leave one by one, Subscribe does nothing that Consumer does not promise: it
\* leaves its loop only when it is told to, and once it has returned nothing is
\* written.
ImplementsConsumer == C!Spec

\* However full the queue is and whatever the handlers do, Subscribe goes on
\* receiving until it is told to stop, and then returns.
KeepsConsumerGoing == C!Fairness
=============================================================================
