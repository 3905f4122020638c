----------------------------- MODULE WorkerPool -----------------------------
(***************************************************************************)
(* pubsub/worker_pool.go: the pool of goroutines that runs the statistics  *)
(* handlers.  The pool owns a bounded task queue (a Go channel), a context *)
(* of its own and a shutdown flag.  Its workers leave when they see either *)
(* the cancelled context or the closed and drained queue; Go's select      *)
(* picks at random among the arms that are ready, so a worker that finds   *)
(* both a cancelled context and a queued task may do either.               *)
(*                                                                         *)
(* The goroutine that submits tasks and shuts the pool down is modelled in *)
(* Subscriber; the operations it calls are the last part of this module.   *)
(***************************************************************************)
EXTENDS Naturals, Sequences, SequencesExt

CONSTANTS
    Workers,        \* the goroutines NewWorkerPool starts
    QueueSize,      \* capacity of the taskQueue channel
    Tasks           \* the tasks that can be submitted

ASSUME WorkersAssumption == Workers # {}
ASSUME QueueSizeAssumption == QueueSize \in Nat \ {0}

VARIABLES
    taskQueue,      \* content of the taskQueue channel, oldest task first
    queueClosed,    \* the channel has been closed
    poolDone,       \* wp.ctx has been cancelled
    isShutdown,     \* wp.isShutdown
    running,        \* running[w]: the task worker w executes, as a set of at most one
    exited,         \* the workers whose goroutine returned (wg.Done)
    written,        \* tasks whose points were handed to db.WritePoints
    recovered       \* tasks whose handler panicked and was recovered

poolVars == <<taskQueue, queueClosed, poolDone, isShutdown, running, exited,
              written, recovered>>

PoolTypeOK ==
    /\ taskQueue \in Seq(Tasks)
    /\ Len(taskQueue) <= QueueSize
    /\ queueClosed \in BOOLEAN
    /\ poolDone \in BOOLEAN
    /\ isShutdown \in BOOLEAN
    /\ running \in [Workers -> SUBSET Tasks]
    /\ exited \in SUBSET Workers
    /\ written \in SUBSET Tasks
    /\ recovered \in SUBSET Tasks

\* NewWorkerPool: every worker is started at once and waits in its select.
PoolInit ==
    /\ taskQueue = <<>>
    /\ queueClosed = FALSE
    /\ poolDone = FALSE
    /\ isShutdown = FALSE
    /\ running = [w \in Workers |-> {}]
    /\ exited = {}
    /\ written = {}
    /\ recovered = {}

-----------------------------------------------------------------------------
(* The workers.                                                            *)

\* Worker w is at the top of its loop, blocked in the select.
Selecting(w) == w \notin exited /\ running[w] = {}

\* The select receives a task from the queue, closed or not.
TakeTask(w) ==
    /\ Selecting(w)
    /\ taskQueue # <<>>
    /\ running' = [running EXCEPT ![w] = {Head(taskQueue)}]
    /\ taskQueue' = Tail(taskQueue)
    /\ UNCHANGED <<queueClosed, poolDone, isShutdown, exited, written, recovered>>

\* The select sees the pool's context cancelled: the worker returns, whatever
\* is left in the queue.
ExitOnDone(w) ==
    /\ Selecting(w)
    /\ poolDone
    /\ exited' = exited \cup {w}
    /\ UNCHANGED <<taskQueue, queueClosed, poolDone, isShutdown, running, written, recovered>>

\* The receive reports a closed and drained queue: the worker returns.
ExitOnClosed(w) ==
    /\ Selecting(w)
    /\ queueClosed /\ taskQueue = <<>>
    /\ exited' = exited \cup {w}
    /\ UNCHANGED <<taskQueue, queueClosed, poolDone, isShutdown, running, written, recovered>>

\* processTask: the handler returns and its points go to the database.
CompleteTask(w) ==
    /\ running[w] # {}
    /\ written' = written \cup running[w]
    /\ running' = [running EXCEPT ![w] = {}]
    /\ UNCHANGED <<taskQueue, queueClosed, poolDone, isShutdown, exited, recovered>>

\* Variant of PanicTask: the recover is in the worker's loop, so the worker returns.
PanicEndsWorker(w) ==
    /\ running[w] # {}
    /\ recovered' = recovered \cup running[w]
    /\ running' = [running EXCEPT ![w] = {}]
    /\ exited' = exited \cup {w}
    /\ UNCHANGED <<taskQueue, queueClosed, poolDone, isShutdown, written>>

\* Variant of PanicTask: the failed task goes back to the queue.
PanicRequeues(w) ==
    /\ running[w] # {}
    /\ recovered' = recovered \cup running[w]
    /\ running' = [running EXCEPT ![w] = {}]
    /\ taskQueue' = IF Len(taskQueue) < QueueSize /\ ~queueClosed
                    THEN taskQueue \o SetToSeq(running[w]) ELSE taskQueue
    /\ UNCHANGED <<queueClosed, poolDone, isShutdown, exited, written>>

\* processTask: the handler panics; the deferred recover keeps the worker
\* alive and nothing is written.
PanicTask(w) ==
    /\ running[w] # {}
    /\ recovered' = recovered \cup running[w]
    /\ running' = [running EXCEPT ![w] = {}]
    /\ UNCHANGED <<taskQueue, queueClosed, poolDone, isShutdown, exited, written>>

WorkerStep(w) ==
    \/ TakeTask(w)
    \/ ExitOnDone(w)
    \/ ExitOnClosed(w)
    \/ CompleteTask(w)
    \/ PanicTask(w)

-----------------------------------------------------------------------------
(* What the owner of the pool calls.                                       *)

\* The arms of SubmitBatch's select that are ready.  A send on a closed
\* channel is ready too: it panics.
ReadyArms ==
    {a \in {"send", "done"} :
        \/ a = "send" /\ (queueClosed \/ Len(taskQueue) < QueueSize)
        \/ a = "done" /\ poolDone}

\* The send arm for one task; the caller guarantees the queue is open.
Enqueue(t) ==
    /\ taskQueue' = Append(taskQueue, t)
    /\ UNCHANGED <<queueClosed, poolDone, isShutdown, running, exited, written, recovered>>

\* Shutdown, first part: cancel the context.  The workers see it before the
\* queue is closed.
ShutdownCancel ==
    /\ poolDone' = TRUE
    /\ UNCHANGED <<taskQueue, queueClosed, isShutdown, running, exited, written, recovered>>

\* Shutdown, second part: close the queue and set the flag, still under the lock.
ShutdownClose ==
    /\ queueClosed' = TRUE
    /\ isShutdown' = TRUE
    /\ UNCHANGED <<taskQueue, poolDone, running, exited, written, recovered>>

\* wg.Wait can return.
AllExited == exited = Workers
=============================================================================
