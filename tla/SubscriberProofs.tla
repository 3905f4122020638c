-------------------------- MODULE SubscriberProofs --------------------------
(***************************************************************************)
(* Proofs about Subscriber, for any number of workers, handlers, events    *)
(* and any channel capacities.  IndInv is shown to be inductive; the       *)
(* invariants the runs check follow from it.                               *)
(***************************************************************************)
EXTENDS Subscriber, ChannelLemmas

USE DEF poolVars, subVars

-----------------------------------------------------------------------------
(* The set of running tasks.                                               *)

\* A worker that takes a task adds it to the running ones (TakeTask).
LEMMA BusyTake ==
    ASSUME NEW w \in Workers, NEW T, running \in [Workers -> SUBSET Tasks],
           running[w] = {}, running' = [running EXCEPT ![w] = T]
    PROVE  Busy' = Busy \cup T
<1>1. \A v \in Workers : running'[v] = IF v = w THEN T ELSE running[v]
    OBVIOUS
<1>2. ASSUME NEW t PROVE t \in Busy' <=> \E v \in Workers : t \in running'[v]
    BY DEF Busy
<1>3. ASSUME NEW t PROVE t \in Busy <=> \E v \in Workers : t \in running[v]
    BY DEF Busy
<1>4. ASSUME NEW t PROVE t \in Busy' <=> t \in Busy \cup T
    BY <1>1, <1>2, <1>3
<1> QED BY <1>4

\* A worker that ends its task takes it from the running ones (CompleteTask and
\* PanicTask): no other worker has it.
LEMMA BusyEnd ==
    ASSUME NEW w \in Workers, running \in [Workers -> SUBSET Tasks],
           \A u, v \in Workers : u # v => running[u] \cap running[v] = {},
           running' = [running EXCEPT ![w] = {}]
    PROVE  Busy' = Busy \ running[w]
<1>1. \A v \in Workers : running'[v] = IF v = w THEN {} ELSE running[v]
    OBVIOUS
<1>2. ASSUME NEW t PROVE t \in Busy' <=> \E v \in Workers : t \in running'[v]
    BY DEF Busy
<1>3. ASSUME NEW t PROVE t \in Busy <=> \E v \in Workers : t \in running[v]
    BY DEF Busy
<1>4. ASSUME NEW t PROVE t \in Busy' <=> t \in Busy \ running[w]
    BY <1>1, <1>2, <1>3
<1> QED BY <1>4

\* A running task of a worker is a running task.
LEMMA BusyMember ==
    ASSUME NEW w \in Workers
    PROVE  running[w] \subseteq Busy
BY DEF Busy

-----------------------------------------------------------------------------
(* The inductive invariant.                                                *)

\* NewSubscriber and NewWorkerPool establish the invariant.
LEMMA InitInv == Init => IndInv
<1> SUFFICES ASSUME Init PROVE IndInv
    OBVIOUS
<1> USE DEF Init, SubscribeInit, PoolInit
<1>1. TypeOK
    <2>1. <<>> \in Seq(Tasks) /\ <<>> \in Seq(Events) /\ Len(<<>>) = 0
        BY EmptySeq
    <2>2. 0 <= QueueSize /\ 0 <= ChanSize
        BY QueueSizeAssumption, ChanSizeAssumption
    <2>3. PoolTypeOK
        BY <2>1, <2>2 DEF PoolTypeOK
    <2>4. blockChan \in Seq(Events) /\ Len(blockChan) <= ChanSize
        BY <2>1, <2>2
    <2> QED BY <2>3, <2>4 DEF TypeOK, SubStates
<1>2. Queued = {} /\ Busy = {} /\ Created = {} /\ ToSet(blockChan) = {}
    BY EmptyContent DEF Queued, Busy, Created
<1>3. NoTaskLost /\ NoTaskTwice
    BY <1>2, EmptyContent DEF NoTaskLost, NoTaskTwice
<1>4. SubmitNeverFails /\ PoolFollowsSubscribe
    BY DEF SubmitNeverFails, PoolFollowsSubscribe
<1>5. EventsOnce
    BY <1>2, EmptyContent DEF EventsOnce
<1> QED BY <1>1, <1>3, <1>4, <1>5 DEF IndInv

\* A worker takes a task from the queue.
LEMMA TakeTaskInv ==
    ASSUME IndInv, NEW w \in Workers, TakeTask(w),
           UNCHANGED <<subVars, blockChan, chanClosed, ctxDone, unpublished>>
    PROVE  IndInv'
<1> USE DEF IndInv, TakeTask, Selecting
<1> DEFINE h == Head(taskQueue)
<1>1. running \in [Workers -> SUBSET Tasks] /\ taskQueue \in Seq(Tasks) /\ Len(taskQueue) <= QueueSize
    BY DEF TypeOK, PoolTypeOK
<1>2. /\ h \in Tasks /\ Tail(taskQueue) \in Seq(Tasks)
      /\ Len(Tail(taskQueue)) = Len(taskQueue) - 1
      /\ ToSet(taskQueue) = ToSet(Tail(taskQueue)) \cup {h}
    BY <1>1, ReceiveContent
<1>3. IsInjective(Tail(taskQueue)) /\ h \notin ToSet(Tail(taskQueue))
    BY <1>1, ReceiveInjective DEF NoTaskTwice
<1>4. Queued' = Queued \ {h} /\ h \in Queued
    BY <1>2, <1>3 DEF Queued
<1>5. Busy' = Busy \cup {h}
    BY <1>1, BusyTake
<1>6. Created' = Created
    BY DEF Created
<1>7. TypeOK'
    <2>1. Len(taskQueue) \in Nat
        BY <1>1
    <2>2. taskQueue' \in Seq(Tasks) /\ Len(taskQueue') <= QueueSize
        BY <1>1, <1>2, <2>1, QueueSizeAssumption
    <2>3. running' \in [Workers -> SUBSET Tasks]
        BY <1>1, <1>2
    <2> QED BY <2>2, <2>3 DEF TypeOK, PoolTypeOK
<1>8. NoTaskLost'
    BY <1>4, <1>5, <1>6 DEF NoTaskLost
<1>9. NoTaskTwice'
    <2>1. \A v \in Workers : h \notin running[v]
        BY <1>4, BusyMember DEF NoTaskTwice
    <2>2. \A u, v \in Workers : u # v => running'[u] \cap running'[v] = {}
        BY <1>1, <2>1 DEF NoTaskTwice
    <2> QED BY <1>3, <1>4, <1>5, <2>2 DEF NoTaskTwice
<1>10. PoolFollowsSubscribe'
    <2>1. \A v \in exited : running'[v] = {}
        BY <1>1 DEF PoolFollowsSubscribe
    <2> QED BY <2>1 DEF PoolFollowsSubscribe, AllExited
<1> QED BY <1>7, <1>8, <1>9, <1>10 DEF SubmitNeverFails, EventsOnce

\* A worker returns.
LEMMA ExitInv ==
    ASSUME IndInv, NEW w \in Workers, ExitOnDone(w) \/ ExitOnClosed(w),
           UNCHANGED <<subVars, blockChan, chanClosed, ctxDone, unpublished>>
    PROVE  IndInv'
<1> USE DEF IndInv, ExitOnDone, ExitOnClosed, Selecting
<1>1. Queued' = Queued /\ Busy' = Busy /\ Created' = Created
    BY DEF Queued, Busy, Created
<1>2. TypeOK'
    BY DEF TypeOK, PoolTypeOK
<1>3. NoTaskLost' /\ NoTaskTwice'
    BY <1>1 DEF NoTaskLost, NoTaskTwice
<1>4. PoolFollowsSubscribe'
    <2>1. AllExited => exited' = Workers
        BY DEF AllExited
    <2> QED BY <2>1 DEF PoolFollowsSubscribe, AllExited
<1> QED BY <1>2, <1>3, <1>4 DEF SubmitNeverFails, EventsOnce

\* A worker ends its task, by writing its points or by recovering from a panic.
LEMMA EndTaskInv ==
    ASSUME IndInv, NEW w \in Workers, CompleteTask(w) \/ PanicTask(w),
           UNCHANGED <<subVars, blockChan, chanClosed, ctxDone, unpublished>>
    PROVE  IndInv'
<1> USE DEF IndInv, CompleteTask, PanicTask
<1>1. running \in [Workers -> SUBSET Tasks] /\ running[w] \in SUBSET Tasks
    BY DEF TypeOK, PoolTypeOK
<1>2. running' = [running EXCEPT ![w] = {}]
    OBVIOUS
<1>3. Busy' = Busy \ running[w]
    BY <1>1, <1>2, BusyEnd DEF NoTaskTwice
<1>4. running[w] \subseteq Busy
    BY BusyMember
<1>5. Queued' = Queued /\ Created' = Created /\ batch' = batch
    BY DEF Queued, Created
<1>6. \/ written' = written \cup running[w] /\ recovered' = recovered
      \/ recovered' = recovered \cup running[w] /\ written' = written
    OBVIOUS
<1>7. TypeOK'
    <2>1. running' \in [Workers -> SUBSET Tasks]
        BY <1>1, <1>2
    <2>2. written' \in SUBSET Tasks /\ recovered' \in SUBSET Tasks
        BY <1>1, <1>6 DEF TypeOK, PoolTypeOK
    <2> QED BY <2>1, <2>2 DEF TypeOK, PoolTypeOK
<1>8. NoTaskLost'
    BY <1>3, <1>4, <1>5, <1>6 DEF NoTaskLost
<1>9. NoTaskTwice'
    <2>1. \A u, v \in Workers : u # v => running'[u] \cap running'[v] = {}
        BY <1>1, <1>2 DEF NoTaskTwice
    <2>2. IsInjective(taskQueue')
        BY DEF NoTaskTwice
    <2> QED BY <1>3, <1>4, <1>5, <1>6, <2>1, <2>2 DEF NoTaskTwice
<1>10. PoolFollowsSubscribe'
    <2>1. \A v \in exited : running'[v] = {}
        BY <1>1, <1>2 DEF PoolFollowsSubscribe, TypeOK, PoolTypeOK
    <2> QED BY <2>1 DEF PoolFollowsSubscribe, AllExited
<1> QED BY <1>7, <1>8, <1>9, <1>10 DEF SubmitNeverFails, EventsOnce

\* Subscribe leaves its loop, or SubmitBatch returns: only its position changes.
LEMMA LeaveInv ==
    ASSUME IndInv, SelectDone \/ SelectClosed \/ SubmitReturn,
           UNCHANGED <<ctxDone, unpublished>>
    PROVE  IndInv'
<1> USE DEF IndInv, SelectDone, SelectClosed, SubmitReturn
<1>1. Queued' = Queued /\ Busy' = Busy /\ Created' = Created
    BY DEF Queued, Busy, Created
<1>2. TypeOK'
    BY DEF TypeOK, PoolTypeOK, SubStates
<1>3. NoTaskLost' /\ NoTaskTwice'
    BY <1>1 DEF NoTaskLost, NoTaskTwice
<1> QED BY <1>2, <1>3 DEF SubmitNeverFails, PoolFollowsSubscribe, EventsOnce

\* What receiving an event does to the channel.
LEMMA ReceiveEvent ==
    ASSUME IndInv, blockChan # <<>>, blockChan' = Tail(blockChan),
           received' = received \cup {Head(blockChan)}, UNCHANGED unpublished
    PROVE  /\ Head(blockChan) \in Events \ received
           /\ blockChan' \in Seq(Events) /\ Len(blockChan') <= ChanSize
           /\ received' \in SUBSET Events
           /\ EventsOnce'
<1> DEFINE h == Head(blockChan)
<1>1. blockChan \in Seq(Events) /\ Len(blockChan) <= ChanSize /\ received \in SUBSET Events
    BY DEF IndInv, TypeOK
<1>2. /\ h \in Events /\ h \in ToSet(blockChan) /\ blockChan' \in Seq(Events)
      /\ Len(blockChan') = Len(blockChan) - 1
      /\ ToSet(blockChan) = ToSet(blockChan') \cup {h}
    BY <1>1, ReceiveContent
<1>3. IsInjective(blockChan') /\ h \notin ToSet(blockChan')
    BY <1>1, ReceiveInjective DEF IndInv, EventsOnce
<1>4. Len(blockChan) \in Nat
    BY <1>1
<1>5. h \notin received
    BY <1>2 DEF IndInv, EventsOnce
<1>6. EventsOnce'
    BY <1>2, <1>3 DEF IndInv, EventsOnce
<1> QED BY <1>1, <1>2, <1>4, <1>5, <1>6, ChanSizeAssumption

\* A fork event creates no task.
LEMMA ReceiveForkInv ==
    ASSUME IndInv, ReceiveFork, UNCHANGED <<ctxDone, unpublished>>
    PROVE  IndInv'
<1> USE DEF IndInv, ReceiveFork
<1> DEFINE h == Head(blockChan)
<1>1. /\ h \in Events \ received
      /\ blockChan' \in Seq(Events) /\ Len(blockChan') <= ChanSize
      /\ received' \in SUBSET Events
      /\ EventsOnce'
    BY ReceiveEvent
<1>2. Queued' = Queued /\ Busy' = Busy
    BY DEF Queued, Busy
<1>3. Created' = Created
    <2>1. \A t \in Tasks : t[1] \in Events \ ForkEvents
        BY TasksAssumption
    <2> QED BY <2>1 DEF Created
<1>4. TypeOK'
    BY <1>1 DEF TypeOK, PoolTypeOK
<1>5. NoTaskLost' /\ NoTaskTwice'
    BY <1>2, <1>3 DEF NoTaskLost, NoTaskTwice
<1> QED BY <1>1, <1>4, <1>5 DEF SubmitNeverFails, PoolFollowsSubscribe

\* A block event creates its tasks, which exist nowhere yet.
LEMMA ReceiveBlockInv ==
    ASSUME IndInv, ReceiveBlock, UNCHANGED <<ctxDone, unpublished>>
    PROVE  IndInv'
<1> USE DEF IndInv
<1> DEFINE h == Head(blockChan)
<1>1. /\ h \in Events \ received
      /\ blockChan' \in Seq(Events) /\ Len(blockChan') <= ChanSize
      /\ received' \in SUBSET Events
      /\ EventsOnce'
    BY ReceiveEvent DEF ReceiveBlock
<1>2. /\ sub = "select" /\ sub' = "submit" /\ batch = {} /\ batch' = TasksOf(h)
      /\ received' = received \cup {h} /\ UNCHANGED <<poolVars, refused>>
    BY DEF ReceiveBlock, PoolFollowsSubscribe
<1>3. Queued' = Queued /\ Busy' = Busy
    BY <1>2 DEF Queued, Busy
<1>4. Created' = Created \cup TasksOf(h) /\ Created \cap TasksOf(h) = {}
    BY <1>1, <1>2 DEF Created, TasksOf
<1>5. TypeOK'
    BY <1>1, <1>2 DEF TypeOK, PoolTypeOK, SubStates, TasksOf, ReceiveBlock
<1>6. NoTaskLost'
    BY <1>2, <1>3, <1>4 DEF NoTaskLost
<1>7. NoTaskTwice'
    BY <1>2, <1>3, <1>4 DEF NoTaskTwice, NoTaskLost
<1> QED BY <1>1, <1>2, <1>5, <1>6, <1>7 DEF SubmitNeverFails, PoolFollowsSubscribe

\* SubmitBatch queues one task: neither of its error returns is reachable.
LEMMA SubmitTaskInv ==
    ASSUME IndInv, NEW t \in Tasks, SubmitTask(t), UNCHANGED <<ctxDone, unpublished>>
    PROVE  IndInv'
<1> USE DEF IndInv
<1>1. sub = "submit" /\ t \in batch /\ ~isShutdown /\ ~poolDone /\ ~queueClosed
    BY DEF SubmitTask, PoolFollowsSubscribe
<1>2. /\ Len(taskQueue) < QueueSize /\ taskQueue' = Append(taskQueue, t)
      /\ batch' = batch \ {t}
      /\ UNCHANGED <<sub, refused, received, blockChan, chanClosed>>
      /\ UNCHANGED <<queueClosed, poolDone, isShutdown, running, exited, written, recovered>>
    BY <1>1 DEF SubmitTask, ReadyArms, Enqueue
<1>3. taskQueue \in Seq(Tasks)
    BY DEF TypeOK, PoolTypeOK
<1>4. /\ taskQueue' \in Seq(Tasks) /\ Len(taskQueue') = Len(taskQueue) + 1
      /\ Queued' = Queued \cup {t}
    BY <1>2, <1>3, SendContent DEF Queued
<1>5. IsInjective(taskQueue')
    <2>1. t \notin ToSet(taskQueue) /\ IsInjective(taskQueue)
        BY <1>1 DEF NoTaskTwice, Queued
    <2> QED BY <1>2, <1>3, <2>1, SendInjective
<1>6. Busy' = Busy /\ Created' = Created
    BY <1>2 DEF Busy, Created
<1>7. TypeOK'
    <2>1. Len(taskQueue') <= QueueSize
        BY <1>2, <1>3, <1>4, QueueSizeAssumption
    <2> QED BY <1>2, <1>4, <2>1 DEF TypeOK, PoolTypeOK
<1>8. NoTaskLost'
    BY <1>1, <1>2, <1>4, <1>6 DEF NoTaskLost
<1>9. NoTaskTwice'
    BY <1>1, <1>2, <1>4, <1>5, <1>6 DEF NoTaskTwice
<1> QED BY <1>1, <1>2, <1>7, <1>8, <1>9
        DEF SubmitNeverFails, PoolFollowsSubscribe, EventsOnce, AllExited

\* The three parts of Shutdown.
LEMMA ShutdownInv ==
    ASSUME IndInv, Shutdown \/ ShutdownCloseQueue \/ ShutdownWait,
           UNCHANGED <<ctxDone, unpublished>>
    PROVE  IndInv'
<1> USE DEF IndInv, Shutdown, ShutdownCloseQueue, ShutdownWait, ShutdownCancel, ShutdownClose
<1>1. Queued' = Queued /\ Busy' = Busy /\ Created' = Created
    BY DEF Queued, Busy, Created
<1>2. TypeOK'
    BY DEF TypeOK, PoolTypeOK, SubStates
<1>3. NoTaskLost' /\ NoTaskTwice'
    BY <1>1 DEF NoTaskLost, NoTaskTwice
<1> QED BY <1>2, <1>3 DEF SubmitNeverFails, PoolFollowsSubscribe, EventsOnce, AllExited

\* The publisher sends an event it has not sent before, or closes the channel, and
\* the context may be cancelled.
LEMMA EnvironmentInv ==
    ASSUME IndInv, (\E e \in Events : Publish(e)) \/ PublisherCloses \/ Cancel
    PROVE  IndInv'
<1> USE DEF IndInv
<1>1. ASSUME NEW e \in Events, Publish(e) PROVE IndInv'
    <2>1. blockChan \in Seq(Events) /\ Len(blockChan) < ChanSize /\ Len(blockChan) \in Nat
        BY <1>1 DEF Publish, TypeOK
    <2>2. /\ blockChan' \in Seq(Events) /\ Len(blockChan') = Len(blockChan) + 1
          /\ ToSet(blockChan') = ToSet(blockChan) \cup {e}
        BY <1>1, <2>1, SendContent DEF Publish
    <2>3. IsInjective(blockChan')
        BY <1>1, <2>1, SendInjective DEF Publish, EventsOnce
    <2>4. UNCHANGED <<poolVars, subVars, chanClosed, ctxDone>> /\ unpublished' = unpublished \ {e}
        BY <1>1 DEF Publish
    <2>5. TypeOK'
        BY <2>1, <2>2, <2>4, ChanSizeAssumption DEF TypeOK, PoolTypeOK
    <2>6. EventsOnce'
        BY <1>1, <2>2, <2>3, <2>4 DEF EventsOnce, Publish
    <2>7. NoTaskLost' /\ NoTaskTwice'
        BY <2>4 DEF NoTaskLost, NoTaskTwice, Queued, Busy, Created
    <2> QED BY <2>4, <2>5, <2>6, <2>7 DEF SubmitNeverFails, PoolFollowsSubscribe, AllExited
<1>2. ASSUME PublisherCloses \/ Cancel PROVE IndInv'
    <2>1. UNCHANGED <<poolVars, subVars, blockChan, unpublished>> /\ chanClosed' \in BOOLEAN /\ ctxDone' \in BOOLEAN
        BY <1>2 DEF PublisherCloses, Cancel, TypeOK
    <2>2. TypeOK'
        BY <2>1 DEF TypeOK, PoolTypeOK
    <2>3. NoTaskLost' /\ NoTaskTwice'
        BY <2>1 DEF NoTaskLost, NoTaskTwice, Queued, Busy, Created
    <2> QED BY <2>1, <2>2, <2>3 DEF SubmitNeverFails, PoolFollowsSubscribe, EventsOnce, AllExited
<1> QED BY <1>1, <1>2

\* Every step preserves the invariant.
LEMMA NextInv == IndInv /\ [Next]_vars => IndInv'
<1> SUFFICES ASSUME IndInv, [Next]_vars PROVE IndInv'
    OBVIOUS
<1>1. CASE SubscribeStep /\ UNCHANGED <<ctxDone, unpublished>>
    BY <1>1, LeaveInv, ReceiveForkInv, ReceiveBlockInv, SubmitTaskInv, ShutdownInv
    DEF SubscribeStep
<1>2. ASSUME NEW w \in Workers, PoolStep(w), UNCHANGED <<ctxDone, unpublished>>
      PROVE  IndInv'
    BY <1>2, TakeTaskInv, ExitInv, EndTaskInv DEF PoolStep, WorkerStep
<1>3. CASE (\E e \in Events : Publish(e)) \/ PublisherCloses \/ Cancel
    BY <1>3, EnvironmentInv
<1>4. CASE UNCHANGED vars
    <2>1. Queued' = Queued /\ Busy' = Busy /\ Created' = Created
        BY <1>4 DEF Queued, Busy, Created, vars
    <2>2. NoTaskLost' /\ NoTaskTwice'
        BY <1>4, <2>1 DEF NoTaskLost, NoTaskTwice, vars, IndInv
    <2>3. TypeOK'
        BY <1>4 DEF IndInv, TypeOK, PoolTypeOK, vars
    <2> QED BY <1>4, <2>2, <2>3
            DEF vars, IndInv, SubmitNeverFails, PoolFollowsSubscribe, EventsOnce, AllExited
<1> QED BY <1>1, <1>2, <1>3, <1>4 DEF Next, SubscribeNext, Terminated

\* The inductive invariant holds in every reachable state of the subscriber.
THEOREM Invariance == Spec => []IndInv
<1>1. Init => IndInv
    BY InitInv
<1>2. IndInv /\ [Next]_vars => IndInv'
    BY NextInv
<1> QED BY <1>1, <1>2, PTL DEF Spec

\* Every variable keeps its type, and no channel exceeds its capacity.
THEOREM TypeCorrect == Spec => []TypeOK
<1>1. IndInv => TypeOK
    BY DEF IndInv
<1> QED BY <1>1, Invariance, PTL

\* Between Subscribe and db.WritePoints no task is lost.
THEOREM TasksKept == Spec => []NoTaskLost
<1>1. IndInv => NoTaskLost
    BY DEF IndInv
<1> QED BY <1>1, Invariance, PTL

\* And none runs twice.
THEOREM TasksOnce == Spec => []NoTaskTwice
<1>1. IndInv => NoTaskTwice
    BY DEF IndInv
<1> QED BY <1>1, Invariance, PTL

\* SubmitBatch never returns an error and never sends on the closed queue.
THEOREM SubmitSafe == Spec => []SubmitNeverFails
<1>1. IndInv => SubmitNeverFails
    BY DEF IndInv
<1> QED BY <1>1, Invariance, PTL

\* After Shutdown returned, no handler runs or will run.
THEOREM ShutdownQuiet == Spec => []QuietAfterReturn
<1>1. IndInv => QuietAfterReturn
    BY DEF IndInv, PoolFollowsSubscribe, QuietAfterReturn, AllExited, Busy
<1> QED BY <1>1, Invariance, PTL

-----------------------------------------------------------------------------
(* Subscriber implements Consumer.                                         *)

\* A worker executes one task at a time.
OneTaskEach == \A w \in Workers : running[w] = {} \/ \E t \in Tasks : running[w] = {t}

\* The worker's loop takes one task from the queue and processes it before it
\* comes back to its select.
LEMMA OneTaskInvariance == Spec => []OneTaskEach
<1>1. Init => OneTaskEach
    BY DEF Init, SubscribeInit, PoolInit, OneTaskEach
<1>2. IndInv /\ OneTaskEach /\ [Next]_vars => OneTaskEach'
    <2> SUFFICES ASSUME IndInv, OneTaskEach, [Next]_vars PROVE OneTaskEach'
        OBVIOUS
    <2>1. running \in [Workers -> SUBSET Tasks] /\ taskQueue \in Seq(Tasks)
        BY DEF IndInv, TypeOK, PoolTypeOK
    <2>2. ASSUME NEW w \in Workers, TakeTask(w) PROVE OneTaskEach'
        <3>1. Head(taskQueue) \in Tasks
            BY <2>1, <2>2, ReceiveContent DEF TakeTask
        <3>2. \A v \in Workers : running'[v] = IF v = w THEN {Head(taskQueue)} ELSE running[v]
            BY <2>1, <2>2 DEF TakeTask
        <3> QED BY <3>1, <3>2 DEF OneTaskEach
    <2>3. ASSUME NEW w \in Workers, CompleteTask(w) \/ PanicTask(w) PROVE OneTaskEach'
        <3>1. \A v \in Workers : running'[v] = IF v = w THEN {} ELSE running[v]
            BY <2>1, <2>3 DEF CompleteTask, PanicTask
        <3> QED BY <3>1 DEF OneTaskEach
    <2>4. CASE UNCHANGED running
        BY <2>4 DEF OneTaskEach
    <2>5. \/ UNCHANGED running
          \/ \E w \in Workers : TakeTask(w) \/ CompleteTask(w) \/ PanicTask(w)
        BY DEF Next, SubscribeNext, SubscribeStep, PoolStep, WorkerStep, ExitOnDone, ExitOnClosed,
               SelectDone, SelectClosed, ReceiveFork, ReceiveBlock, SubmitTask, SubmitReturn,
               Shutdown, ShutdownCloseQueue, ShutdownWait, Enqueue, ShutdownCancel, ShutdownClose,
               Publish, PublisherCloses, Cancel, Terminated, vars
    <2> QED BY <2>2, <2>3, <2>4, <2>5
<1> QED BY <1>1, <1>2, Invariance, PTL DEF Spec

\* Where Subscribe is does not change for its caller, nor does what it shares.
SameToCaller == UNCHANGED <<Promised, blockChan, chanClosed, ctxDone, written>>

\* Each step of Subscribe is a step Consumer promises, or none that shows.
LEMMA SubscribeStepMaps ==
    ASSUME IndInv, SubscribeStep, UNCHANGED <<ctxDone, unpublished>>
    PROVE  C!ConsumerStep \/ SameToCaller
<1> USE DEF Promised, C!consumerVars
<1>1. CASE SelectDone \/ SelectClosed
    BY <1>1 DEF SelectDone, SelectClosed, C!ConsumerStep, C!Leave
<1>2. CASE ReceiveFork
    BY <1>2 DEF ReceiveFork, C!ConsumerStep, C!Receive
<1>3. CASE ReceiveBlock
    BY <1>3 DEF ReceiveBlock, C!ConsumerStep, C!Receive
<1>4. ASSUME NEW t \in Tasks, SubmitTask(t) PROVE SameToCaller
    <2>1. sub = "submit" /\ ~queueClosed
        BY <1>4 DEF SubmitTask, IndInv, PoolFollowsSubscribe
    <2> QED BY <1>4, <2>1 DEF SubmitTask, Enqueue, SameToCaller
<1>5. CASE SubmitReturn
    BY <1>5 DEF SubmitReturn, SameToCaller
<1>6. CASE Shutdown \/ ShutdownCloseQueue
    BY <1>6 DEF Shutdown, ShutdownCloseQueue, ShutdownCancel, ShutdownClose, SameToCaller
<1>7. CASE ShutdownWait
    BY <1>7 DEF ShutdownWait, C!ConsumerStep, C!Return
<1> QED BY <1>1, <1>2, <1>3, <1>4, <1>5, <1>6, <1>7 DEF SubscribeStep

\* A worker's step is a write of Consumer, or none that shows: Subscribe has not
\* returned while a handler runs.
LEMMA PoolStepMaps ==
    ASSUME IndInv, OneTaskEach, NEW w \in Workers, PoolStep(w), UNCHANGED <<ctxDone, unpublished>>
    PROVE  (\E p \in Tasks : C!Write(p)) \/ SameToCaller
<1>1. Promised' = Promised /\ UNCHANGED <<blockChan, chanClosed>>
    BY DEF PoolStep, Promised
<1>2. CASE CompleteTask(w)
    <2>1. PICK t \in Tasks : running[w] = {t}
        BY <1>2 DEF CompleteTask, OneTaskEach
    <2>2. written' = written \cup {t}
        BY <1>2, <2>1 DEF CompleteTask
    <2>3. sub # "returned"
        BY <2>1 DEF IndInv, PoolFollowsSubscribe, AllExited
    <2>4. Promised # "returned"
        BY <2>3 DEF Promised
    <2>5. C!Write(t)
        BY <1>1, <2>2, <2>4 DEF C!Write
    <2> QED BY <2>5
<1>3. CASE TakeTask(w) \/ ExitOnDone(w) \/ ExitOnClosed(w) \/ PanicTask(w)
    BY <1>1, <1>3 DEF TakeTask, ExitOnDone, ExitOnClosed, PanicTask, SameToCaller
<1> QED BY <1>2, <1>3 DEF PoolStep, WorkerStep

\* The publisher and the command do what Consumer allows its environment.
LEMMA EnvironmentMaps ==
    ASSUME (\E e \in Events : Publish(e)) \/ PublisherCloses \/ Cancel
    PROVE  C!Environment
<1>1. Promised' = Promised /\ written' = written
    BY DEF Publish, PublisherCloses, Cancel, Promised
<1> QED BY <1>1 DEF Publish, PublisherCloses, Cancel, C!Environment, C!consumerVars

\* Every behaviour of Subscribe and its pool is one that Consumer allows: seen from
\* outside, the pool does not exist.
THEOREM ConsumerRefined == Spec => ImplementsConsumer
<1>1. Init => C!Init
    BY DEF Init, SubscribeInit, PoolInit, C!Init, C!ConsumerInit, Promised
<1>2. IndInv /\ OneTaskEach /\ [Next]_vars => [C!Next]_(C!vars)
    <2> SUFFICES ASSUME IndInv, OneTaskEach, [Next]_vars PROVE [C!Next]_(C!vars)
        OBVIOUS
    <2>1. SameToCaller => UNCHANGED C!vars
        BY DEF SameToCaller, C!vars, C!consumerVars
    <2>2. CASE SubscribeStep /\ UNCHANGED <<ctxDone, unpublished>>
        BY <2>1, <2>2, SubscribeStepMaps DEF C!Next
    <2>3. ASSUME NEW w \in Workers, PoolStep(w), UNCHANGED <<ctxDone, unpublished>>
          PROVE  [C!Next]_(C!vars)
        BY <2>1, <2>3, PoolStepMaps DEF C!Next
    <2>4. CASE (\E e \in Events : Publish(e)) \/ PublisherCloses \/ Cancel
        BY <2>4, EnvironmentMaps DEF C!Next
    <2>5. CASE UNCHANGED vars
        BY <2>1, <2>5 DEF vars, SameToCaller, Promised
    <2> QED BY <2>2, <2>3, <2>4, <2>5 DEF Next, SubscribeNext, Terminated
<1> QED BY <1>1, <1>2, Invariance, OneTaskInvariance, PTL DEF Spec, C!Spec, ImplementsConsumer
=============================================================================
