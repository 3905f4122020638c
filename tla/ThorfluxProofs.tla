--------------------------- MODULE ThorfluxProofs ---------------------------
(***************************************************************************)
(* Proofs about the whole process, for every size and every order of its   *)
(* goroutines' steps.  Each step of Thorflux is a step of Publisher with   *)
(* an environment it allows; so the publisher's inductive invariant, shown *)
(* in PublisherProofs, holds in the process; and with it each step is also *)
(* one that the subscriber's promise, Consumer, allows.                    *)
(***************************************************************************)
EXTENDS Thorflux, TLAPS

PP == INSTANCE PublisherProofs

USE DEF dbVars, backVars, fwdVars, linkVars, nodeVars, publisherVars, subscriberVars,
        channelVars, P!chanVars, P!backVars, P!fwdVars, P!linkVars, P!nodeVars, P!vars,
        PP!chanVars, PP!backVars, PP!fwdVars, PP!linkVars, PP!nodeVars, PP!vars,
        C!consumerVars, C!vars

-----------------------------------------------------------------------------
(* The publisher in the process.                                           *)

\* The process starts with the publisher in its initial state ...
LEMMA PublisherStarts == Init => P!Init
BY DEF Init

\* ... and each of its steps is one of the publisher, of the node, the reception
\* of an event, the cancellation, or no concern of the publisher's.
LEMMA PublisherStep == [Next]_vars => [P!Next]_P!vars
<1> SUFFICES ASSUME [Next]_vars PROVE [P!Next]_P!vars
    OBVIOUS
<1> USE DEF Publishing
<1>1. CASE Generator
    BY <1>1 DEF Generator, P!Next, P!PublisherNext
<1>2. ASSUME NEW w \in BackWorkers, BackWorker(w) PROVE P!Next
    BY <1>2 DEF BackWorker, P!Next, P!PublisherNext
<1>3. CASE Forward
    BY <1>3 DEF Forward, P!Next, P!PublisherNext
<1>4. CASE PublisherRun
    BY <1>4 DEF PublisherRun, P!Next, P!PublisherNext
<1>5. CASE SubscribeStep
    <2>1. P!Alive /\ UNCHANGED <<publisherVars, chanClosed, ctxDone>>
        BY <1>5 DEF SubscribeStep, C!ConsumerStep, C!Receive, C!Leave, C!Return
    <2>2. CASE C!Receive /\ blockChan' # blockChan
        BY <1>5, <2>1, <2>2 DEF SubscribeStep, C!Receive, P!Consume, P!Next
    <2>3. CASE blockChan' = blockChan
        BY <1>5, <2>1, <2>3 DEF SubscribeStep
    <2> QED BY <1>5, <2>2, <2>3 DEF SubscribeStep, C!ConsumerStep, C!Leave, C!Return
<1>6. ASSUME NEW p \in Writes, WritePoints(p) PROVE UNCHANGED P!vars
    BY <1>6 DEF WritePoints, C!Write
<1>7. CASE NodeStep
    BY <1>7 DEF NodeStep, P!Next
<1>8. CASE StopCancel
    <2>1. CASE ctxDone = TRUE
        BY <1>8, <2>1 DEF StopCancel
    <2>2. CASE ctxDone # TRUE
        BY <1>8, <2>2 DEF StopCancel, P!Cancel, P!Next
    <2> QED BY <2>1, <2>2
<1>9. CASE StopStep \/ ListenerExit \/ Terminated \/ UNCHANGED vars
    BY <1>9 DEF StopStep, StopWait, CloseCancel, CloseFlush, CloseClient, CloseReturn,
                ListenerExit, Terminated, vars
<1> QED BY <1>1, <1>2, <1>3, <1>4, <1>5, <1>6, <1>7, <1>8, <1>9 DEF Next

\* The two names for the publisher's module mean the same.
LEMMA SameInit == P!Init => PP!Init
BY DEF P!Init, PP!Init, P!PublisherInit, PP!PublisherInit

\* They agree on the window ...
LEMMA SameWindow ==
    P!Lowest = PP!Lowest /\ P!Window = PP!Window /\ P!Heights = PP!Heights /\ P!Event = PP!Event
BY DEF P!Lowest, PP!Lowest, P!MinBlock, PP!MinBlock, P!Sub32, PP!Sub32, P!Window, PP!Window, P!Generated, PP!Generated, P!UInt, PP!UInt, P!Heights, PP!Heights, P!Event, PP!Event

\* ... and on what a step may do.
LEMMA SameNext == [P!Next]_P!vars => [PP!Next]_PP!vars
<1> USE SameWindow
<1>1. P!Alive <=> PP!Alive
    BY DEF P!Alive, PP!Alive
<1>2. P!GeneratorStep => PP!GeneratorStep
    BY DEF P!GeneratorStep, PP!GeneratorStep, P!GenerateHeight, PP!GenerateHeight, P!GenerateEnd, PP!GenerateEnd, P!BackwardReturn, PP!BackwardReturn, P!InLoop, PP!InLoop
<1>3. ASSUME NEW w \in BackWorkers PROVE P!BackWorkerStep(w) => PP!BackWorkerStep(w)
    BY DEF P!BackWorkerStep, PP!BackWorkerStep, P!TakeHeight, PP!TakeHeight, P!WorkerExit, PP!WorkerExit, P!ProcessHeight, PP!ProcessHeight, P!SendHeight, PP!SendHeight, P!SendBlock, PP!SendBlock
<1>4. P!ForwardStep => PP!ForwardStep
    BY DEF P!ForwardStep, PP!ForwardStep, P!ForwardLoop, PP!ForwardLoop, P!FetchLinked, PP!FetchLinked, P!FetchForked, PP!FetchForked, P!FetchNotFound, PP!FetchNotFound, P!ForwardRetry, PP!ForwardRetry, P!DatabaseAhead, PP!DatabaseAhead, P!FetchFinalized, PP!FetchFinalized, P!FinalizedFails, PP!FinalizedFails, P!RetryFinalized, PP!RetryFinalized, P!SendFork, PP!SendFork, P!ProcessForward, PP!ProcessForward, P!SendForward, PP!SendForward, P!SendForwardCancelled, PP!SendForwardCancelled, P!SendBlock, PP!SendBlock
<1>5. P!RunClose => PP!RunClose
    BY DEF P!RunClose, PP!RunClose
<1>6. P!PublisherNext => PP!PublisherNext
    BY <1>1, <1>2, <1>3, <1>4, <1>5 DEF P!PublisherNext, PP!PublisherNext
<1>7. P!NodeNext => PP!NodeNext
    BY DEF P!NodeNext, PP!NodeNext, P!NewBlock, PP!NewBlock, P!Finalize, PP!Finalize, P!Reorganise, PP!Reorganise
<1>8. (P!Consume => PP!Consume) /\ (P!Cancel => PP!Cancel) /\ (P!Terminated => PP!Terminated)
    BY <1>1 DEF P!Consume, PP!Consume, P!Cancel, PP!Cancel, P!Terminated, PP!Terminated
<1> QED BY <1>6, <1>7, <1>8 DEF P!Next, PP!Next

\* The process does nothing the publisher does not allow of its environment.
THEOREM PublisherRefined == Spec => P!Spec
<1>1. Init => P!Init
    BY PublisherStarts
<1>2. [Next]_vars => [P!Next]_P!vars
    BY PublisherStep
<1> QED BY <1>1, <1>2, PTL DEF Spec, P!Spec

\* Publisher's assumptions hold of the process's constants.
LEMMA PublisherAssumptions ==
    /\ PP!WidthAssumption /\ PP!BackWorkersAssumption
    /\ PP!PublisherSizesAssumption /\ PP!PublisherHeightsAssumption
BY ThorfluxAssumption DEF PP!UInt

\* So its inductive invariant holds in the process.
THEOREM PublisherInvariant == Spec => []PP!IndInv
<1>1. Init => PP!Init
    BY PublisherStarts, SameInit
<1>2. [Next]_vars => [PP!Next]_PP!vars
    BY PublisherStep, SameNext
<1>3. Spec => PP!Spec
    BY <1>1, <1>2, PTL DEF Spec, PP!Spec
<1> QED BY <1>3, PublisherAssumptions, PP!Invariance, PTL

-----------------------------------------------------------------------------
(* The subscriber in the process.                                          *)

\* The process starts with the subscriber in its initial state.
LEMMA SubscriberStarts == Init => C!Init
BY DEF Init, P!Init, P!PublisherInit, C!Init

\* A send of the publisher is one the subscriber expects: the channel is open and
\* has room, and carries an event.
LEMMA SendExpected ==
    ASSUME NEW e \in P!Event, P!SendBlock(e), ~chanClosed,
           UNCHANGED <<ctxDone, consumer, written>>
    PROVE  C!Next
<1>1. Len(blockChan) < ChanSize /\ blockChan' = Append(blockChan, e) /\ UNCHANGED chanClosed
    BY DEF P!SendBlock
<1> QED BY <1>1 DEF C!Next, C!Environment

\* Each step of the process is one of the subscriber or of an environment that
\* the subscriber's promise allows.
LEMMA SubscriberStep == PP!IndInv /\ [Next]_vars => [C!Next]_C!vars
<1> SUFFICES ASSUME PP!IndInv, [Next]_vars PROVE [C!Next]_C!vars
    OBVIOUS
<1> USE DEF Publishing
<1>1. CASE Generator
    BY <1>1 DEF Generator, P!GeneratorStep, P!GenerateHeight, P!GenerateEnd, P!BackwardReturn
<1>2. ASSUME NEW w \in BackWorkers, BackWorker(w) PROVE [C!Next]_C!vars
    <2>1. CASE P!SendHeight(w)
        <3>1. worker[w] = "send" /\ height[w] \in P!Window /\ ~chanClosed
            BY <2>1, SameWindow DEF P!SendHeight, PP!IndInv, PP!SyncersFollowRun
        <3>2. <<"back", height[w]>> \in P!Event
            BY <3>1 DEF P!Event
        <3> QED BY <1>2, <2>1, <3>1, <3>2, SendExpected DEF BackWorker, P!SendHeight
    <2>2. CASE P!TakeHeight(w) \/ P!WorkerExit(w) \/ P!ProcessHeight(w)
        BY <1>2, <2>2 DEF BackWorker, P!TakeHeight, P!WorkerExit, P!ProcessHeight
    <2> QED BY <1>2, <2>1, <2>2 DEF BackWorker, P!BackWorkerStep
<1>3. CASE Forward
    <2>1. prev \in P!Heights /\ finalized \in P!Heights /\ MaxNum \in Nat
        BY SameWindow, ThorfluxAssumption DEF PP!IndInv, PP!TypeOK
    <2>2. CASE P!SendFork
        <3>1. ~chanClosed
            BY <2>2 DEF P!SendFork, PP!IndInv, PP!SyncersFollowRun
        <3>2. <<"fork", finalized>> \in P!Event
            BY <2>1 DEF P!Event
        <3> QED BY <1>3, <2>2, <3>1, <3>2, SendExpected DEF Forward, P!SendFork
    <2>3. CASE P!SendForward
        <3>1. ~chanClosed /\ prev < MaxNum
            BY <2>3 DEF P!SendForward, PP!IndInv, PP!SyncersFollowRun
        <3>2. prev + 1 \in P!Heights
            BY <2>1, <3>1 DEF P!Heights
        <3>3. <<"forward", prev + 1>> \in P!Event
            BY <3>2 DEF P!Event
        <3> QED BY <1>3, <2>3, <3>1, <3>3, SendExpected DEF Forward, P!SendForward
    <2>4. CASE ~P!SendFork /\ ~P!SendForward
        BY <1>3, <2>4
        DEF Forward, P!ForwardStep, P!ForwardLoop, P!FetchLinked, P!FetchForked,
            P!FetchNotFound, P!ForwardRetry, P!DatabaseAhead, P!FetchFinalized,
            P!FinalizedFails, P!RetryFinalized,
            P!ProcessForward, P!SendForwardCancelled
    <2> QED BY <2>2, <2>3, <2>4
<1>4. CASE PublisherRun
    BY <1>4 DEF PublisherRun, P!RunClose, C!Next, C!Environment
<1>5. CASE SubscribeStep
    BY <1>5 DEF SubscribeStep, C!Next
<1>6. ASSUME NEW p \in Writes, WritePoints(p) PROVE C!Next
    BY <1>6 DEF WritePoints, C!Next
<1>7. CASE NodeStep
    BY <1>7 DEF NodeStep
<1>8. CASE StopCancel
    <2>1. CASE ctxDone = TRUE
        BY <1>8, <2>1 DEF StopCancel
    <2>2. CASE ctxDone # TRUE
        BY <1>8, <2>2 DEF StopCancel, C!Environment, C!Next
    <2> QED BY <2>1, <2>2
<1>9. CASE StopStep \/ ListenerExit \/ Terminated \/ UNCHANGED vars
    BY <1>9 DEF StopStep, StopWait, CloseCancel, CloseFlush, CloseClient, CloseReturn,
                ListenerExit, Terminated, vars
<1> QED BY <1>1, <1>2, <1>3, <1>4, <1>5, <1>6, <1>7, <1>8, <1>9 DEF Next

\* The composition is sound: each component is what the other takes for its
\* environment, so that what was shown of each alone holds in the process.
THEOREM ComponentsRefined == Spec => ImplementsComponents
<1>1. Init => C!Init
    BY SubscriberStarts
<1>2. PP!IndInv /\ [Next]_vars => [C!Next]_C!vars
    BY SubscriberStep
<1>3. Spec => C!Spec
    BY <1>1, <1>2, PublisherInvariant, PTL DEF Spec, C!Spec
<1> QED BY <1>3, PublisherRefined DEF ImplementsComponents

-----------------------------------------------------------------------------
(* Stop.                                                                   *)

\* Stop closes the client of the database only over a quiet system and an empty
\* write buffer, whoever returned first.
THEOREM ClosedQuietly == Spec => []NothingAfterClose
<1>1. Init => StopInOrder
    BY DEF Init, StopInOrder
<1>2. StopInOrder /\ [Next]_vars => StopInOrder'
    <2> SUFFICES ASSUME StopInOrder, [Next]_vars PROVE StopInOrder'
        OBVIOUS
    <2> USE DEF StopInOrder
    <2>1. CASE UNCHANGED <<cmd, consumer, buffered, clientClosed>>
        BY <2>1
    <2>2. CASE Generator \/ (\E w \in BackWorkers : BackWorker(w)) \/ Forward \/ PublisherRun
        BY <2>1, <2>2 DEF Generator, BackWorker, Forward, PublisherRun, Publishing
    <2>3. CASE SubscribeStep
        BY <2>3 DEF SubscribeStep, C!ConsumerStep, C!Receive, C!Leave, C!Return
    <2>4. ASSUME NEW p \in Writes, WritePoints(p) PROVE StopInOrder'
        BY <2>4 DEF WritePoints, C!Write
    <2>5. CASE NodeStep \/ ListenerExit \/ Terminated \/ UNCHANGED vars
        BY <2>1, <2>5 DEF NodeStep, ListenerExit, Terminated, vars
    <2>6. CASE StopCancel \/ StopWait
        BY <2>6 DEF StopCancel, StopWait
    <2>7. CASE CloseCancel \/ CloseFlush \/ CloseClient \/ CloseReturn
        BY <2>7 DEF CloseCancel, CloseFlush, CloseClient, CloseReturn
    <2> QED BY <2>2, <2>3, <2>4, <2>5, <2>6, <2>7 DEF Next, StopStep
<1>3. StopInOrder => NothingAfterClose
    BY DEF StopInOrder, NothingAfterClose
<1> QED BY <1>1, <1>2, <1>3, PTL DEF Spec
=============================================================================
