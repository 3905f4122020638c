----------------------------- MODULE Publisher -----------------------------
(***************************************************************************)
(* pubsub/publisher.go, backward_syncer.go and forward_syncer.go: the two  *)
(* syncers that produce block events, the channel they share, and Run,     *)
(* which waits for both and then closes the channel.                       *)
(*                                                                         *)
(* The node is seen through its answers: it has a best and a finalized     *)
(* height, a request may fail, and the block at the next height may or may *)
(* not be a child of the one the forward syncer holds (a fork).  Which     *)
(* blocks these are is modelled in ForkSync.  An event is a pair of its    *)
(* origin and its height.  Thorflux composes this module with the          *)
(* subscriber and the command, and states fairness and liveness.           *)
(***************************************************************************)
EXTENDS SyncWindow, Sequences, SequencesExt

CONSTANTS
    BackWorkers,    \* the backward workers (backwardWorkers of them)
    WorkChanSize,   \* capacity of workChan (2 * backwardWorkers)
    ChanSize,       \* capacity of blockChan (config.DefaultChannelBuffer)
    FirstNum,       \* head of the backward syncer, first.Number
    BackSync,       \* backSyncBlocks, as NewPublisher computed it
    MaxNum,         \* bound: the best height the node reaches
    MaxForks        \* bound: how often the node changes to another branch

ASSUME BackWorkersAssumption == BackWorkers # {}
ASSUME PublisherSizesAssumption ==
    /\ WorkChanSize \in Nat \ {0}
    /\ ChanSize \in Nat \ {0}
ASSUME PublisherHeightsAssumption ==
    /\ FirstNum \in UInt \ {0} /\ BackSync \in UInt
    /\ MaxNum \in Nat /\ MaxNum >= FirstNum
    /\ MaxForks \in Nat

Lowest == MinBlock(FirstNum, BackSync)
Window == Generated(FirstNum, Lowest)
Heights == 0 .. MaxNum
Event == ({"back"} \X Window) \cup ({"forward", "fork"} \X Heights)

VARIABLES
    ctxDone,        \* the context of Run has been cancelled
    blockChan,      \* content of the channel of block events
    chanClosed,     \* Run closed it
    sendPanic,      \* a syncer sent on the closed channel
    gen,            \* BackwardSyncer.Start: "generate", "wait" (for its workers), "returned"
    blockNum,       \* the generator's loop variable
    workChan,       \* content of the channel of heights
    workClosed,     \* Start closed it
    worker,         \* backward worker: "select", "process", "send", "exited"
    height,         \* the height the worker holds
    failed,         \* history: heights ProcessBlock failed for
    fwd,            \* where ForwardSyncer.Start is
    prev,           \* f.prev: number of the last forward block
    finalized,      \* the finalized block fetched after a fork was detected
    nodeBest,       \* the node's best height
    nodeFinalized,  \* the node's finalized height
    forks,          \* environment: changes of branch so far
    prevLinked,     \* environment: prev is on the node's branch
    nextLinked,     \* environment: so is the block fetched after it
    delivered       \* history: backward heights the subscriber received

chanVars == <<blockChan, chanClosed, sendPanic>>
backVars == <<gen, blockNum, workChan, workClosed, worker, height, failed>>
fwdVars == <<fwd, prev, finalized>>
linkVars == <<prevLinked, nextLinked>>
nodeVars == <<nodeBest, nodeFinalized, forks>>
vars == <<ctxDone, chanVars, backVars, fwdVars, linkVars, nodeVars, delivered>>

FwdStates == {"loop", "fetch", "notFound", "finalized", "finalizedFailed", "sendFork",
              "process", "send", "returned", "exit"}

TypeOK ==
    /\ ctxDone \in BOOLEAN
    /\ blockChan \in Seq(Event) /\ Len(blockChan) <= ChanSize
    /\ chanClosed \in BOOLEAN /\ sendPanic \in BOOLEAN
    /\ gen \in {"generate", "wait", "returned"}
    /\ blockNum \in 0 .. FirstNum
    /\ workChan \in Seq(Window) /\ Len(workChan) <= WorkChanSize
    /\ workClosed \in BOOLEAN
    /\ worker \in [BackWorkers -> {"select", "process", "send", "exited"}]
    /\ height \in [BackWorkers -> Heights]
    /\ failed \in SUBSET Window
    /\ fwd \in FwdStates
    /\ prev \in Heights /\ finalized \in Heights
    /\ nodeBest \in Heights /\ nodeFinalized \in Heights
    /\ forks \in 0 .. MaxForks
    /\ prevLinked \in BOOLEAN /\ nextLinked \in BOOLEAN
    /\ delivered \in SUBSET Window

\* NewPublisher and NewBackwardSyncer; Run has started the syncers.  With an end
\* block there is no forward syncer.
PublisherInit ==
    /\ blockChan = <<>> /\ chanClosed = FALSE /\ sendPanic = FALSE
    /\ gen = "generate"
    /\ blockNum = FirstNum
    /\ workChan = <<>> /\ workClosed = FALSE
    /\ worker = [w \in BackWorkers |-> "select"]
    /\ height = [w \in BackWorkers |-> 0]
    /\ failed = {}
    /\ fwd \in {"loop", "returned"}
    /\ prev = FirstNum - 1
    /\ finalized = 0

\* The syncers start from the finalized block, or from block 1 of a chain that
\* has finalized nothing but its genesis block.
Init ==
    /\ PublisherInit
    /\ ctxDone = FALSE
    /\ nodeBest = FirstNum
    /\ nodeFinalized \in {FirstNum} \cup {n \in {0} : FirstNum = 1}
    /\ forks = 0
    /\ prevLinked = TRUE /\ nextLinked = FALSE
    /\ delivered = {}

\* os.Exit ends every goroutine.
Alive == fwd # "exit"

\* A send on blockChan: it blocks when the channel is full, and panics when it
\* is closed.
SendBlock(e) ==
    /\ chanClosed \/ Len(blockChan) < ChanSize
    /\ IF chanClosed
       THEN sendPanic' = TRUE /\ UNCHANGED blockChan
       ELSE blockChan' = Append(blockChan, e) /\ UNCHANGED sendPanic
    /\ UNCHANGED chanClosed

-----------------------------------------------------------------------------
(* BackwardSyncer.Start.                                                   *)

InLoop == blockNum > Lowest /\ blockNum > 0

\* The generator sends the next height.
GenerateHeight ==
    /\ gen = "generate"
    /\ InLoop
    /\ Len(workChan) < WorkChanSize
    /\ workChan' = Append(workChan, blockNum)
    /\ blockNum' = blockNum - 1
    /\ UNCHANGED <<gen, workClosed, worker, height, failed, chanVars>>

\* Variant of GenerateEnd: workChan is closed on cancellation only.
GenerateEndOnCancel ==
    /\ gen = "generate"
    /\ ctxDone
    /\ workClosed' = TRUE
    /\ gen' = "wait"
    /\ UNCHANGED <<blockNum, workChan, worker, height, failed, chanVars>>

\* The loop ends, or the context is cancelled: the deferred function closes
\* workChan and waits.
GenerateEnd ==
    /\ gen = "generate"
    /\ ~InLoop \/ ctxDone
    /\ workClosed' = TRUE
    /\ gen' = "wait"
    /\ UNCHANGED <<blockNum, workChan, worker, height, failed, chanVars>>

\* Variant of BackwardReturn: no wg.Wait.
BackwardReturnAtOnce ==
    /\ gen = "wait"
    /\ gen' = "returned"
    /\ UNCHANGED <<blockNum, workChan, workClosed, worker, height, failed, chanVars>>

BackwardReturn ==
    /\ gen = "wait"
    /\ \A w \in BackWorkers : worker[w] = "exited"
    /\ gen' = "returned"
    /\ UNCHANGED <<blockNum, workChan, workClosed, worker, height, failed, chanVars>>

\* A worker receives a height.
TakeHeight(w) ==
    /\ worker[w] = "select"
    /\ workChan # <<>>
    /\ worker' = [worker EXCEPT ![w] = "process"]
    /\ height' = [height EXCEPT ![w] = Head(workChan)]
    /\ workChan' = Tail(workChan)
    /\ UNCHANGED <<gen, blockNum, workClosed, failed, chanVars>>

\* Variant of WorkerExit: a worker leaves as soon as workChan is closed.
WorkerExitUndrained(w) ==
    /\ \/ worker[w] = "select" /\ workClosed
       \/ worker[w] \in {"select", "send"} /\ ctxDone
    /\ worker' = [worker EXCEPT ![w] = "exited"]
    /\ UNCHANGED <<gen, blockNum, workChan, workClosed, height, failed, chanVars>>

\* Variant of WorkerExit: the send of an event does not look at the context.
WorkerExitAtSelect(w) ==
    /\ worker[w] = "select"
    /\ (workClosed /\ workChan = <<>>) \/ ctxDone
    /\ worker' = [worker EXCEPT ![w] = "exited"]
    /\ UNCHANGED <<gen, blockNum, workChan, workClosed, height, failed, chanVars>>

\* A worker returns: workChan is closed and drained, or the context is
\* cancelled, whatever it holds (a block event about to be sent is dropped).
WorkerExit(w) ==
    /\ \/ worker[w] = "select" /\ workClosed /\ workChan = <<>>
       \/ worker[w] \in {"select", "send"} /\ ctxDone
    /\ worker' = [worker EXCEPT ![w] = "exited"]
    /\ UNCHANGED <<gen, blockNum, workChan, workClosed, height, failed, chanVars>>

\* ProcessBlock returns an event, or fails after its retries: then the height is
\* logged and left out.
ProcessHeight(w) ==
    /\ worker[w] = "process"
    /\ \/ /\ worker' = [worker EXCEPT ![w] = "send"]
          /\ UNCHANGED failed
       \/ /\ worker' = [worker EXCEPT ![w] = "select"]
          /\ failed' = failed \cup {height[w]}
    /\ UNCHANGED <<gen, blockNum, workChan, workClosed, height, chanVars>>

\* Variant of SendHeight: an event that does not fit is dropped.
SendHeightOrDrop(w) ==
    /\ worker[w] = "send"
    /\ IF chanClosed \/ Len(blockChan) < ChanSize
       THEN SendBlock(<<"back", height[w]>>) ELSE UNCHANGED chanVars
    /\ worker' = [worker EXCEPT ![w] = "select"]
    /\ UNCHANGED <<gen, blockNum, workChan, workClosed, height, failed>>

\* Variant of SendHeight: the loop around the send is not left.
SendHeightAgain(w) ==
    /\ worker[w] = "send"
    /\ SendBlock(<<"back", height[w]>>)
    /\ UNCHANGED <<gen, blockNum, workChan, workClosed, worker, height, failed>>

SendHeight(w) ==
    /\ worker[w] = "send"
    /\ SendBlock(<<"back", height[w]>>)
    /\ worker' = [worker EXCEPT ![w] = "select"]
    /\ UNCHANGED <<gen, blockNum, workChan, workClosed, height, failed>>

GeneratorStep == GenerateHeight \/ GenerateEnd \/ BackwardReturn

BackWorkerStep(w) == TakeHeight(w) \/ WorkerExit(w) \/ ProcessHeight(w) \/ SendHeight(w)

-----------------------------------------------------------------------------
(* ForwardSyncer.Start.                                                    *)

\* Top of the loop: return if the context is cancelled, otherwise wait until a
\* block interval has passed and go on to fetch.
ForwardLoop ==
    /\ fwd = "loop"
    /\ fwd' = IF ctxDone THEN "returned" ELSE "fetch"
    /\ UNCHANGED <<prev, finalized, chanVars, linkVars>>

\* The request for block prev + 1 succeeds and its parent is prev.
FetchLinked ==
    /\ fwd = "fetch"
    /\ prev < nodeBest /\ prevLinked
    /\ nextLinked' = TRUE
    /\ fwd' = "process"
    /\ UNCHANGED <<prev, finalized, chanVars, prevLinked>>

\* It succeeds and its parent is another block: a fork is detected.
FetchForked ==
    /\ fwd = "fetch"
    /\ prev < nodeBest /\ ~prevLinked
    /\ fwd' = "finalized"
    /\ UNCHANGED <<prev, finalized, chanVars, linkVars>>

\* There is no such block; databaseAhead asks for the best block next.
FetchNotFound ==
    /\ fwd = "fetch"
    /\ prev >= nodeBest
    /\ fwd' = "notFound"
    /\ UNCHANGED <<prev, finalized, chanVars, linkVars>>

\* The request, or that of databaseAhead, or ProcessBlock after its retries,
\* fails: wait and start over.
ForwardRetry ==
    /\ fwd \in {"fetch", "notFound", "process"}
    /\ fwd' = "loop"
    /\ UNCHANGED <<prev, finalized, chanVars, linkVars>>

\* databaseAhead compares prev with the best block: the process exits if the
\* node is behind.
DatabaseAhead ==
    /\ fwd = "notFound"
    /\ fwd' = IF prev > nodeBest THEN "exit" ELSE "loop"
    /\ UNCHANGED <<prev, finalized, chanVars, linkVars>>

\* The request for the finalized block succeeds, ...
FetchFinalized ==
    /\ fwd = "finalized"
    /\ finalized' = nodeFinalized
    /\ fwd' = "sendFork"
    /\ UNCHANGED <<prev, chanVars, linkVars>>

\* ... or fails; after a pause it is made again, as often as it takes and without
\* a look at the context.
FinalizedFails ==
    /\ fwd = "finalized"
    /\ fwd' = "finalizedFailed"
    /\ UNCHANGED <<prev, finalized, chanVars, linkVars>>

RetryFinalized ==
    /\ fwd = "finalizedFailed"
    /\ fwd' = "finalized"
    /\ UNCHANGED <<prev, finalized, chanVars, linkVars>>

\* Variant of SendFork: prev is not set back.
SendForkKeepsPrev ==
    /\ fwd = "sendFork"
    /\ SendBlock(<<"fork", finalized>>)
    /\ prevLinked' = TRUE
    /\ fwd' = "loop"
    /\ UNCHANGED <<prev, finalized, nextLinked>>

\* The fork event is sent, without a select on the context, and the syncer goes
\* on from the finalized block.
SendFork ==
    /\ fwd = "sendFork"
    /\ SendBlock(<<"fork", finalized>>)
    /\ prev' = finalized
    /\ prevLinked' = TRUE
    /\ fwd' = "loop"
    /\ UNCHANGED <<finalized, nextLinked>>

\* ProcessBlock succeeds.
ProcessForward ==
    /\ fwd = "process"
    /\ fwd' = "send"
    /\ UNCHANGED <<prev, finalized, chanVars, linkVars>>

\* The block event is sent ...
SendForward ==
    /\ fwd = "send"
    /\ SendBlock(<<"forward", prev + 1>>)
    /\ prev' = prev + 1
    /\ prevLinked' = nextLinked
    /\ fwd' = "loop"
    /\ UNCHANGED <<finalized, nextLinked>>

\* ... or the select sees the context cancelled.
SendForwardCancelled ==
    /\ fwd = "send"
    /\ ctxDone
    /\ fwd' = "returned"
    /\ UNCHANGED <<prev, finalized, chanVars, linkVars>>

ForwardStep ==
    \/ ForwardLoop
    \/ FetchLinked
    \/ FetchForked
    \/ FetchNotFound
    \/ ForwardRetry
    \/ DatabaseAhead
    \/ FetchFinalized
    \/ FinalizedFails
    \/ RetryFinalized
    \/ SendFork
    \/ ProcessForward
    \/ SendForward
    \/ SendForwardCancelled

-----------------------------------------------------------------------------
(* Run.                                                                    *)

\* Both syncers have returned: the channel is closed and Run returns.
RunClose ==
    /\ ~chanClosed
    /\ gen = "returned" /\ fwd = "returned"
    /\ chanClosed' = TRUE
    /\ UNCHANGED <<blockChan, sendPanic, backVars, fwdVars, linkVars>>

PublisherNext ==
    /\ Alive
    /\ \/ GeneratorStep /\ UNCHANGED <<fwdVars, linkVars>>
       \/ \E w \in BackWorkers : BackWorkerStep(w) /\ UNCHANGED <<fwdVars, linkVars>>
       \/ ForwardStep /\ UNCHANGED backVars
       \/ RunClose

-----------------------------------------------------------------------------
(* The node.                                                               *)

NewBlock ==
    /\ nodeBest < MaxNum
    /\ nodeBest' = nodeBest + 1
    /\ UNCHANGED <<nodeFinalized, forks, linkVars>>

Finalize ==
    /\ nodeFinalized < nodeBest
    /\ nodeFinalized' = nodeFinalized + 1
    /\ UNCHANGED <<nodeBest, forks, linkVars>>

\* The node changes to another branch of height n.  The two share the blocks up
\* to height c, the finalized ones among them; a block above c that was on the
\* node's branch is so no more, or is again.
Reorganise(n, c) ==
    /\ forks < MaxForks
    /\ c >= nodeFinalized /\ n >= c
    /\ nodeBest' = n
    /\ forks' = forks + 1
    /\ prevLinked' \in IF prev <= c THEN {prevLinked} ELSE BOOLEAN
    /\ nextLinked' \in IF prev < c THEN {nextLinked} ELSE {FALSE, prevLinked'}
    /\ UNCHANGED nodeFinalized

NodeNext == NewBlock \/ Finalize \/ \E n, c \in Heights : Reorganise(n, c)

-----------------------------------------------------------------------------
(* The rest of the environment: the subscriber and the command.            *)

\* The subscriber receives an event.  It may stop doing so once the context is
\* cancelled, but until then it goes on.
Consume ==
    /\ Alive /\ blockChan # <<>>
    /\ LET e == Head(blockChan) IN
         delivered' = IF e[1] = "back" THEN delivered \cup {e[2]} ELSE delivered
    /\ blockChan' = Tail(blockChan)
    /\ UNCHANGED <<ctxDone, chanClosed, sendPanic, backVars, fwdVars, linkVars, nodeVars>>

Cancel ==
    /\ Alive /\ ~ctxDone
    /\ ctxDone' = TRUE
    /\ UNCHANGED <<chanVars, backVars, fwdVars, linkVars, nodeVars, delivered>>

Terminated == (chanClosed \/ ~Alive) /\ UNCHANGED vars

Next ==
    \/ PublisherNext /\ UNCHANGED <<ctxDone, nodeVars, delivered>>
    \/ NodeNext /\ UNCHANGED <<ctxDone, chanVars, backVars, fwdVars, delivered>>
    \/ Consume
    \/ Cancel
    \/ Terminated

\* What is assumed of the subscriber: it receives unless cancelled.
ConsumerFairness == WF_vars(Consume /\ ~ctxDone)

Spec == Init /\ [][Next]_vars

-----------------------------------------------------------------------------
(* Properties.                                                             *)

ToGenerate == {n \in Window : n <= blockNum}
AtWorkers == {height[w] : w \in {v \in BackWorkers : worker[v] \in {"process", "send"}}}
InChan == {n \in Window : <<"back", n>> \in ToSet(blockChan)}

\* No backward event is in the sequence twice (forward ones may be, after a fork).
BackOnce(s) == \A i, j \in DOMAIN s : s[i] = s[j] /\ s[i][1] = "back" => i = j

\* Nobody sends on the closed channel: Run closes it only after both syncers,
\* and the backward syncer's workers before it, have returned.
NoSendAfterClose == ~sendPanic

\* The backward syncer loses no height while it is not cancelled: between the
\* generator, workChan, the workers, blockChan and the subscriber each height of
\* the window is somewhere, or ProcessBlock failed for it.
NoHeightLost ==
    ~ctxDone =>
        Window = ToGenerate \cup ToSet(workChan) \cup AtWorkers \cup InChan
                    \cup delivered \cup failed

\* No height is fetched or delivered twice by the backward syncer, though its
\* workers race for them: each is in one place at a time.
NoHeightTwice ==
    /\ IsInjective(workChan)
    /\ \A v, w \in BackWorkers :
        /\ v # w
        /\ {worker[v], worker[w]} \subseteq {"process", "send"}
        => height[v] # height[w]
    /\ BackOnce(blockChan)
    /\ ToGenerate \cap (ToSet(workChan) \cup AtWorkers \cup InChan \cup delivered \cup failed) = {}
    /\ ToSet(workChan) \cap (AtWorkers \cup InChan \cup delivered \cup failed) = {}
    /\ AtWorkers \cap (InChan \cup delivered \cup failed) = {}
    /\ InChan \cap (delivered \cup failed) = {}
    /\ delivered \cap failed = {}

\* When Run closes the channel and nobody cancelled, every height of the window
\* has been handed to the subscriber or is in the channel, except those whose
\* ProcessBlock failed: the channel is not closed over work in progress.
ClosedMeansComplete ==
    chanClosed /\ ~ctxDone => Window = InChan \cup delivered \cup failed

\* What makes the invariants above inductive: who has returned when, and that a
\* worker leaves without a cancellation only over an exhausted workChan.
SyncersFollowRun ==
    /\ gen = "generate" <=> ~workClosed
    /\ gen # "generate" => ctxDone \/ ~InLoop
    /\ gen = "returned" => \A w \in BackWorkers : worker[w] = "exited"
    /\ \A w \in BackWorkers : worker[w] = "exited" => ctxDone \/ (workClosed /\ workChan = <<>>)
    /\ \A w \in BackWorkers : worker[w] \in {"process", "send"} => height[w] \in Window
    /\ fwd \in {"process", "send"} => prev < MaxNum
    /\ chanClosed => gen = "returned" /\ fwd = "returned"

IndInv ==
    /\ TypeOK
    /\ NoSendAfterClose
    /\ NoHeightLost
    /\ NoHeightTwice
    /\ SyncersFollowRun

\* Each block event of the forward syncer in the sequence follows the last event
\* of that syncer before it, a block or a fork, by exactly one.
Follow(s) ==
    \A i, j \in DOMAIN s :
        /\ i < j /\ s[i][1] # "back" /\ s[j][1] = "forward"
        /\ \A k \in DOMAIN s : i < k /\ k < j => s[k][1] = "back"
        => s[j][2] = s[i][2] + 1

\* The last of the forward syncer's events in the sequence, if any, has height n.
EndsAt(s, n) ==
    \A i \in DOMAIN s :
        s[i][1] # "back" /\ (\A k \in DOMAIN s : i < k => s[k][1] = "back") => s[i][2] = n

\* The forward syncer's events reach the subscriber in chain order: a block
\* event follows the previous block event, or the fork event's finalized block,
\* by exactly one, through every retry and fork, whatever backward events are
\* between them, and the syncer's own position is that of its last event.
ForwardInOrder == Follow(blockChan) /\ EndsAt(blockChan, prev)
=============================================================================
