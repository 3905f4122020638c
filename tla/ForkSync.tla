------------------------------ MODULE ForkSync ------------------------------
(***************************************************************************)
(* Forks, from the node to the database.  The forward syncer               *)
(* (forward_syncer.go) follows the node's branch by number and parent ID,  *)
(* builds its events with EventBlockService.ProcessBlock (event_block.go)  *)
(* through the fetcher's cache (block_fetcher.go), and announces a fork    *)
(* when the next block is not a child of the last; the subscriber          *)
(* (subscriber.go) hands block events to its pool and resolves forks       *)
(* itself (fork_handler.go), while earlier events' points are still on     *)
(* their way to the database.                                              *)
(*                                                                         *)
(* Publisher and Subscriber model cancellation, channels and workers; here *)
(* blocks have identities and the database has content.  A failed request  *)
(* sends the syncer back to the top of its loop.                           *)
(***************************************************************************)
EXTENDS ForkHandler, BlockCache

CONSTANTS
    ChanSize,       \* capacity of blockChan
    Start,          \* the block the forward syncer starts from
    MaxReorgs       \* bound: how often the node changes to another branch

ASSUME ForkSyncAssumption ==
    /\ Start \in Blocks
    /\ MaxReorgs \in Nat /\ ChanSize \in Nat \ {0}

VARIABLES
    nodeFinalized,  \* node: finalized block
    reorgs,         \* node: changes of branch so far
    cache,          \* BlockFetcher.cache
    fwd,            \* where ForwardSyncer.Start is
    prev,           \* f.prev
    next,           \* the block fetched as number prev + 1
    current,        \* ProcessBlock: the event's Block
    parent,         \* ProcessBlock: the event's Prev
    finalized,      \* the finalized block fetched after a fork was detected
    blockChan,      \* content of the channel
    inFlight,       \* blocks whose points are queued, computed or buffered
    stored,         \* blocks whose points are in the database
    forkPoints      \* blocks recorded in the "forks" measurement

nodeVars == <<tip, nodeFinalized, reorgs>>
fwdVars == <<cache, fwd, prev, next, current, parent, finalized>>
subVars == <<resolveVars, inFlight, stored, forkPoints>>
vars == <<nodeVars, fwdVars, blockChan, subVars>>

BlockEvent(b, p) == [kind |-> "block", block |-> b, prev |-> p, best |-> None, side |-> None]
Event == [kind : {"block", "fork"}, block : Blocks, prev : Blocks \cup {None},
          best : Blocks \cup {None}, side : Blocks \cup {None}]

Init ==
    /\ tip = Start /\ nodeFinalized = Genesis /\ reorgs = 0
    /\ cache = <<>>
    /\ fwd = "loop" /\ prev = Start
    /\ next = Genesis /\ current = Genesis /\ parent = None /\ finalized = Genesis
    /\ blockChan = <<>>
    /\ ResolveInit
    /\ inFlight = {} /\ stored = {} /\ forkPoints = {}

-----------------------------------------------------------------------------
(* The node.                                                               *)

\* A new block on the node's branch.
NewBlock(b) ==
    /\ b # Genesis /\ Parent[b] = tip
    /\ tip' = b
    /\ UNCHANGED <<nodeFinalized, reorgs, fwdVars, blockChan, subVars>>

\* The node changes to another branch that contains the finalized block.
Reorganise(b) ==
    /\ reorgs < MaxReorgs
    /\ nodeFinalized \in Ancestors[b]
    /\ b \notin Ancestors[tip] /\ tip \notin Ancestors[b]
    /\ tip' = b
    /\ reorgs' = reorgs + 1
    /\ UNCHANGED <<nodeFinalized, fwdVars, blockChan, subVars>>

\* Finality advances along the node's branch.
Finalize(b) ==
    /\ b \in Ancestors[tip] /\ b # nodeFinalized /\ nodeFinalized \in Ancestors[b]
    /\ nodeFinalized' = b
    /\ UNCHANGED <<tip, reorgs, fwdVars, blockChan, subVars>>

NodeNext == \E b \in Blocks : NewBlock(b) \/ Reorganise(b) \/ Finalize(b)

-----------------------------------------------------------------------------
(* The forward syncer.                                                     *)

\* The next iteration of the loop: the blocks of this one are gone.
Continue ==
    /\ fwd' = "loop"
    /\ next' = Genesis /\ current' = Genesis /\ parent' = None /\ finalized' = Genesis

\* The block interval has passed since prev.
ForwardLoop ==
    /\ fwd = "loop"
    /\ fwd' = "fetch"
    /\ UNCHANGED <<cache, prev, next, current, parent, finalized, blockChan, nodeVars, subVars>>

\* Variant of FetchNext: a block of another branch is waited out.
FetchNextWaits ==
    /\ fwd = "fetch"
    /\ HasHeight(tip, Num[prev] + 1)
    /\ next' = AtHeight(tip, Num[prev] + 1)
    /\ fwd' = IF Parent[next'] # prev THEN "loop" ELSE "process"
    /\ UNCHANGED <<cache, prev, current, parent, finalized, blockChan, nodeVars, subVars>>

\* The block of number prev + 1 is fetched, past the cache, and compared with prev.
FetchNext ==
    /\ fwd = "fetch"
    /\ HasHeight(tip, Num[prev] + 1)
    /\ next' = AtHeight(tip, Num[prev] + 1)
    /\ fwd' = IF Parent[next'] # prev THEN "finalized" ELSE "process"
    /\ UNCHANGED <<cache, prev, current, parent, finalized, blockChan, nodeVars, subVars>>

\* There is no such block ...
FetchNotFound ==
    /\ fwd = "fetch"
    /\ ~HasHeight(tip, Num[prev] + 1)
    /\ fwd' = "checkBest"
    /\ UNCHANGED <<cache, prev, next, current, parent, finalized, blockChan, nodeVars, subVars>>

\* ... and databaseAhead asks for the best block: the process exits if it is
\* behind prev.
DatabaseAhead ==
    /\ fwd = "checkBest"
    /\ IF Num[prev] > Num[tip]
       THEN fwd' = "exit" /\ UNCHANGED <<next, current, parent, finalized>>
       ELSE Continue
    /\ UNCHANGED <<cache, prev, blockChan, nodeVars, subVars>>

\* FetchBlock(n): the cached result, whatever the node's branch is now, or the
\* node's block, which is then cached.
FetchBlock(n, result) ==
    IF Cached(cache, n)
    THEN /\ result = Lookup(cache, n)
         /\ cache' = Touch(cache, n)
    ELSE /\ HasHeight(tip, n)
         /\ result = AtHeight(tip, n)
         /\ cache' = Insert(cache, n, result)

\* ProcessBlock fetches block N ...
ProcessCurrent ==
    /\ fwd = "process"
    /\ FetchBlock(Num[prev] + 1, current')
    /\ fwd' = "processPrev"
    /\ UNCHANGED <<prev, next, parent, finalized, blockChan, nodeVars, subVars>>

\* Variant of ProcessPrev: the number is not decremented.
ProcessPrevSameNumber ==
    /\ fwd = "processPrev"
    /\ IF Num[prev] + 1 > 1
       THEN FetchBlock(Num[prev] + 1, parent')
       ELSE parent' = None /\ UNCHANGED cache
    /\ fwd' = "send"
    /\ UNCHANGED <<prev, next, current, finalized, blockChan, nodeVars, subVars>>

\* ... and, if N > 1, block N - 1.
ProcessPrev ==
    /\ fwd = "processPrev"
    /\ IF Num[prev] + 1 > 1
       THEN FetchBlock(Num[prev], parent')
       ELSE parent' = None /\ UNCHANGED cache
    /\ fwd' = "send"
    /\ UNCHANGED <<prev, next, current, finalized, blockChan, nodeVars, subVars>>

\* The event is sent, and prev is the block that was compared.
SendEvent ==
    /\ fwd = "send"
    /\ Len(blockChan) < ChanSize
    /\ blockChan' = Append(blockChan, BlockEvent(current, parent))
    /\ prev' = next
    /\ Continue
    /\ UNCHANGED <<cache, nodeVars, subVars>>

\* A request fails: back to the top of the loop.
ForwardRetry ==
    /\ fwd \in {"fetch", "checkBest", "process", "processPrev"}
    /\ Continue
    /\ UNCHANGED <<cache, prev, blockChan, nodeVars, subVars>>

\* The finalized block is fetched after a fork was detected.  (A failed request is
\* made again, which changes nothing; see Publisher, and Fairness below.)
FetchFinalized ==
    /\ fwd = "finalized"
    /\ finalized' = nodeFinalized
    /\ fwd' = "sendFork"
    /\ UNCHANGED <<cache, prev, next, current, parent, blockChan, nodeVars, subVars>>

\* Variant of SendFork: the syncer goes on from the block it has just fetched.
SendForkContinues ==
    /\ fwd = "sendFork"
    /\ Len(blockChan) < ChanSize
    /\ blockChan' = Append(blockChan, ForkEvent(finalized, next, prev))
    /\ prev' = next
    /\ Continue
    /\ UNCHANGED <<cache, nodeVars, subVars>>

\* The fork is announced and the syncer starts again from the finalized block.
SendFork ==
    /\ fwd = "sendFork"
    /\ Len(blockChan) < ChanSize
    /\ blockChan' = Append(blockChan, ForkEvent(finalized, next, prev))
    /\ prev' = finalized
    /\ Continue
    /\ UNCHANGED <<cache, nodeVars, subVars>>

-----------------------------------------------------------------------------
(* The subscriber, the fork handler and the way to the database.           *)

\* os.Exit has not ended the process.
Running == fwd # "exit"

\* A block event: its tasks are submitted to the pool.
ReceiveBlock ==
    /\ Running
    /\ sub = "select"
    /\ blockChan # <<>> /\ Head(blockChan).kind = "block"
    /\ inFlight' = inFlight \cup {Head(blockChan).block}
    /\ blockChan' = Tail(blockChan)
    /\ UNCHANGED <<resolveVars, stored, forkPoints, nodeVars, fwdVars>>

\* A fork event: Resolve starts.
ReceiveFork ==
    /\ Running
    /\ blockChan # <<>> /\ Head(blockChan).kind = "fork"
    /\ Resolve(Head(blockChan))
    /\ blockChan' = Tail(blockChan)
    /\ UNCHANGED <<inFlight, stored, forkPoints, nodeVars, fwdVars>>

\* Resolve deletes the points later than the finalized block ...
ResolveDelete ==
    /\ Running
    /\ Delete
    /\ stored' = {b \in stored : Num[b] <= Num[fork.block]}
    /\ UNCHANGED <<inFlight, forkPoints, blockChan, nodeVars, fwdVars>>

\* ... searches the side chain ...
ResolveSearch ==
    /\ Running
    /\ Ask \/ StepToParents \/ ReachFinalized \/ ResolveFails
    /\ UNCHANGED <<inFlight, stored, forkPoints, blockChan, nodeVars, fwdVars>>

\* writeForkedBlock: one point per block of the side chain.
WriteForkedBlock(blocks) == forkPoints' = forkPoints \cup ToSet(blocks)

\* ... and records it.
ResolveRecord ==
    /\ Running
    /\ FindAncestor
    /\ WriteForkedBlock(sideChain)
    /\ UNCHANGED <<inFlight, stored, blockChan, nodeVars, fwdVars>>

\* The points of a block arrive: its handlers ran and the write buffer was
\* flushed.
StorePoints(b) ==
    /\ Running
    /\ b \in inFlight
    /\ inFlight' = inFlight \ {b}
    /\ stored' = stored \cup {b}
    /\ UNCHANGED <<resolveVars, forkPoints, blockChan, nodeVars, fwdVars>>

ForwardNext ==
    \/ ForwardLoop
    \/ FetchNext
    \/ FetchNotFound
    \/ DatabaseAhead
    \/ ProcessCurrent
    \/ ProcessPrev
    \/ SendEvent
    \/ ForwardRetry
    \/ FetchFinalized
    \/ SendFork

SubscribeNext ==
    \/ ReceiveBlock
    \/ ReceiveFork
    \/ ResolveDelete
    \/ ResolveSearch
    \/ ResolveRecord
    \/ \E b \in Blocks : StorePoints(b)

Exited == ~Running /\ UNCHANGED vars

Next ==
    \/ NodeNext
    \/ ForwardNext
    \/ SubscribeNext
    \/ Exited

\* The goroutines are scheduled, and a request that is repeated for ever succeeds
\* in the end.  FetchBlock's retries end, in an error if need be.  The node need
\* not do anything.
Fairness ==
    /\ WF_vars(ForwardLoop) /\ WF_vars(FetchFinalized)
    /\ WF_vars(SendFork) /\ WF_vars(SendEvent)
    /\ SF_vars(FetchNext) /\ SF_vars(FetchNotFound) /\ SF_vars(DatabaseAhead)
    /\ SF_vars(ProcessCurrent) /\ SF_vars(ProcessPrev)
    /\ WF_vars(fwd \in {"process", "processPrev"} /\ ForwardRetry)
    /\ WF_vars(SubscribeNext)

Spec == Init /\ [][Next]_vars
FairSpec == Spec /\ Fairness

-----------------------------------------------------------------------------
(* Properties.                                                             *)

\* Whatever branch the node changes to, the block the forward syncer remembers
\* moves to a child of it or to a finalized block: it never continues on a branch
\* other than the one it was on, and skips heights only when finality has passed
\* it by the time it announces a fork.
FollowsOneBranch ==
    [][prev' # prev => \/ prev' # Genesis /\ Parent[prev'] = prev
                       \/ prev' \in Ancestors[nodeFinalized]]_vars

\* The blocks Resolve records as forked include no finalized block, unless the
\* node has left the branch the search compares the side chain with: it may have
\* changed branches since the fork was detected, and may do so during the search.
OnlyForkedRecorded ==
    [][(bestChainBlock \in Ancestors[tip]) =>
           forkPoints' \cap Ancestors[nodeFinalized] \subseteq forkPoints]_vars

\* Once the node is quiet, the forward syncer ends up at the height of its best
\* block, or has stopped the process because the node is behind it.
CatchesUp == <>[](fwd = "exit" \/ Num[prev] = Num[tip])

\* The wipe of Resolve: once it is done and before the next event is taken, no
\* point of the side chain later than the finalized block is in the database.
WipeIsComplete ==
    sub \in {"ask", "walk"} =>
        \A b \in stored : ~(/\ b \in Ancestors[fork.side] \ Ancestors[fork.best]
                            /\ Num[b] > Num[fork.block])

\* A block event's Prev is the block one number below, and its parent unless the
\* node changed branches: the fetcher answers by number, from a cache that outlives
\* the branch, and the syncer does not compare the blocks it sends.
UnlinkedOnlyByReorg ==
    \A i \in DOMAIN blockChan :
        LET e == blockChan[i] IN
        e.prev # None =>
            /\ Num[e.prev] + 1 = Num[e.block]
            /\ Parent[e.block] = e.prev \/ reorgs > 0

-----------------------------------------------------------------------------
(* What makes them inductive.                                              *)

\* The answers the node may have given: of the right number, and of its branch as
\* long as it has had only one.
Answers == {e \in Nat \X Blocks : Num[e[2]] = e[1] /\ (reorgs = 0 => e[2] \in Ancestors[tip])}

\* The events that may be under way.
BlockEvents ==
    {e \in Event : /\ e.kind = "block"
                   /\ e.prev # None => /\ e.prev \in Blocks /\ Num[e.prev] + 1 = Num[e.block]
                                       /\ Parent[e.block] = e.prev \/ reorgs > 0}
ForkEvents ==
    {e \in Event : /\ e.kind = "fork" /\ e.prev = None
                   /\ e.best \in Blocks /\ e.side \in Blocks /\ Num[e.best] = Num[e.side] + 1
                   /\ e.block \in Ancestors[nodeFinalized]}

NodeInv ==
    /\ tip \in Blocks /\ nodeFinalized \in Ancestors[tip]
    /\ reorgs \in Nat

ForwardInv ==
    /\ prev \in Blocks
    /\ cache \in Seq(Answers)
    /\ fwd \in {"process", "processPrev", "send"} =>
           next \in Blocks \ {Genesis} /\ Parent[next] = prev
    /\ fwd \in {"processPrev", "send"} => <<Num[prev] + 1, current>> \in Answers
    /\ fwd = "send" => parent = None \/ <<Num[prev], parent>> \in Answers
    /\ fwd \in {"finalized", "sendFork"} => next \in Blocks /\ Num[next] = Num[prev] + 1
    /\ fwd = "sendFork" => finalized \in Ancestors[nodeFinalized]

EventInv ==
    /\ blockChan \in Seq(BlockEvents \cup ForkEvents)
    /\ sub # "select" => fork \in ForkEvents

SyncInv == NodeInv /\ ForwardInv /\ EventInv
=============================================================================
