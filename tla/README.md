# thorflux: a TLA+ verification project

thorflux reads blocks from a VeChain Thor node, past blocks and new ones at the
same time, computes statistics of each block in a pool of goroutines, and
writes them to InfluxDB. When the node changes to another branch it wipes what
it wrote above the finalized block and records the abandoned blocks.

This directory holds TLA+ models of the program's core (`src/pubsub`, with the
parts of `src/cmd`, `src/influxdb` and `src/common` it depends on), of the
process as a whole, and of the statistics with state or with an algorithm of
their own (`src/stats/pos`, `slots`, `authority`, `priceapi`), TLC
configurations that check them on small instances, and TLAPS proofs that hold
for every instance.

## Inventory

| part | state it keeps | operations | talks to |
|---|---|---|---|
| command (`cmd`) | context, the parts it created | `New`, `Run`, `Stop`, signal | creates and starts everything |
| publisher (`publisher.go`) | `blockChan` | `NewPublisher` (window of heights), `Run` | both syncers, subscriber (channel) |
| backward syncer (`backward_syncer.go`) | `workChan`, `minBlock`, `head` | generator and 100 workers | event block service, `blockChan` |
| forward syncer (`forward_syncer.go`) | `prev` | loop: fetch, compare, process, send; fork | node, event block service, `blockChan` |
| event block service, block fetcher | LRU cache by number, singleflight group | `ProcessBlock`, `FetchBlock` with retries | node; called by every worker at once |
| subscriber (`subscriber.go`) | handlers, pool | `Subscribe` | `blockChan`, pool, fork handler |
| worker pool (`worker_pool.go`) | `taskQueue`, context, `isShutdown` | `worker`, `processTask`, `SubmitBatch`, `Shutdown` | handlers, database |
| fork handler (`fork_handler.go`) | none | `Resolve`, `getSideChain` | node, database |
| database (`influxdb.go`) | write buffer, error listener | `Latest`, `Delete`, `WritePoints`, `Close` | InfluxDB |
| retry (`retry.go`) | a clock | `Retry`, `RetryIncreasing` | fetcher |
| staker statistics (`stats/pos`, `stats/slots`) | none; each block is compared with its parent | `Write`: changes per validator, overview, missed, expected and future signers | event, database |
| authority list (`stats/authority`) | candidates, the block they are of, owners; no lock | `Write`: slots, `ShouldReset`, `Init`, `RefreshOwnersList` | node, a spreadsheet; called by many workers at once |
| prices (`stats/priceapi`) | last update, mutex | `Write` | a mainnet node, database; called by many workers at once |
| other statistics (`stats/*`) | none | `Write` per handler | node, database |

What is hard here: three kinds of goroutines share one bounded channel that one
of them closes; a worker's `select` chooses at random between a cancelled
context and work; a cache keyed by number meets a chain that changes under it;
a delete races writes that are queued, running or buffered; a restart infers
from one number what an interrupted run had done; handlers share a list without
a lock and a mutex that is held over requests; and unsigned arithmetic at 0
and 1 decides which blocks are read at all. `hazards` in `PROJECT.json` lists
them line by line with the properties that would notice.

What makes each part correct: every task of a received block runs at most once
and is not lost, and shutting down ends (pool); the channel is closed after the
last send, every height is delivered once, events come in chain order, and a
cancellation ends `Run` (publisher); one request per missing block and an end
to retries (fetcher); the syncer follows one branch and catches up, the handler
finds exactly the abandoned blocks and the wipe is complete (forks); the window
is what was asked for, and restarts miss nothing above the latest stored block
(start-up); the changes written block by block add up to the contract's state,
every skipped slot is charged once, and predictions made from different queries
and seeds agree with each other and with the chain (staker statistics); the
candidate list is renewed whenever the candidates change, price points keep their
distance, and every call of a handler returns (handlers with state); `Stop`
returns, and closes the database over a quiet system (the process).

## Modules

| module | models | state and actions |
|---|---|---|
| `WorkerPool` | `worker_pool.go` | queue, flags, what each worker runs; one action per `select` arm and per outcome of a task |
| `Subscriber` | `subscriber.go`, over `WorkerPool` | `Subscribe`'s position and its batch; receiving, submitting task by task, the three steps of `Shutdown`. The publisher and the signal are environment actions |
| `Consumer` | what `Subscribe` promises, without the pool | receiving, leaving, returned; what was written |
| `Thorflux` | `Cmd.Run`, `Cmd.Stop`, `DB.Close` and the error listener, over `Publisher` and `Consumer` | the shared channel and context, `Stop`'s position, the write buffer; one action per step of `Stop` and `Close` |
| `SyncWindow` | the limits in `NewPublisher`, `NewBackwardSyncer` and the generator's loop condition | operators only, with wrapping subtraction; a reference definition of the window |
| `Startup` | `thorflux.New`, `NewPublisher`, `main` | one action per step, one for its failure, and one for the panic on a custom genesis without the fields `NewPublisher` follows |
| `Publisher` | `publisher.go`, `backward_syncer.go`, `forward_syncer.go` | channels, generator, workers, forward syncer, and a node seen through its answers |
| `BlockTree` | the node's blocks, by parent and number | operators, one of them a recursive function |
| `ForkHandler` | `Resolve` and `getSideChain` | the position of `Resolve`, the event, the two branches' blocks; one action per request. By itself (`ResolveSpec`, used by the proofs) it resolves any event on a node that moves between any two requests |
| `BlockCache` | the LRU cache as the fetcher uses it | operators on a sequence of entries |
| `BlockFetcher` | `FetchBlock`, `RetryIncreasing` | callers, executions, the cache, a clock |
| `ForkSync` | forward syncer and `ProcessBlock` in terms of block identities, over `ForkHandler` | node, cache, channel, points in flight and stored |
| `Restart` | several lives of the process over one database | heights stored and still to be stored |
| `ProposerSlots` | `stats/slots`, `MissedSlots` and `FutureSlots` of `stats/pos`, the seeds of `block_fetcher.go` | operators: order of the proposers, expected and future signers, skipped slots |
| `StakerStats` | `Write` of `stats/pos`, over `ProposerSlots` | one step per block: the chain (external) changes the validators, the handler writes their changes; `recorded` is what a reader puts together from them |
| `AuthorityList` | `stats/authority/list.go` | the list as the set of the blocks its words come from, the position of each worker's call; one action per access to shared memory |
| `PriceAPI` | `stats/priceapi/priceapi.go` | clock, mutex, last update, points; one action per step under the mutex |
| `Handlers` | the two, called by the same workers | |
| `MC*` | instances for TLC | |
| `ChannelLemmas` | lemmas on sending to and receiving from a channel | |
| `SubscriberProofs`, `PublisherProofs`, `BlockFetcherProofs`, `ThorfluxProofs` | proofs about the module of that name | |
| `RestartProofs` | proofs about `SyncWindow`, `Startup` and `Restart` | |
| `ForkSyncProofs` | proofs about `BlockTree`, `ForkHandler` and `ForkSync` | |
| `StatsProofs` | proofs about `Handlers` with its two parts, `ProposerSlots` and `StakerStats` | |

`Subscriber` composes the pool with its only client by EXTENDS; `ForkSync`
composes node, cache, forward syncer, subscriber and fork handler; `Thorflux`
composes the publisher with the subscriber and the command.

The composition is by assumption and guarantee. `Consumer` says what the rest
of the process relies on: `Subscribe` receives until it is cancelled or the
channel is closed and empty, then returns, and nothing is written afterwards.
`Subscriber`, with its queue, workers and panics, implements it
(`ImplementsConsumer` for its steps, `KeepsConsumerGoing` for its liveness; the
refinement mapping is `Promised`). `Thorflux` puts `Consumer` in the
subscriber's place next to the unchanged `Publisher`, and
`ImplementsComponents` shows that every step of the process is a step
`Publisher` and `Consumer` allow: each is an environment the other was checked
in, so what is proved and checked of the two separately holds in the process.
`SubscriberReceives` is the liveness `Publisher` assumes of the subscriber.
Writing this down corrected an assumption of the first version of `Subscriber`,
which let the channel close only after every event: a height whose fetch fails
is never sent. In the same way `ForkHandler` is specified on its own, for any
event a forward syncer could send and any node that keeps to its finalized
block, and `ForkSync` is shown to be such an environment.

`Publisher`
and `ForkSync` look at the forward syncer at two levels: the first keeps
cancellation and the competition for the channel and abstracts a block to its
height and to whether it is on the node's branch; the second keeps identities.
In `Publisher`, `prevLinked` says that `prev` is on the node's branch, which is
what the comparison of `next.ParentID` with `prev.ID` finds out; `Reorganise`
may make it false or, on a change back, true again.

A definition whose name starts like another one and whose comment says "Variant
of" is that definition with a plausible mistake in it. `PROJECT.json`
("mutants") names, for each property, the variant that must violate it.

Abstractions. To the pool a handler is an opaque task that completes or panics.
A request to the node succeeds or fails; in `BlockFetcher` the requests of one
attempt succeed or fail together. Points are identified with the block they
describe. Waiting for the block interval is left to the scheduler. `os.Exit`
ends every goroutine. In the statistics a seed is the number of the block it
comes from, the random source is a parameter, and a validator's score is
compared by cross multiplication; the staker contract is modelled by what its
answers show: a queue, activations, renewals and exits at epochs, going on- and
offline. An event always has its validators, since `FetchBlock` fails without
them; only the first forked block's parent has none, and there the contract is
empty. Under proof of authority a hash is a parameter as well.

Data races are choices over what the build can do. In `AuthorityList` a slice
is three words: a load that races a store yields the old list, the new one, or
words of both, two racing stores may leave such a mixture for good, and a use of
a mixture may panic, which the pool recovers; the Go runtime may abort the
process when it meets a map access that races a write (`AbortOnMap`), or not.
A block of the chain is "quiet", has a transfer of an endorsor (or an event of
Params), or an event of the Authority contract; `ShouldReset` compares with the
endorsors of the list at hand, which is a free choice if nobody can know them
from that list. The blocks are those of one chain; of a reorganisation the list
sees the `Prev` the fetcher kept from the abandoned branch, which need not be
older than the block: `Gaps` has the times of both, and the differences are
unsigned (`SlotsSince`). A report keeps the empty slots by the times of their
points, counted from `Prev`.

## Runs

| run | instance | shows |
|---|---|---|
| `subscriber` | 2 workers, queue 2, 2 block events and 1 fork, 2 handlers, channel 1 | `NoTaskLost`, `NoTaskTwice`, `SubmitNeverFails`, `QuietAfterReturn`, `ImplementsConsumer`; `KeepsConsumerGoing`, `QueuedTaskRuns` under fairness |
| `starts` | one start: an unsigned type of 8 values, flags up to 9, every chain and database; several: 3 blocks back on a chain of 5, 3 starts, 1 failed block | `WindowIsRequested`, `NoGapBetweenSyncers`; `NothingMissingAboveLatest`, `NoHolesInOneLife` |
| `publisher` | 2 backward workers, work channel 1, block channel 2, 2 heights, node up to height 4, 1 reorganisation | `NoSendAfterClose`, `NoHeightLost`, `NoHeightTwice`, `ClosedMeansComplete`, `ForwardInOrder` |
| `thorflux` | 1 backward worker, channels of 1, 1 height, node up to height 2, 1 reorganisation, 1 written point | `ImplementsComponents`, `NothingAfterClose`; `SubscriberReceives`, `StopReturnsUnlessForking`, `JobCompletes` under fairness |
| `thorflux_fork_stop` | the same | **violated**: `StopReturns` |
| `fork_sync` | a chain with one branch, cache 2, channel 1, 2 reorganisations | `UnlinkedOnlyByReorg`, `SideChainExact`, `FailsOnlyPastFinality`, `FollowsOneBranch`, `OnlyForkedRecorded`; `CatchesUp` under fairness |
| `fork_sync_wipe` | cache 1, 1 reorganisation | **violated**: `WipeIsComplete` |
| `block_fetcher` | 3 callers, 2 numbers, cache 1 | `OneExecutionPerNumber`, `NeverRefetched`, `BoundedWait`; `CallReturns` under fairness |
| `stats` | the chain: 2 authority nodes, 3 validators, weights 1 and 3 in a type of 4 values, epochs of 3, a seed every 6 blocks, up to block 12, up to 2 slots per block; the calls: 2 workers, 3 blocks of every kind (the first quiet) in any order, a window of 2 slots, gaps from -1 to 4 in a type of 16 values, an interval of 2 and 6 ticks of the clock | `ChangesAddUp`, `SkippedSlotsCharged`, `HandlersAgree`, `ExpectedWasPredicted`, `PredictionComesTrue`; `OutdatedOnlyByFailure`, `SlotsAccounted`, `PricesApart`, and `HandlerReturns` under fairness |
| `stats_inactive` | the same | **violated**: `SameOrderAsAuthority` |
| `stats_same_time` | the same | **violated**: `DetailedSlotsBounded` |
| `stats_authority_event` | the same | **violated**: `AuthorityEventRenews` |

`starts` and `stats` each show two specifications that share no variable, one in
some behaviours and one in the others (`shown` in `MCRestart` and `MCStats`).

Bounds. Two workers are the fewest that race; a queue shorter than the tasks of
two events makes the submitter wait; a channel of two lets an event stand
behind another. An 8-value type has every order of the four numbers the window
depends on, 0, 1 and the wrap-around included. The tree of `fork_sync` has a
fork two deep, with finality at and above its root; deeper forks, and events no
reachable state has, are left to the proofs about `ForkHandler`. A cache of two
entries evicts and still holds a stale block; two reorganisations let the node
return to the first branch while its fork is being resolved, or between two
requests of the search. The chain of
`stats` goes from the fork (block 7) over the change to proof of stake (block
9) to the epoch at block 12, where the seed changes from the empty one; with
three validators one can leave, one stay and one wait, and a weight falls from
3 to 1, which wraps. In `thorflux` one
place in the channel and one event too many are enough for every goroutine to
wait for another; the races of several workers are in `publisher` and
`subscriber`, whose specifications `thorflux` uses. In the calls of `stats` three blocks
let a list be of any of them while a transfer or an authority event is before or
after it, and the gaps have a block as old as its `Prev`, one before it, and
missed slots below, at and beyond the window. The capacities
100 and 200 and the 100 workers of the code only enlarge these cases, and the
proofs do not depend on them.

Fairness. Each goroutine is scheduled weakly fairly: a step that stays possible
is taken. A handler returns or panics, which supposes that the node answers,
since the client sets no timeout, and that no `Prev` has its block's own time
(`DetailedSlotsBounded` below, the one exception in `HandlerReturns`): a worker
in that loop is lost, and `KeepsConsumerGoing` and what rests on it say nothing
of a process in which it happened. Strong fairness is used only for requests
that are repeated for ever (`ForkSync`): one of infinitely many succeeds. `Publisher` and
`Thorflux` do not assume this: there the request for the finalized block may fail
for ever, and `StopReturnsUnlessForking` says so. Strong fairness is also used
for the mutex of the prices (`Handlers`), which Go hands to a goroutine that has
waited for a millisecond. `Thorflux` assumes that `Subscribe` keeps the promise
`Consumer` states, and that the client library's `Flush` and `Close` return.
Nothing is assumed of the node's growth or finality, nobody has to cancel, and
after a cancellation nobody has to read the channel: the subscriber's select
may leave at once. Deadlock is not checked in `thorflux`, where the state that
violates `StopReturns` is one, nor in `stats`, whose blocks run out.

## What the violated properties show

- `StopReturns`: the fork event is sent without looking at the context
  (`forward_syncer.go:98`). If the subscriber has left and the channel is full,
  `Run`, and `Cmd.Stop` with it, wait for ever.
  There is one more way: once a fork is detected, a failed request for the
  finalized block is repeated until one succeeds, again without looking at the
  context (`forward_syncer.go:88`), so that `Run` and `Cmd.Stop` do not return
  while the node does not answer. `StopReturns` leaves it out;
  `StopReturnsUnlessForking` says that there is no third.
- `WipeIsComplete`: points of the side chain that are queued, being computed or
  buffered when `Resolve` deletes arrive afterwards (`fork_handler.go:40`).
- `SameOrderAsAuthority`: "Shuffle the active authority nodes using the same
  algorithm as authority package" (`calculator.go:40`), but
  `shuffleAuthorityNodes` shuffles the inactive ones too (`calculator.go:98`),
  which `authority` leaves out (`list.go:360`). So `slots` may expect a block of
  a node that cannot propose, and lists fewer than ten that can. `HandlersAgree`
  says that on the active nodes the two do agree.
- `AuthorityEventRenews`: by its comment (`list.go:76`) `ShouldReset` believes in
  a list while there is no event of the Authority contract; it answers false when
  there is one (`list.go:104`), and the list stays as it was.
- `DetailedSlotsBounded`: with a `Prev` that has the block's own time, which the
  fetcher's stale cache can supply after a reorganisation, `slotsSinceLastBlock`
  is 0 and the limit of the loop over "the last hour (360 slots)" wraps to
  2^64 - 1 (`list.go:223`): the call does not end and its points fill the memory.
  With a `Prev` after the block the difference itself wraps: the loop ends, but
  the sum of the older missed slots is enormous.

Observations, met while modelling. The cache is keyed by number and no fork
clears it (`block_fetcher.go:60`), and the block `ProcessBlock` fetches is not
the one that was compared (`forward_syncer.go:112`): after a reorganisation a
block of the abandoned branch is published again, or as the parent of a block
that is not its child; `UnlinkedOnlyByReorg` says that nothing else does this.
After a fork the syncer goes on from the finalized block even if that is above
the block it held (`forward_syncer.go:107`), because it lagged behind or
finality advanced meanwhile: the heights in between are skipped;
`FollowsOneBranch` says that nothing else skips one. A `--thor-blocks` beyond
uint32 makes `New` return neither a command nor an error (`thorflux.go:68`, the
step `nilCmd` of `Startup`); a custom genesis without the fork config, the
config or `HayabusaTP` is a nil dereference (`publisher.go:68`, the step `panic`);
block 1 is left out when more blocks are asked for
than exist (`publisher.go:89`, stated exactly by `ClippedWindow`); `Shutdown`
cancels the workers before it closes the queue, so that tasks may be left in
the queue when the publisher has completed its jobs (`worker_pool.go:152`);
`getSideChain` fails when finality has passed the fork point
(`fork_handler.go:98`, stated exactly by `FailsOnlyPastFinality`), after the
delete has been done; it takes one request per block, and a node that changes
its branch during the search may leave the branch that the side chain is
compared with (`fork_handler.go:69`), so that blocks of the new branch are
recorded as forked, which is why `SideChainExact` and `OnlyForkedRecorded`
speak of a node that is still on it; `main` returns without `Stop`
(`main.go:54`); heights are stored from the top downwards and a start goes back
only to the highest stored one, so that an interrupted back sync leaves holes
that are never filled (`publisher.go:91`, which is why
`NothingMissingAboveLatest` says "above").

In the statistics: `MissedSlots` skips the validators with an `OfflineBlock`
where its comment says it skips the online ones (`staker.go:86`), so that
`dpos_offline_missed_slots` names online validators; it uses the validators
after the block rather than before it; `online_stake` and `offline_stake` count
the delegators' stake twice (`writer.go:164` with `staker.go:357`); with
`HayabusaTP` 0 and a failed fetch, `createEnergyStats` dereferences a nil
parent (`writer.go:247`);
`liveness` dereferences the justified block after a failed request
(`liveness.go:46`) and subtracts below zero in the first two epochs.

In the authority list: a reset whose request fails is not repeated
(`list.go:271`); `OutdatedOnlyByFailure` says that, with one call at a time and
without Authority events, nothing else leaves the list out of date. Several
workers at once can leave a list made of two, or with the number of another, or
store the older of two last, so that a list from before an endorsor's transfer
goes on being used (`list.go:121`), and may end the process by writing the map of owners together (`list.go:137`). The
sum of the older missed slots is one short, since it counts the parent among
them (`list.go:252`), and the point of an empty slot has the time of the slot
before it, the first one `Prev`'s own (`list.go:224`); `SlotsAccounted` states
both exactly. The prices' mutex is
held over requests without a timeout, so that a node that never answers holds
every worker of the pool in turn (`priceapi.go:52`).

## Proofs

TLAPS proves every safety property of the runs, invariants, action properties
and the refinements' steps, for every set of workers, callers, events, handlers,
heights and validators, every tree of blocks, all channel and cache capacities
and every width of the unsigned types. An invariant is seldom inductive by
itself; what each needs in addition stands next to the properties (that of
`StakerStats` and `Startup` in the proof modules), and TLC has checked it
before it was proved. The type invariants, with the capacities of the channels,
are parts of these and are not run separately.

- `SubscriberProofs`: `TypeCorrect`, `TasksKept` (`NoTaskLost`), `TasksOnce`
  (`NoTaskTwice`), `SubmitSafe`, `ShutdownQuiet`. `IndInv` adds
  `PoolFollowsSubscribe`, which ties the pool's flags to the position of
  `Subscribe` (that is why no submission meets a pool that is shut down), and
  `EventsOnce`, since a task is new only if its event is. One lemma per action
  shows that it keeps each conjunct it touches. `ConsumerRefined` is the
  refinement of `Consumer`: each action of the subscriber and the pool is a
  reception, a write, a leaving, a return or a stutter; that a worker which
  still runs a task keeps `Subscribe` from having returned comes from `IndInv`.
- `PublisherProofs`: `TypeCorrect`, `CloseSafe`, `HeightsKept`
  (`NoHeightLost`), `HeightsOnce` (`NoHeightTwice`), `CloseComplete`.
  `SyncersFollowRun` is the strengthening: who has returned when, and that a
  worker leaves, without a cancellation, only over a closed and empty
  `workChan`. `ForwardOrdered` (`ForwardInOrder`) is inductive on top of it: a
  backward event between two forward ones changes nothing, the forward syncer's
  own send extends the order, a reception takes its first element away.
- `ThorfluxProofs`: `PublisherRefined` shows that each step of the
  process is one of the publisher, of the node, a reception, the cancellation,
  or none of the publisher's variables; with it `PublisherInvariant` carries the
  publisher's `IndInv` over to the process. `ComponentsRefined`
  (`ImplementsComponents`) adds the subscriber's side: that a send finds the
  channel open and carries an event of the right heights is what `IndInv` says.
  `ClosedQuietly` (`NothingAfterClose`) rests on `StopInOrder`, which says what
  `Stop` has waited for and done at each of its steps.
- `RestartProofs`, one start: `WindowExact` says that the chain of limits
  computes the clipped requested window, and rests on the lemma that none of the
  subtractions wraps; `WindowCorrect` and `NoGap` carry it over to `Startup`.
- `RestartProofs`, several lives: `NothingMissing`
  (`NothingMissingAboveLatest`) and `NoHoles` (`NoHolesInOneLife`), for any
  number of crashes. A start finds every height above the latest stored block
  in its window, a failure takes at most one away and is counted, and a crash
  loses only what the next start asks for again.
- `BlockFetcherProofs`: `OneExecution`, `CacheConsulted` (`NeverRefetched`),
  `RetryBounded` (`BoundedWait`). `ExecutionsFollowGroup` says that the numbers
  of the singleflight group are exactly those of the executions, which with the
  lemmas on the cache (an insertion evicts, and adds no number but its own)
  leaves no moment in which a cached block is requested; `RetryInTime` bounds the
  clock at each step of the retry loop.
- `StatsProofs`, handlers with state: `PricesKeptApart` (`PricesApart`) from
  the mutex (`PriceInv`), `SlotsReported` (`SlotsAccounted`), and
  `OutdatedForAReason` (`OutdatedOnlyByFailure`): as long as there is one call
  at a time (`OneCall`), the list is of one revision (`OneRevision`), none
  replaces a newer one (`NotOlder`), and, without Authority events, each transfer
  after it belongs to a call that failed or has yet to look (`SinceRevision`).
  `SlotsReported` rests on `SlotsAreGap`: the unsigned difference does not wrap
  for a parent that is older than its block.
- `ForkSyncProofs`, the tree: `TreeInduction` replaces the induction theorems of
  the library. The numbers of the blocks that lack a property have a least one,
  whose block has a parent without the defect. From it follow what the
  recursive definition of `Ancestors` amounts to, that of two ancestors of a
  block one is the other's, and that a branch has one block of each height.
- `ForkSyncProofs`, the fork handler: `SideChainFound` (`SideChainExact`) and
  `SearchFails` (`FailsOnlyPastFinality`). The invariant `ResolveInv` says that
  the chain collected so far leads from the held block to its last element, that
  this one has a rival of the same height on the branch compared, and where the
  finalized block is: without the last part the search could pass it and ask
  for the parent of the genesis block.
- `ForkSyncProofs`, the forks: `HandlerRefined` shows that every step of
  `ForkSync` is one of `ForkHandler`, of a node it allows, or none of its
  variables; `ForksFound` brings its two theorems into `ForkSync`.
  `EventsLinked` (`UnlinkedOnlyByReorg`), `BranchFollowed` (`FollowsOneBranch`)
  and `ForkedRecorded` (`OnlyForkedRecorded`) rest on `SyncInv`: every answer
  in the cache has the number it is kept under and, before the first
  reorganisation, is on the node's branch; every event under way was made of
  such answers, and the finalized block of a fork event stays an ancestor of the
  node's.
- `StatsProofs`, lists: the model writes a filter as the places that pass
  the test and a sort as a rank, so that `InOrder` needs no recursion. Its
  lemmas say that a strict total order of a finite set has one member of each
  rank, and that the members of a subset keep their order: a list filtered and
  then sorted is the sorted list filtered.
- `StatsProofs`, staker statistics: `ChangesRecorded` (`ChangesAddUp`),
  `SlotsCharged` (`SkippedSlotsCharged`), `PredictedIsExpected`
  (`ExpectedWasPredicted`), `PredictionTrue` (`PredictionComesTrue`) and
  `HandlersAgreed` (`HandlersAgree`, which under proof of authority speaks of the
  active nodes only). `StatsInv` says that the contract's lists
  name no validator twice and give a weight to the active ones only, that the
  signer can still propose after its block (without it a panic would lose the
  points), and that the authority nodes keep their masters. Beside it the
  proofs need three pieces of arithmetic: a difference of weights that wraps is
  undone by one that wraps, as many multiples of the interval lie inside a gap
  as the rounded division says, and a seed changes only where an epoch does.
  Nothing is assumed of the random source.

The proofs about channels use `ChannelLemmas`: what a send and a receive do to
the set of a channel's elements and to their being distinct. The assumptions
are those stated with the constants: there is a worker, capacities are
positive, the head is a positive height, some number is asked for, and the
times an attempt may take have a longest one (the code's client and context
bound no attempt, so `BoundedWait` is relative to it); blocks form a tree with
the genesis block at its root, and a block's number is one above its parent's
(`TreeAssumption`); the longest gap between two blocks fits the type of the
timestamps (`AuthorityListAssumption`); seeds change every so many epochs, there are authority
nodes, none twice, and hashes compare as numbers (`AuthorityAssumption`). The
bounds `MaxNum`, `MaxForks`, `MaxReorgs`, `MaxStops`, `MaxFails`, `MaxTime`,
`MaxFlag`, `MaxBlock`, `MaxGap`, `LastBlock`, `LongestGap` and `StalestGap` are arbitrary
numbers in the proofs.

Model-checked only: liveness under fairness, which is beyond this prover.
`KeepsConsumerGoing`, `SubscriberReceives`, `QueuedTaskRuns`,
`StopReturnsUnlessForking`, `JobCompletes`, `CatchesUp`, `CallReturns`,
`HandlerReturns`.

## Scope

The models cover the pool and the subscriber, the start-up window, the
publisher, the forks, the fetcher, restarts, the staker statistics and the
proposers under both kinds of consensus, the process as a whole with what its
parts promise each other, and the handlers with state.

Not modelled: formatting of points (`utilisation`, `transactions`, `liveness`,
most of `blockstats`, energy, stakes and the decoding of contract events in
`pos`): each is a conversion of one event's figures into one event's points,
without state and without steps that could interleave. Generated contract
bindings, the spreadsheet reader and the Grafana test helpers: generated code,
or pure I/O. Retries of failed writes are the client library's.
