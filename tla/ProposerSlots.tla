--------------------------- MODULE ProposerSlots ---------------------------
(***************************************************************************)
(* Who proposes which block, as three statistics handlers compute it: the  *)
(* handler "slots" (stats/slots), under proof of stake the slot part of    *)
(* the handler "pos" (stats/pos/staker.go) and under proof of authority    *)
(* the handler "authority" (stats/authority/list.go), with the seeds that  *)
(* pubsub/block_fetcher.go fetches for all.                                *)
(*                                                                         *)
(* A seed is identified with the number of the block it comes from, 0      *)
(* being the empty seed.  Draw(seed, number, i) is the i-th value of the   *)
(* random source for that seed and number, as a positive integer: it       *)
(* stands for -ln(random), so that a score is a draw over a weight.        *)
(* Hash(seed, number, a) is the hash of the two and an address, a number.  *)
(*                                                                         *)
(* A validation is a record [addr, status, online, weight, exiting]; lists *)
(* of them have the order of the staker contract, active validators first. *)
(* An authority node is a record [master, active].                         *)
(***************************************************************************)
EXTENDS Integers, Sequences, SequencesExt, FiniteSets

CONSTANTS
    BlockInterval,      \* thor.BlockInterval, in seconds
    EpochLength,        \* thor.EpochLength
    SeederInterval,     \* thor.SeederInterval
    NoAddress,          \* the zero address
    Draw(_, _, _),      \* the random source
    Hash(_, _, _)       \* Blake2b

ASSUME IntervalAssumption ==
    /\ BlockInterval \in Nat \ {0}
    /\ EpochLength \in Nat \ {0} /\ SeederInterval \in Nat \ {0}
    /\ SeederInterval % EpochLength = 0

FutureProposerCount == 10       \* DefaultFutureProposerCount

\* The members of a finite set by the order R, a set of pairs of an earlier and a
\* later member: the k-th is the one with k - 1 members before it.
InOrder(S, R) ==
    [k \in 1 .. Cardinality(S) |->
        CHOOSE i \in S : Cardinality({j \in S : <<j, i>> \in R}) = k - 1]

Ascending(I) == {e \in I \X I : e[1] < e[2]}

\* The elements of a list at the given places: a loop that appends what passes a test.
Sublist(s, I) ==
    LET places == InOrder(I, Ascending(I))
    IN  [k \in DOMAIN places |-> s[places[k]]]

\* The first elements of a list, at most count of them.
AtMost(n, count) == IF n < count THEN n ELSE count
UpTo(s, count) == SubSeq(s, 1, AtMost(Len(s), count))

-----------------------------------------------------------------------------
(* Seeds.                                                                  *)

\* fetchSeed for block n: the seed comes from the start of the seeder interval
\* before the block's; there is none in the first two.
Seed(n) ==
    LET epoch == n \div SeederInterval
    IN  IF epoch <= 1 THEN 0 ELSE (epoch - 1) * SeederInterval

\* FetchBlock: the seed of the block after n.
FutureSeed(n) == IF (n + 1) % SeederInterval = 0 THEN Seed(n + 1) ELSE Seed(n)

-----------------------------------------------------------------------------
(* The order of the proposers.                                             *)

PosNodes(vals) ==
    [i \in DOMAIN vals |->
        [master |-> vals[i].addr, active |-> vals[i].online, weight |-> vals[i].weight]]

\* The places of the validators that are active, and of those with a weight.
ActiveAt(vals) == {i \in DOMAIN vals : vals[i].status = "active"}
Weighted(vals) == {i \in DOMAIN vals : vals[i].weight # 0}

\* stats/slots: the validators with a weight.
ConvertStakerToPosNodes(vals) == PosNodes(Sublist(vals, Weighted(vals)))

\* Variant of CreateSlotsProposers: validators that are offline draw no number.
CreateSlotsProposersOnline(vals) ==
    PosNodes(Sublist(vals, {i \in ActiveAt(vals) : vals[i].online}))

\* stats/pos: the active validators.
CreateSlotsProposers(vals) == PosNodes(Sublist(vals, ActiveAt(vals)))

\* shufflePosNodes: every node draws a number, those that can propose are sorted
\* by draw over weight; the sort is stable.
ShufflePosNodes(nodes, seed, n) ==
    LET eligible == {i \in DOMAIN nodes : nodes[i].active /\ nodes[i].weight # 0}
        Score(i, j) == Draw(seed, n, i) * nodes[j].weight
        before == {e \in eligible \X eligible :
                    \/ Score(e[1], e[2]) < Score(e[2], e[1])
                    \/ Score(e[1], e[2]) = Score(e[2], e[1]) /\ e[1] < e[2]}
        order == InOrder(eligible, before)
    IN  [k \in DOMAIN order |-> nodes[order[k]].master]

NextBlockProposersPoS(nodes, seed, n, count) == UpTo(ShufflePosNodes(nodes, seed, n), count)

\* The places of a list of nodes by the hash of their masters.
ByHash(nodes, seed, n) ==
    {e \in (DOMAIN nodes) \X (DOMAIN nodes) :
        LET h1 == Hash(seed, n, nodes[e[1]].master)
            h2 == Hash(seed, n, nodes[e[2]].master)
        IN  h1 < h2 \/ (h1 = h2 /\ e[1] < e[2])}

\* shuffleAuthorityNodes: by the hash with the master's address, active or not.
ShuffleAuthorityNodes(nodes, seed, n) ==
    LET order == InOrder(DOMAIN nodes, ByHash(nodes, seed, n))
    IN  [k \in DOMAIN order |-> nodes[order[k]]]

NextBlockProposersPoA(nodes, seed, n, count) ==
    UpTo(ShuffleAuthorityNodes(nodes, seed, n), count)

\* AuthorityNodeList.GetActiveNodes.
GetActiveNodes(nodes) == Sublist(nodes, {i \in DOMAIN nodes : nodes[i].active})

\* authority.shuffleCandidates: the active ones only, as addresses.
ShuffleCandidates(candidates, seed, n) ==
    LET active == GetActiveNodes(candidates)
        order == InOrder(DOMAIN active, ByHash(active, seed, n))
    IN  [k \in DOMAIN order |-> active[order[k]].master]

-----------------------------------------------------------------------------
(* The handler "slots" on block n.                                         *)

\* calculatePoaProposers: future proposers, expected signer, number of active nodes.
CalculatePoaProposers(n, parentAuthNodes, authNodes) ==
    LET expected == NextBlockProposersPoA(parentAuthNodes, Seed(n), n - 1, FutureProposerCount)
        future == NextBlockProposersPoA(authNodes, FutureSeed(n), n, FutureProposerCount)
    IN  IF GetActiveNodes(parentAuthNodes) = <<>>
        THEN [future |-> <<>>, expected |-> NoAddress, count |-> 0]
        ELSE [future |-> [i \in DOMAIN future |-> future[i].master],
              expected |-> expected[1].master,
              count |-> Len(GetActiveNodes(authNodes))]

\* Variant of CalculatePosProposers: the expected signer is drawn with the
\* number of the block itself.
CalculatePosProposersOwnNumber(n, parentStaker, staker) ==
    LET expected == NextBlockProposersPoS(ConvertStakerToPosNodes(parentStaker), Seed(n), n, 1)
        nodes == ConvertStakerToPosNodes(staker)
    IN  [future |-> NextBlockProposersPoS(nodes, FutureSeed(n), n, FutureProposerCount),
         expected |-> IF expected = <<>> THEN NoAddress ELSE expected[1],
         count |-> Len(nodes)]

\* calculatePosProposers: future proposers, expected signer, number of nodes.
CalculatePosProposers(n, parentStaker, staker) ==
    LET expected ==
            NextBlockProposersPoS(ConvertStakerToPosNodes(parentStaker), Seed(n), n - 1, 1)
        nodes == ConvertStakerToPosNodes(staker)
    IN  IF nodes = <<>>
        THEN [future |-> <<>>, expected |-> NoAddress, count |-> 0]
        ELSE [future |-> NextBlockProposersPoS(nodes, FutureSeed(n), n, FutureProposerCount),
              expected |-> IF expected = <<>> THEN NoAddress ELSE expected[1],
              count |-> Len(nodes)]

-----------------------------------------------------------------------------
(* The scheduler of the thor library, and the handler "pos" on block n.    *)

\* pos.NewScheduler: the order of the proposers, with self counted as online.
SchedulerSequence(self, proposers, parentNumber, seed) ==
    ShufflePosNodes([i \in DOMAIN proposers |->
                        [proposers[i] EXCEPT !.active = @ \/ proposers[i].master = self]],
                    seed, parentNumber)

\* Whom IsScheduled accepts, gap seconds after the parent block.
ScheduledAt(sequence, gap) ==
    sequence[1 + (((gap - BlockInterval) \div BlockInterval) % Len(sequence))]

\* Variant of SkippedGaps: the block's own slot is taken for a skipped one.
SkippedGapsInclusive(gap) == {g \in 1 .. gap : g % BlockInterval = 0}

\* The times of MissedSlots' loop, between a block and its parent gap seconds before.
SkippedGaps(gap) == {g \in 1 .. gap - 1 : g % BlockInterval = 0}

\* MissedSlots: per skipped slot the online proposer it belonged to, and the
\* validators that would have had the block's own slot.  An error, here the empty
\* set of results, if the signer is not an active validator.
MissedSlots(n, vals, signer, gap) ==
    LET proposers == CreateSlotsProposers(vals)
        Sequence(self) == SchedulerSequence(self, proposers, n - 1, Seed(n))
        forced == {v \in ToSet(vals) : v.status = "active" /\ v.online}
    IN  IF \A i \in DOMAIN proposers : proposers[i].master # signer THEN {}
        ELSE {[online |-> {<<g, ScheduledAt(Sequence(signer), g)>> : g \in SkippedGaps(gap)},
               offline |-> {v.addr : v \in {u \in forced :
                    u.addr # signer /\ ScheduledAt(Sequence(u.addr), gap) = u.addr}}]}

\* Variant of PredictableSlots: the first block of the next epoch is included.
PredictableSlotsInclusive(n) == EpochLength - (n % EpochLength)

\* FutureSlots: how many blocks after n can be predicted.
PredictableSlots(n) == EpochLength - (n % EpochLength) - 1

\* FutureSlots indexes an empty list, and panics, if nobody can propose.
FutureSlotsPanics(n, vals) ==
    /\ PredictableSlots(n) > 0
    /\ ShufflePosNodes(CreateSlotsProposers(vals), Seed(n), n) = <<>>

\* FutureSlots: the predicted signers of the blocks n + 1, n + 2, ...
FutureSlots(n, vals) ==
    [i \in 1 .. PredictableSlots(n) |->
        NextBlockProposersPoS(CreateSlotsProposers(vals), Seed(n), n + i - 1, 101)[1]]
=============================================================================
