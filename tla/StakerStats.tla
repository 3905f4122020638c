----------------------------- MODULE StakerStats -----------------------------
(***************************************************************************)
(* The handlers "pos" (stats/pos/writer.go), "slots" and "blocks" on the   *)
(* events of a chain that changes to proof of stake (Hayabusa), and until  *)
(* then the order of proposers of the handler "authority".  Each step is   *)
(* one block: the chain's part (external) changes the staker contract and  *)
(* the authority nodes and names the signer; the handlers' part writes the *)
(* points.                                                                 *)
(*                                                                         *)
(* Events are handled in any order, but their points carry the block's     *)
(* time, so that whoever reads the measurement individual_validators reads *)
(* it in the order of the chain: recorded is what such a reader has put    *)
(* together from the *_changed fields.  Stakes, energy and the contract's  *)
(* own totals are left out.                                                *)
(***************************************************************************)
EXTENDS ProposerSlots

CONSTANTS
    Validators,         \* the addresses that may stake
    AuthorityNodes,     \* the masters of the authority nodes, in order
    Weights,            \* the weights of active validators, in VET
    Width,              \* the number of values of the unsigned type of weights
    ForkBlock,          \* hayabusaForkedBlock
    HayabusaTP,         \* blocks from there to hayabusaActiveBlock
    MaxBlock,           \* bound: the last block
    MaxGap              \* bound: the most slots between two blocks

ASSUME HayabusaAssumption ==
    /\ ForkBlock \in Nat \ {0} /\ HayabusaTP \in Nat \ {0}
    /\ MaxBlock \in Nat /\ MaxGap \in Nat \ {0}
    /\ Width \in Nat /\ Weights # {} /\ Weights \subseteq 1 .. Width - 1
    /\ NoAddress \notin Validators

\* Some authority nodes, no two with the same master, and hashes that are numbers.
ASSUME AuthorityAssumption ==
    /\ AuthorityNodes \in Seq(ToSet(AuthorityNodes)) \ {<<>>} /\ IsInjective(AuthorityNodes)
    /\ \A seed, n \in -1 .. ForkBlock + MaxBlock, a \in ToSet(AuthorityNodes) :
            Hash(seed, n, a) \in Nat

VARIABLES
    number,             \* event.Block.Number
    gap,                \* event.Block.Timestamp - event.Prev.Timestamp
    signer,             \* event.Block.Signer, NoAddress before proof of stake
    parentStaker,       \* event.ParentStaker: the validations at the parent
    staker,             \* event.Staker: the validations at the block
    parentAuthNodes,    \* event.ParentAuthNodes: the authority nodes at the parent
    authNodes,          \* event.AuthNodes: the authority nodes at the block
    recorded            \* what the points so far say of each validator, if anything

vars == <<number, gap, signer, parentStaker, staker, parentAuthNodes, authNodes, recorded>>

HayabusaActiveBlock == ForkBlock + HayabusaTP
Forked(n) == n >= ForkBlock
Active(n) == n >= HayabusaActiveBlock

Validation ==
    [addr : Validators, status : {"queued", "active"}, online : BOOLEAN,
     weight : {0} \cup Weights, exiting : BOOLEAN]

\* ValidationMap, as the set of the validations of an address.
At(vals, a) == {v \in ToSet(vals) : v.addr = a}
The(S) == CHOOSE x \in S : TRUE

\* FetchBlock asks for the authority nodes up to the first block of proof of stake.
FetchAuthorityNodes(n, nodes) == IF n <= HayabusaActiveBlock THEN nodes ELSE <<>>

\* The block before the fork: the contract is empty and nothing was written.
Init ==
    /\ number = ForkBlock - 1 /\ gap = BlockInterval /\ signer = NoAddress
    /\ parentStaker = <<>> /\ staker = <<>>
    /\ parentAuthNodes = [i \in DOMAIN AuthorityNodes |->
                            [master |-> AuthorityNodes[i], active |-> TRUE]]
    /\ authNodes = parentAuthNodes
    /\ recorded = [a \in Validators |-> {}]

-----------------------------------------------------------------------------
(* The handler "pos".                                                      *)

\* Variant of ValidatorPoint: a status is written when the validator appears only.
ValidatorPointFirstStatus(prev, v) ==
    [status_changed |-> IF prev = {} THEN {v.status} ELSE {},
     online_changed |->
        IF prev = {} \/ The(prev).online # v.online THEN {v.online} ELSE {},
     weight_changed |->
        IF prev # {} /\ The(prev).weight # v.weight
        THEN {(v.weight - The(prev).weight) % Width} ELSE {},
     total_weight |-> v.weight]

\* createSingleValidatorStats for a current validator; prev is its entry in
\* prevValidators, if any.  The difference of two unsigned weights wraps.
ValidatorPoint(prev, v) ==
    [status_changed |->
        IF prev = {} \/ The(prev).status # v.status THEN {v.status} ELSE {},
     online_changed |->
        IF prev = {} \/ The(prev).online # v.online THEN {v.online} ELSE {},
     weight_changed |->
        IF prev # {} /\ The(prev).weight # v.weight
        THEN {(v.weight - The(prev).weight) % Width} ELSE {},
     total_weight |-> v.weight]

\* The reader's side: the first point of a validator gives its weight, later ones
\* the change of it; a point with the status "exited" ends the record.
Replay(record, p) ==
    LET old == The(record)
    IN  {[status |-> IF p.status_changed # {} THEN The(p.status_changed) ELSE old.status,
          online |-> IF p.online_changed # {} THEN The(p.online_changed) ELSE old.online,
          weight |-> IF record = {} THEN p.total_weight
                     ELSE IF p.weight_changed = {} THEN old.weight
                     ELSE (old.weight + The(p.weight_changed)) % Width]}

\* createSingleValidatorStats: one point per current validator, and one with
\* status "exited" per validator of the parent block that is gone.
CreateSingleValidatorStats(prev, cur) ==
    [a \in Validators |->
        IF At(cur, a) # {} THEN Replay(recorded[a], ValidatorPoint(At(prev, a), The(At(cur, a))))
        ELSE IF At(prev, a) # {} THEN {}
        ELSE recorded[a]]

\* createValidatorOverview: counts and weights of the active validators.  The sum of
\* weights is the number of their units.
Overview(vals) ==
    LET leaderGroup == {v \in ToSet(vals) : v.status = "active"}
        online == {v \in leaderGroup : v.online}
    IN  [active_validators |-> Cardinality(leaderGroup),
         online_validators |-> Cardinality(online),
         online_weight |-> Cardinality({e \in online \X (1 .. Width) : e[2] <= e[1].weight}),
         signer_weight |-> {v.weight : v \in {u \in leaderGroup : u.addr = signer}}]

\* Write: nothing before the fork.  A panic in FutureSlots loses the points of the
\* whole handler, the ones made before it too.
PosWrite(n, prev, cur) ==
    recorded' =
        IF ~Forked(n) \/ (Active(n) /\ FutureSlotsPanics(n, cur))
        THEN recorded
        ELSE CreateSingleValidatorStats(prev, cur)

\* createSlotPoints on the last block: missed and future slots.  Nothing before proof of
\* stake, nor after an error of MissedSlots.
CreateSlotPoints ==
    IF ~Active(number) THEN {}
    ELSE {[missed |-> m.online, offline_missed |-> m.offline,
           future |-> FutureSlots(number, staker)] :
                m \in MissedSlots(number, staker, signer, gap)}

\* slots.Write on block n, and on the last block.
SlotsPoint(n, parentVals, vals, parentNodes, nodes) ==
    IF Active(n) THEN CalculatePosProposers(n, parentVals, vals)
    ELSE CalculatePoaProposers(n, parentNodes, nodes)
SlotsWrite == SlotsPoint(number, parentStaker, staker, parentAuthNodes, authNodes)

\* blockstats.Write: recent_missed_slots.
RecentMissedSlots(g) == ((g + BlockInterval - 1) \div BlockInterval) - 1

-----------------------------------------------------------------------------
(* The chain (external): what the staker contract does between two blocks. *)

Queued(a) == [addr |-> a, status |-> "queued", online |-> TRUE, weight |-> 0, exiting |-> FALSE]

StakersOf(vals) == {v.addr : v \in ToSet(vals)}
QueuedAt(vals) == DOMAIN vals \ ActiveAt(vals)

\* At an epoch validators that signalled leave, at most one changes its weight, and
\* the first of the queue may become active.  Someone stays to make blocks.
Exits(vals) == Sublist(vals, {i \in DOMAIN vals : ~vals[i].exiting})
Renewals(vals) ==
    {vals} \cup {[vals EXCEPT ![i].weight = w] : i \in ActiveAt(vals), w \in Weights}
Activations(vals) ==
    LET n == Cardinality(ActiveAt(vals))
    IN  UNION {{[i \in DOMAIN vals |->
                    IF i \in n + 1 .. n + k
                    THEN [vals[i] EXCEPT !.status = "active", !.weight = w] ELSE vals[i]] :
                        w \in Weights} : k \in 0 .. Len(vals) - n}
Housekeep(vals) ==
    {after \in UNION {Activations(r) : r \in Renewals(Exits(vals))} : ActiveAt(after) # {}}

\* One transaction: nothing, a new validator in the queue, one leaving the queue, a
\* signalled exit.  The last one that stays does not leave.
Transactions(vals) ==
    {vals}
    \cup {Append(vals, Queued(a)) : a \in Validators \ StakersOf(vals)}
    \cup {Sublist(vals, DOMAIN vals \ {i}) : i \in QueuedAt(vals)}
    \cup {[vals EXCEPT ![i].exiting = TRUE] : i \in
            {j \in ActiveAt(vals) : \E l \in ActiveAt(vals) \ {j} : ~vals[l].exiting}}

\* The signer of a block is online after it; another validator may go offline.
OnlineAfter(vals, s) ==
    LET signed == [i \in DOMAIN vals |-> [vals[i] EXCEPT !.online = @ \/ vals[i].addr = s]]
    IN  {signed} \cup {[signed EXCEPT ![i].online = FALSE] :
                            i \in {j \in ActiveAt(vals) : vals[j].addr # s}}

\* An authority node may become active or inactive; someone stays to make blocks.
AuthorityAfter(nodes) ==
    {nodes} \cup {after \in {[nodes EXCEPT ![i].active = ~@] : i \in DOMAIN nodes} :
                    \E i \in DOMAIN after : after[i].active}

\* A block between the fork and proof of stake, signed by an authority node.
TransitionBlock ==
    /\ number < MaxBlock /\ ~Active(number + 1)
    /\ number' = number + 1 /\ gap' = BlockInterval /\ signer' = NoAddress
    /\ parentStaker' = staker
    /\ staker' \in Transactions(staker)
    /\ Active(number + 2) => staker' # <<>>
    /\ parentAuthNodes' = authNodes
    /\ authNodes' \in AuthorityAfter(authNodes)
    /\ PosWrite(number', staker, staker')

\* The next block is signed by s, whose turn it is on the validators vals.
SignedBlock(vals) ==
    \E s \in Validators, k \in 1 .. MaxGap :
        LET proposers == CreateSlotsProposers(vals)
        IN  /\ \E i \in DOMAIN proposers : proposers[i].master = s
            /\ ScheduledAt(SchedulerSequence(s, proposers, number, Seed(number + 1)),
                           k * BlockInterval) = s
            /\ number' = number + 1 /\ gap' = k * BlockInterval /\ signer' = s
            /\ parentStaker' = staker
            /\ staker' \in UNION {OnlineAfter(t, s) : t \in Transactions(vals)}
            /\ parentAuthNodes' = authNodes
            /\ authNodes' = FetchAuthorityNodes(number', authNodes)
            /\ PosWrite(number', staker, staker')

IsEpochBlock(n) == n % EpochLength = 0 \/ n = HayabusaActiveBlock

Block ==
    /\ number < MaxBlock /\ Active(number + 1) /\ ~IsEpochBlock(number + 1)
    /\ SignedBlock(staker)

EpochBlock ==
    /\ number < MaxBlock /\ Active(number + 1) /\ IsEpochBlock(number + 1)
    /\ \E vals \in Housekeep(staker) : SignedBlock(vals)

\* The chain is not followed further.
Ended == number = MaxBlock /\ UNCHANGED vars

Next == TransitionBlock \/ Block \/ EpochBlock \/ Ended

Spec == Init /\ [][Next]_vars

-----------------------------------------------------------------------------
(* Properties.                                                             *)

\* Reading the *_changed fields of individual_validators block after block gives
\* exactly the contract's validators, their status, whether they are online and
\* their weight: no change is missed or written twice, and the wrapped
\* differences of weights add up.
ChangesAddUp ==
    \A a \in Validators :
        recorded[a] = {[status |-> v.status, online |-> v.online, weight |-> v.weight] :
                            v \in At(staker, a)}

\* Every slot skipped before a block is charged to exactly one proposer: the number
\* of dpos_missed_slots is recent_missed_slots, which another handler computes
\* from the two timestamps.
SkippedSlotsCharged ==
    Active(number) =>
        \E p \in CreateSlotPoints : Cardinality(p.missed) = RecentMissedSlots(gap)

\* The masters of the nodes that are active.
Proposing(nodes) == {v.master : v \in {u \in ToSet(nodes) : u.active = TRUE}}

\* Two handlers that see the same event through different queries agree.  Under proof
\* of authority the active nodes among the proposers "slots" writes are the first of
\* those of "authority", in its order, and all of them if there are at most ten nodes;
\* the expected signer, if active, is the first of "authority"; and the number of
\* active nodes is the same.  (The nodes "slots" writes that are not active are the
\* subject of SameOrderAsAuthority.)  Under proof of stake "slots" and "pos" agree on
\* the next proposer, as far as "pos" predicts, and on the number of nodes and of
\* those that can propose; and the signer's weight is part of the online weight its
\* probability is computed from.
HandlersAgree ==
    /\ ~Active(number) =>
        LET slots == SlotsWrite
            listed == Sublist(slots.future, {i \in DOMAIN slots.future :
                                                slots.future[i] \in Proposing(authNodes)})
            candidates == ShuffleCandidates(authNodes, FutureSeed(number), number)
        IN  /\ slots.expected \in Proposing(parentAuthNodes) =>
                slots.expected = ShuffleCandidates(parentAuthNodes, Seed(number), number - 1)[1]
            /\ listed = SubSeq(candidates, 1, Len(listed))
            /\ Len(authNodes) <= FutureProposerCount => Len(listed) = Len(candidates)
            /\ slots.count = Cardinality(Proposing(authNodes))
    /\ \A p \in CreateSlotPoints :
           LET slots == SlotsWrite
               overview == Overview(staker)
           IN  /\ p.future # <<>> => slots.future # <<>> /\ p.future[1] = slots.future[1]
               /\ slots.count = overview.active_validators
               /\ Len(slots.future) = AtMost(overview.online_validators, FutureProposerCount)
               /\ \A w \in overview.signer_weight : w <= overview.online_weight

\* "Shuffle the active authority nodes using the same algorithm as authority package"
\* (stats/slots/calculator.go:40): the proposers "slots" writes are the first ten of
\* the candidates as "authority" orders them.  It is violated: shuffleAuthorityNodes
\* does not leave out the nodes that are not active.
SameOrderAsAuthority ==
    ~Active(number) =>
        SlotsWrite.future =
            UpTo(ShuffleCandidates(authNodes, FutureSeed(number), number), FutureProposerCount)

\* The signer a block was expected to have is the first of the future proposers
\* written with the block before, across seed changes too, under either consensus.
ExpectedWasPredicted ==
    [][LET future == SlotsWrite.future
           next == SlotsPoint(number', parentStaker', staker', parentAuthNodes', authNodes')
       IN  number' > number /\ (Active(number) \/ ~Active(number + 1)) =>
            next.expected = IF future = <<>> THEN NoAddress ELSE future[1]]_vars

\* A prediction of FutureSlots for the next block comes true if no slot is skipped
\* and the signer was online, although it uses the block's own seed: it stops
\* before the epoch's end, and a seed only changes there.
PredictionComesTrue ==
    [][LET predicted == FutureSlots(number, staker)
       IN  (/\ Active(number) /\ gap' = BlockInterval
            /\ \E v \in At(staker, signer') : v.online
            /\ predicted # <<>>)
           => signer' = predicted[1]]_<<number>>
=============================================================================
