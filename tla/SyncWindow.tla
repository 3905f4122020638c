----------------------------- MODULE SyncWindow -----------------------------
(***************************************************************************)
(* The arithmetic that decides which block heights are synchronised:       *)
(* NewPublisher (pubsub/publisher.go) limits the number of blocks to go    *)
(* back by the chain's length and by what the database holds, and          *)
(* NewBackwardSyncer (pubsub/backward_syncer.go) derives the lowest height *)
(* from it.  All numbers are uint32 in the code; Sub32 is the subtraction  *)
(* of that type, of which Width is the modulus.                            *)
(***************************************************************************)
EXTENDS Integers

CONSTANT Width      \* 2^32 in the code

ASSUME WidthAssumption == Width \in Nat /\ Width > 1

UInt == 0 .. Width - 1

\* Unsigned subtraction: it wraps.
Sub32(a, b) == IF a >= b THEN a - b ELSE a - b + Width

\* The block both syncers start from: the end block if there is one, otherwise
\* the finalized block; the genesis block is replaced by block 1.
FirstBlock(endBlock, finalized) ==
    LET requested == IF endBlock # 0 THEN endBlock ELSE finalized
    IN  IF requested = 0 THEN 1 ELSE requested

\* The block the forward syncer takes as already processed.
PreviousBlock(endBlock, finalized) ==
    LET requested == IF endBlock # 0 THEN endBlock ELSE finalized
    IN  IF requested = 0 THEN 0 ELSE Sub32(requested, 1)

\* Variant of BackSyncBlocks: the chain's length does not limit it.
BackSyncUnlimited(first, back, latest) ==
    IF latest > Sub32(first, back)
    THEN IF latest >= first THEN 0 ELSE Sub32(first, latest)
    ELSE back

\* Variant of BackSyncBlocks: the first block after the database's latest is lost.
BackSyncOneShort(first, back, latest) ==
    LET limited == IF back > first THEN Sub32(first, 1) ELSE back
    IN  IF latest > Sub32(first, limited)
        THEN IF latest >= first THEN 0 ELSE Sub32(first, latest) - 1
        ELSE limited

\* The number of blocks to go back from first, when the command asks for back
\* blocks and the database's latest block is latest (0 when it has none).
BackSyncBlocks(first, back, latest) ==
    LET limited == IF back > first THEN Sub32(first, 1) ELSE back
    IN  IF latest > Sub32(first, limited)
        THEN IF latest >= first THEN 0 ELSE Sub32(first, latest)
        ELSE limited

\* The height at which the backward syncer stops, itself excluded.
MinBlock(head, backSync) == IF head > backSync THEN Sub32(head, backSync) ELSE 0

\* The heights the backward syncer generates, by its loop's condition.
Generated(head, minBlock) == {n \in UInt : n <= head /\ n > minBlock /\ n > 0}

\* The heights handed to the backward workers for the given inputs.
BackWindow(first, back, latest) ==
    Generated(first, MinBlock(first, BackSyncBlocks(first, back, latest)))
-----------------------------------------------------------------------------
(* What the window should be, stated without the code's intermediate steps *)
(* and without modular arithmetic.                                         *)

\* The last `back` heights up to first, without those the database already has.
RequestedWindow(first, back, latest) ==
    {n \in UInt : n >= 1 /\ n <= first /\ n > first - back /\ n > latest}

\* The code's one departure from it: asked for more blocks than the chain has,
\* it leaves out block 1.
ClippedWindow(first, back, latest) ==
    RequestedWindow(first, back, latest) \ (IF back > first THEN {1} ELSE {})
=============================================================================
