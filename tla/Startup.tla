------------------------------ MODULE Startup ------------------------------
(***************************************************************************)
(* cmd/thorflux/thorflux.go, New, with pubsub/publisher.go, NewPublisher,  *)
(* and the part of cmd/main.go that uses the result: the steps of start-up *)
(* in order, each of which may fail, and the synchronisation window they   *)
(* compute.  The node and the database answer each request once, with a    *)
(* value or with an error.                                                 *)
(***************************************************************************)
EXTENDS SyncWindow

CONSTANT MaxFlag    \* bound: the largest value of a uint64 flag that is tried

ASSUME MaxFlagAssumption == MaxFlag \in Nat /\ MaxFlag >= Width

VARIABLES
    step,           \* what New does next, or how it ended
    blocks,         \* --thor-blocks, a uint64
    endBlock,       \* --end-block, a uint64
    finalized,      \* the node's finalized block
    first,          \* NewPublisher: first.Number
    previous,       \* NewPublisher: previous.Number
    latest,         \* NewPublisher: latest
    window,         \* the heights the backward syncer will generate
    forward         \* whether a forward syncer is created

startupVars == <<step, blocks, endBlock, finalized, first, previous, latest, window, forward>>

Steps == {"influx", "genesis", "checkBlocks", "fetchFirst", "fetchPrevious",
          "queryLatest", "subscriber", "running", "exit", "nilCmd", "panic"}

StartupTypeOK ==
    /\ step \in Steps
    /\ blocks \in 0 .. MaxFlag /\ endBlock \in 0 .. MaxFlag
    /\ finalized \in UInt /\ first \in UInt /\ previous \in UInt /\ latest \in UInt
    /\ window \in SUBSET UInt
    /\ forward \in BOOLEAN

StartupInit ==
    /\ step = "influx"
    /\ blocks \in 0 .. MaxFlag
    /\ endBlock \in 0 .. MaxFlag
    /\ finalized \in UInt
    /\ first = 0 /\ previous = 0 /\ latest = 0
    /\ window = {}
    /\ forward = FALSE

inputs == <<blocks, endBlock, finalized>>
computed == <<first, previous, latest, window, forward>>

\* The conversions uint32(opts.Blocks) and uint32(opts.EndBlock).
Back32 == blocks % Width
End32 == endBlock % Width

\* A request of step s fails: New returns the error and main exits with 1.
Fail(s) ==
    /\ step = s
    /\ step' = "exit"
    /\ UNCHANGED <<inputs, computed>>

\* influxdb.New: the database answers the ping.
ConnectInflux ==
    /\ step = "influx"
    /\ step' = "genesis"
    /\ UNCHANGED <<inputs, computed>>

\* setGenesisConfig: a custom genesis is parsed and its fields are not checked.
LoadGenesis ==
    /\ step = "genesis"
    /\ step' = "checkBlocks"
    /\ UNCHANGED <<inputs, computed>>

\* The range check of --thor-blocks: it returns err, which is nil here, so that
\* main goes on with a nil command.
CheckBlocks ==
    /\ step = "checkBlocks"
    /\ step' = IF blocks > Width - 1 THEN "nilCmd" ELSE "fetchFirst"
    /\ UNCHANGED <<inputs, computed>>

\* NewPublisher fetches the end block, or the finalized one.
FetchFirst ==
    /\ step = "fetchFirst"
    /\ first' = FirstBlock(End32, finalized)
    /\ step' = "fetchPrevious"
    /\ UNCHANGED <<inputs, previous, latest, window, forward>>

\* It does, but the custom genesis lacks the fork config, the config or HayabusaTP,
\* whose pointers are followed next: the process ends in a panic.
IncompleteGenesis ==
    /\ step = "fetchFirst"
    /\ step' = "panic"
    /\ UNCHANGED <<inputs, computed>>

\* NewPublisher fetches the block before it.
FetchPrevious ==
    /\ step = "fetchPrevious"
    /\ previous' = PreviousBlock(End32, finalized)
    /\ step' = "queryLatest"
    /\ UNCHANGED <<inputs, first, latest, window, forward>>

\* db.Latest answers l; a failed query counts as an empty database.  The
\* publisher and its syncers are created.
QueryLatest(l) ==
    /\ step = "queryLatest"
    /\ latest' = l
    /\ window' = BackWindow(first, Back32, l)
    /\ forward' = (End32 = 0)
    /\ step' = "subscriber"
    /\ UNCHANGED <<inputs, first, previous>>

\* NewSubscriber reads the chain tag; New returns the command and main runs it.
CreateSubscriber ==
    /\ step = "subscriber"
    /\ step' = "running"
    /\ UNCHANGED <<inputs, computed>>

\* Start-up is over.
Ended == step \in {"running", "exit", "nilCmd", "panic"} /\ UNCHANGED startupVars

StartupNext ==
    \/ ConnectInflux
    \/ LoadGenesis
    \/ CheckBlocks
    \/ FetchFirst
    \/ IncompleteGenesis
    \/ FetchPrevious
    \/ \E l \in UInt : QueryLatest(l)
    \/ CreateSubscriber
    \/ \E s \in {"influx", "genesis", "fetchFirst", "fetchPrevious", "subscriber"} : Fail(s)
    \/ Ended

StartupSpec == StartupInit /\ [][StartupNext]_startupVars
-----------------------------------------------------------------------------
(* Properties.                                                             *)

Created == step \in {"subscriber", "running"}

\* The window the chain of limits in NewPublisher and NewBackwardSyncer yields
\* is the requested one less what the database holds (and less block 1 when
\* more blocks are asked for than exist): no unsigned subtraction on the way
\* wraps around, for any flags, chain and database.
WindowIsRequested ==
    Created => window = ClippedWindow(first, Back32, latest)

\* The two syncers leave no gap between them: every height above the database's
\* latest block and within the requested distance is generated by the backward
\* syncer or comes after the block the forward syncer starts from.
NoGapBetweenSyncers ==
    Created /\ forward =>
        \A n \in UInt : n > first - Back32 /\ n > latest /\ n > 1 =>
            n \in window \/ n > previous
=============================================================================
