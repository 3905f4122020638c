------------------------------ MODULE Restart ------------------------------
(***************************************************************************)
(* What the database holds over several lives of the process.  Each start  *)
(* asks the database for its latest block (influxdb.go, Latest) and        *)
(* derives from it what is still to be synchronised (NewPublisher); the    *)
(* backward workers store their heights in any order, the forward syncer   *)
(* in sequence; the process may end at any moment (a crash, os.Exit of the *)
(* forward syncer, or main returning without Stop), and what was not yet   *)
(* stored is lost.  Heights only: forks are modelled in ForkSync.          *)
(***************************************************************************)
EXTENDS SyncWindow, FiniteSets, FiniteSetsExt

CONSTANTS
    Back,           \* --thor-blocks
    MaxNum,         \* bound: the height the node reaches
    MaxStops,       \* bound: how often the process ends
    MaxFails        \* bound: how many heights ProcessBlock fails for

ASSUME RestartAssumption ==
    /\ Back \in UInt /\ MaxNum \in UInt
    /\ MaxStops \in Nat /\ MaxFails \in Nat

VARIABLES
    up,             \* the process runs
    best, final,    \* the node's best and finalized heights
    stored,         \* heights whose points are in the database
    found,          \* what Latest answered at the last start
    startBlock,     \* the block the last start began from
    backward,       \* heights of the backward syncer that are still to be stored
    prev,           \* the forward syncer's last block
    inFlight,       \* forward heights sent and not yet stored
    floor,          \* history: the lowest height any start asked for
    stops, fails    \* how often the process ended; how often a block failed

vars == <<up, best, final, stored, found, startBlock, backward, prev, inFlight, floor, stops, fails>>

Heights == 0 .. MaxNum

TypeOK ==
    /\ up \in BOOLEAN
    /\ {best, final, found, startBlock, prev, floor} \subseteq Heights
    /\ stored \cup backward \cup inFlight \subseteq Heights \ {0}
    /\ stops \in 0 .. MaxStops /\ fails \in 0 .. MaxFails

Init ==
    /\ up = FALSE
    /\ best \in 1 .. MaxNum /\ final \in 0 .. best
    /\ stored = {} /\ found = 0 /\ startBlock = 0
    /\ backward = {} /\ prev = 0 /\ inFlight = {}
    /\ floor = MaxNum
    /\ stops = 0 /\ fails = 0

\* db.Latest: the newest stored block, 0 when there is none.
Latest == IF stored = {} THEN 0 ELSE Max(stored)

\* NewPublisher, with no end block.  A failed query of the latest block counts
\* as an empty database.
Start ==
    /\ ~up
    /\ up' = TRUE
    /\ startBlock' = FirstBlock(0, final)
    /\ found' \in {Latest, 0}
    /\ backward' = BackWindow(startBlock', Back, found')
    /\ prev' = PreviousBlock(0, final)
    /\ LET lowest == MinBlock(startBlock', BackSyncBlocks(startBlock', Back, found'))
       IN  floor' = Min({floor, prev' + 1, lowest + 1})
    /\ UNCHANGED <<best, final, stored, inFlight, stops, fails>>

\* A backward height is fetched, computed and stored, in any order.
StoreBackward(h) ==
    /\ up /\ h \in backward
    /\ backward' = backward \ {h}
    /\ stored' = stored \cup {h}
    /\ UNCHANGED <<up, best, final, found, startBlock, prev, inFlight, floor, stops, fails>>

\* ProcessBlock fails for a backward height, which is only logged.
FailBackward(h) ==
    /\ up /\ h \in backward
    /\ fails < MaxFails
    /\ backward' = backward \ {h}
    /\ fails' = fails + 1
    /\ UNCHANGED <<up, best, final, stored, found, startBlock, prev, inFlight, floor, stops>>

\* Variant of SendForward: the position advances though the event was not sent.
SendForwardOrDrop ==
    /\ up /\ prev < best
    /\ prev' = prev + 1
    /\ inFlight' \in {inFlight, inFlight \cup {prev + 1}}
    /\ UNCHANGED <<up, best, final, stored, found, startBlock, backward, floor, stops, fails>>

\* The forward syncer sends the next block ...
SendForward ==
    /\ up /\ prev < best
    /\ prev' = prev + 1
    /\ inFlight' = inFlight \cup {prev + 1}
    /\ UNCHANGED <<up, best, final, stored, found, startBlock, backward, floor, stops, fails>>

\* ... which is stored later.
StoreForward(h) ==
    /\ up /\ h \in inFlight
    /\ inFlight' = inFlight \ {h}
    /\ stored' = stored \cup {h}
    /\ UNCHANGED <<up, best, final, found, startBlock, backward, prev, floor, stops, fails>>

\* The process ends; what it held is lost.
Stop ==
    /\ up /\ stops < MaxStops
    /\ up' = FALSE
    /\ backward' = {} /\ inFlight' = {}
    /\ stops' = stops + 1
    /\ UNCHANGED <<best, final, stored, found, startBlock, prev, floor, fails>>

NewBlock ==
    /\ best < MaxNum
    /\ best' = best + 1
    /\ UNCHANGED <<up, final, stored, found, startBlock, backward, prev, inFlight, floor, stops, fails>>

Finalize ==
    /\ final < best
    /\ final' = final + 1
    /\ UNCHANGED <<up, best, stored, found, startBlock, backward, prev, inFlight, floor, stops, fails>>

\* Everything is stored and nothing more happens.
Idle ==
    /\ up /\ backward = {} /\ inFlight = {} /\ prev = best
    /\ UNCHANGED vars

Next ==
    \/ Start
    \/ \E h \in Heights : StoreBackward(h) \/ FailBackward(h) \/ StoreForward(h)
    \/ SendForward
    \/ Stop
    \/ NewBlock
    \/ Finalize
    \/ Idle

Spec == Init /\ [][Next]_vars
-----------------------------------------------------------------------------
(* Properties.                                                             *)

Covered == stored \cup backward \cup inFlight

Missing == {h \in 2 .. prev : h > found /\ h > startBlock - Back /\ h \notin Covered}

\* Whatever was lost before, a start takes up everything above the database's
\* latest block: each height up to the forward syncer's position and within the
\* requested distance is stored or on its way, unless fetching it failed.
NothingMissingAboveLatest == up => Cardinality(Missing) <= fails

\* A process that never ended and never failed to fetch has no hole in what it
\* has synchronised, block 1 (see ClippedWindow) aside.
NoHolesInOneLife ==
    up /\ stops = 0 /\ fails = 0 => \A h \in floor .. prev : h > 1 => h \in Covered

\* What makes the two inductive: the finalized block is not above the best one,
\* the database has a newest block unless it is empty, a process that is down
\* holds nothing, and none has asked for a height before the first start.
IndInv ==
    /\ TypeOK
    /\ best >= 1 /\ final <= best
    /\ stored # {} => \E m \in stored : \A h \in stored : m >= h
    /\ ~up => backward = {} /\ inFlight = {}
    /\ ~up /\ stops = 0 => floor = MaxNum
    /\ NothingMissingAboveLatest
    /\ NoHolesInOneLife
=============================================================================
