---------------------------- MODULE RestartProofs ----------------------------
(***************************************************************************)
(* Proofs about the heights that a start of the process takes up: about    *)
(* SyncWindow and Startup, for every width of the integers, that is for    *)
(* uint32 itself, and about Restart, for chains of any length and any      *)
(* number of lives of the process and of failed blocks.                    *)
(***************************************************************************)
EXTENDS Startup, Restart, FiniteSetTheorems, TLAPS

-----------------------------------------------------------------------------
(* One start.                                                              *)

\* NewPublisher's limits never wrap: the distance to go back is at most the start
\* block's height, and the lowest height is their plain difference.
LEMMA LimitsDoNotWrap ==
    ASSUME NEW f \in UInt \ {0}, NEW back \in UInt, NEW l \in UInt
    PROVE  /\ BackSyncBlocks(f, back, l) \in 0 .. f
           /\ MinBlock(f, BackSyncBlocks(f, back, l)) = f - BackSyncBlocks(f, back, l)
BY WidthAssumption DEF BackSyncBlocks, MinBlock, Sub32, UInt

\* The heights NewBackwardSyncer generates are the requested ones the database
\* does not hold, less block 1 when more blocks are asked for than exist.
THEOREM WindowExact ==
    ASSUME NEW f \in UInt \ {0}, NEW back \in UInt, NEW l \in UInt
    PROVE  BackWindow(f, back, l) = ClippedWindow(f, back, l)
<1> DEFINE b == BackSyncBlocks(f, back, l)
           m == MinBlock(f, b)
<1>1. f \in Int /\ back \in Int /\ l \in Int /\ f >= 1 /\ back >= 0 /\ l >= 0
    BY WidthAssumption DEF UInt
<1>2. b \in 0 .. f /\ m = f - b
    BY LimitsDoNotWrap
<1>3. CASE back > f
    <2>1. b = IF l > 1 THEN (IF l >= f THEN 0 ELSE f - l) ELSE f - 1
        BY <1>1, <1>3, WidthAssumption DEF BackSyncBlocks, Sub32, UInt
    <2>2. ASSUME NEW n \in UInt
          PROVE  n <= f /\ n > m /\ n > 0 <=>
                 /\ n >= 1 /\ n <= f /\ n > f - back /\ n > l
                 /\ n # 1
        BY <1>1, <1>2, <1>3, <2>1, WidthAssumption DEF UInt
    <2> QED BY <1>3, <2>2 DEF BackWindow, Generated, ClippedWindow, RequestedWindow
<1>4. CASE ~(back > f)
    <2>1. b = IF l > f - back THEN (IF l >= f THEN 0 ELSE f - l) ELSE back
        BY <1>1, <1>4, WidthAssumption DEF BackSyncBlocks, Sub32, UInt
    <2>2. ASSUME NEW n \in UInt
          PROVE  n <= f /\ n > m /\ n > 0 <=>
                 n >= 1 /\ n <= f /\ n > f - back /\ n > l
        BY <1>1, <1>2, <1>4, <2>1, WidthAssumption DEF UInt
    <2> QED BY <1>4, <2>2 DEF BackWindow, Generated, ClippedWindow, RequestedWindow
<1> QED BY <1>3, <1>4

\* What each step of start-up has computed when the next one begins.
StartupInv ==
    /\ StartupTypeOK
    /\ step \in {"fetchPrevious", "queryLatest", "subscriber", "running"} =>
         first = FirstBlock(End32, finalized)
    /\ step \in {"queryLatest", "subscriber", "running"} =>
         previous = PreviousBlock(End32, finalized)
    /\ Created => window = BackWindow(first, Back32, latest)

\* The conversions to uint32 yield a uint32.
LEMMA Conversions ==
    ASSUME StartupTypeOK
    PROVE  Back32 \in UInt /\ End32 \in UInt
BY WidthAssumption, MaxFlagAssumption DEF StartupTypeOK, Back32, End32, UInt

\* The start block is never the genesis block, and the forward syncer starts one
\* below it.
LEMMA StartupBlock ==
    ASSUME NEW e \in UInt, NEW n \in UInt
    PROVE  /\ FirstBlock(e, n) \in UInt \ {0}
           /\ PreviousBlock(e, n) \in UInt
           /\ PreviousBlock(e, n) = FirstBlock(e, n) - 1
BY WidthAssumption DEF FirstBlock, PreviousBlock, Sub32, UInt

\* Every step of New keeps to StartupInv.
LEMMA StartupInvariance == StartupSpec => []StartupInv
<1> USE DEF inputs, computed
<1>1. StartupInit => StartupInv
    <2>1. 0 \in UInt
        BY WidthAssumption DEF UInt
    <2> QED BY <2>1 DEF StartupInit, StartupInv, StartupTypeOK, Steps, Created
<1>2. StartupInv /\ [StartupNext]_startupVars => StartupInv'
    <2> SUFFICES ASSUME StartupInv, [StartupNext]_startupVars PROVE StartupInv'
        OBVIOUS
    <2> USE DEF StartupInv
    <2>1. Back32 \in UInt /\ End32 \in UInt /\ finalized \in UInt
        BY Conversions DEF StartupTypeOK
    <2>2. CASE ConnectInflux \/ LoadGenesis \/ CheckBlocks \/ IncompleteGenesis
        BY <2>2 DEF ConnectInflux, LoadGenesis, CheckBlocks, IncompleteGenesis, StartupTypeOK, Steps, Created
    <2>3. CASE FetchFirst
        <3>1. first' \in UInt
            BY <2>1, <2>3, StartupBlock DEF FetchFirst
        <3> QED BY <2>3, <3>1 DEF FetchFirst, StartupTypeOK, Steps, Created, End32
    <2>4. CASE FetchPrevious
        <3>1. previous' \in UInt
            BY <2>1, <2>4, StartupBlock DEF FetchPrevious
        <3> QED BY <2>4, <3>1 DEF FetchPrevious, StartupTypeOK, Steps, Created, End32
    <2>5. ASSUME NEW l \in UInt, QueryLatest(l) PROVE StartupInv'
        <3>1. window' \in SUBSET UInt
            BY <2>5 DEF QueryLatest, BackWindow, Generated
        <3>2. UNCHANGED <<inputs, first, previous>> /\ Back32' = Back32 /\ End32' = End32
            BY <2>5 DEF QueryLatest, Back32, End32
        <3>3. StartupTypeOK'
            BY <2>5, <3>1 DEF QueryLatest, StartupTypeOK, Steps
        <3> QED BY <2>5, <3>2, <3>3 DEF QueryLatest, Created
    <2>6. CASE CreateSubscriber
        BY <2>6 DEF CreateSubscriber, StartupTypeOK, Steps, Created, End32, Back32
    <2>7. ASSUME NEW s, Fail(s) PROVE StartupInv'
        BY <2>7 DEF Fail, StartupTypeOK, Steps, Created
    <2>8. CASE UNCHANGED startupVars
        BY <2>8 DEF startupVars, StartupTypeOK, Created, End32, Back32
    <2> QED BY <2>2, <2>3, <2>4, <2>5, <2>6, <2>7, <2>8 DEF StartupNext, Ended
<1> QED BY <1>1, <1>2, PTL DEF StartupSpec

\* In every start-up, for every uint32 width, the backward syncer's heights are the
\* requested ones the database does not hold.
THEOREM WindowCorrect == StartupSpec => []WindowIsRequested
<1>1. StartupInv => WindowIsRequested
    <2> SUFFICES ASSUME StartupInv, Created PROVE window = ClippedWindow(first, Back32, latest)
        BY DEF WindowIsRequested
    <2>1. first \in UInt \ {0} /\ Back32 \in UInt /\ latest \in UInt
        BY Conversions, StartupBlock DEF StartupInv, StartupTypeOK, Created
    <2> QED BY <2>1, WindowExact DEF StartupInv
<1> QED BY <1>1, StartupInvariance, PTL

\* The backward and the forward syncer leave no height between them.
THEOREM NoGap == StartupSpec => []NoGapBetweenSyncers
<1>1. StartupInv => NoGapBetweenSyncers
    <2> SUFFICES ASSUME StartupInv, Created, NEW n \in UInt,
                        n > first - Back32, n > latest, n > 1
                 PROVE  n \in window \/ n > previous
        BY DEF NoGapBetweenSyncers
    <2>1. first \in UInt \ {0} /\ Back32 \in UInt /\ latest \in UInt /\ previous = first - 1
        BY Conversions, StartupBlock DEF StartupInv, StartupTypeOK, Created
    <2>2. window = ClippedWindow(first, Back32, latest)
        BY <2>1, WindowExact DEF StartupInv
    <2>3. CASE n <= first
        <3>1. n \in RequestedWindow(first, Back32, latest)
            BY <2>1, <2>3 DEF RequestedWindow, UInt
        <3>2. n # 1
            OBVIOUS
        <3> QED BY <2>2, <3>1, <3>2 DEF ClippedWindow
    <2>4. CASE ~(n <= first)
        BY <2>1, <2>4 DEF UInt
    <2> QED BY <2>3, <2>4
<1> QED BY <1>1, StartupInvariance, PTL

-----------------------------------------------------------------------------
(* Several lives: a start takes up everything above the database's latest  *)
(* block.                                                                  *)

\* NewPublisher starts from an existing block, and the forward syncer one below it.
LEMMA RestartBlock ==
    ASSUME NEW n \in UInt
    PROVE  /\ FirstBlock(0, n) = IF n = 0 THEN 1 ELSE n
           /\ PreviousBlock(0, n) = IF n = 0 THEN 0 ELSE n - 1
BY WidthAssumption DEF FirstBlock, PreviousBlock, Sub32, UInt

\* The limits of NewPublisher leave out no height above the database's latest and
\* within the requested distance, block 1 aside.
LEMMA WindowTakesUp ==
    ASSUME NEW f \in UInt \ {0}, NEW back \in UInt, NEW l \in UInt,
           NEW h \in UInt, 2 <= h, h <= f, h > l, h > f - back
    PROVE  h \in BackWindow(f, back, l)
<1>1. BackSyncBlocks(f, back, l) \in UInt /\ h > MinBlock(f, BackSyncBlocks(f, back, l))
    BY WidthAssumption DEF BackSyncBlocks, MinBlock, Sub32, UInt
<1> QED BY <1>1, WidthAssumption DEF BackWindow, Generated, UInt

\* The lowest height the backward syncer may ask for is an integer, and at most
\* one above the start block.
LEMMA LowestAsked ==
    ASSUME NEW f \in UInt \ {0}, NEW back \in UInt, NEW l \in UInt
    PROVE  MinBlock(f, BackSyncBlocks(f, back, l)) \in UInt
BY WidthAssumption DEF BackSyncBlocks, MinBlock, Sub32, UInt

\* The least of three integers.
LEMMA MinOfThree ==
    ASSUME NEW a \in Int, NEW b \in Int, NEW c \in Int
    PROVE  /\ Min({a, b, c}) \in {a, b, c}
           /\ Min({a, b, c}) <= a /\ Min({a, b, c}) <= b /\ Min({a, b, c}) <= c
<1>1. \E x \in {a, b, c} : \A y \in {a, b, c} : x =< y
    OBVIOUS
<1> QED BY <1>1 DEF Min

\* The missing heights are finitely many.
LEMMA MissingFinite ==
    ASSUME IndInv
    PROVE  IsFiniteSet(Missing) /\ Cardinality(Missing) \in Nat
<1>1. IsFiniteSet(2 .. prev) /\ Missing \subseteq 2 .. prev
    BY FS_Interval, RestartAssumption DEF IndInv, TypeOK, Heights, Missing, UInt
<1> QED BY <1>1, FS_Subset, FS_CardinalityType

\* A step that covers what it moves past adds nothing to the missing heights.
LEMMA NothingNewMissing ==
    ASSUME IndInv, up, up', Missing' \subseteq Missing, fails' = fails
    PROVE  NothingMissingAboveLatest'
<1>1. Cardinality(Missing') <= Cardinality(Missing)
    BY MissingFinite, FS_Subset
<1>2. IsFiniteSet(Missing') /\ Cardinality(Missing') \in Nat
    BY MissingFinite, FS_Subset, FS_CardinalityType
<1>3. Cardinality(Missing) <= fails /\ fails \in Nat
    BY RestartAssumption DEF IndInv, NothingMissingAboveLatest, TypeOK
<1> QED BY <1>1, <1>2, <1>3, MissingFinite DEF NothingMissingAboveLatest

\* The heights of the model are unsigned integers.
LEMMA HeightsFact ==
    /\ Heights \subseteq UInt /\ MaxNum \in Nat /\ Back \in UInt /\ UInt \subseteq Nat
    /\ Heights = {n \in Nat : n <= MaxNum}
BY RestartAssumption, WidthAssumption DEF Heights, UInt

\* A start takes up all that is not in the database above its latest block.
LEMMA StartKeepsInv ==
    ASSUME IndInv, Start
    PROVE  IndInv'
<1> USE DEF IndInv
<1>1. /\ ~up /\ up' = TRUE /\ startBlock' = FirstBlock(0, final) /\ prev' = PreviousBlock(0, final)
      /\ found' \in {Latest, 0} /\ backward' = BackWindow(startBlock', Back, found')
      /\ UNCHANGED <<best, final, stored, inFlight, stops, fails>>
    BY DEF Start
<1>2. best \in Nat /\ final \in Nat /\ best <= MaxNum /\ final \in UInt
    BY HeightsFact DEF TypeOK
<1>3. /\ startBlock' = IF final = 0 THEN 1 ELSE final
      /\ prev' = IF final = 0 THEN 0 ELSE final - 1
    BY <1>1, <1>2, RestartBlock
<1>4. startBlock' \in Heights \ {0} /\ prev' \in Heights /\ prev' < MaxNum /\ prev' < startBlock'
    BY <1>2, <1>3, HeightsFact
<1>5. found' \in Heights
    <2>1. CASE stored = {}
        BY <1>1, <2>1, HeightsFact DEF Latest
    <2>2. CASE stored # {}
        <3>1. Max(stored) \in stored
            BY <2>2 DEF Max
        <3>2. Max(stored) \in Heights
            BY <3>1 DEF TypeOK
        <3> QED BY <1>1, <2>2, <3>2, HeightsFact DEF Latest
    <2> QED BY <2>1, <2>2
<1>6. backward' \subseteq Heights \ {0}
    <2> SUFFICES ASSUME NEW n \in backward' PROVE n \in Heights \ {0}
        OBVIOUS
    <2>1. n \in UInt /\ n <= startBlock' /\ n > 0
        BY <1>1 DEF BackWindow, Generated
    <2> QED BY <1>4, <2>1, HeightsFact
<1>7. PICK lowest \in UInt : lowest = MinBlock(startBlock', BackSyncBlocks(startBlock', Back, found'))
    BY <1>4, <1>5, HeightsFact, LowestAsked
<1>8. floor' = Min({floor, prev' + 1, lowest + 1})
    BY <1>7 DEF Start
<1>9. backward' = {n \in UInt : n <= startBlock' /\ n > lowest /\ n > 0}
    BY <1>1, <1>7 DEF BackWindow, Generated
<1>10. floor \in Heights /\ floor \in Int /\ prev' + 1 \in Int /\ lowest + 1 \in Int
    BY <1>4, <1>7, HeightsFact DEF TypeOK
<1>11. floor' \in {floor, prev' + 1, lowest + 1} /\ floor' <= floor
    BY <1>8, <1>10, MinOfThree
<1>12. TypeOK'
    <2>1. floor' \in Heights
        <3>1. floor \in Nat /\ floor <= MaxNum /\ prev' \in Nat /\ lowest \in Nat
            BY <1>4, <1>7, <1>10, HeightsFact
        <3>2. floor' \in Nat
            <4>1. floor' = floor \/ floor' = prev' + 1 \/ floor' = lowest + 1
                BY <1>11
            <4> QED BY <3>1, <4>1
        <3>3. floor' <= MaxNum
            BY <1>11, <3>1, <3>2, HeightsFact
        <3> QED BY <3>2, <3>3, HeightsFact
    <2> QED BY <1>1, <1>4, <1>5, <1>6, <2>1 DEF TypeOK
<1>13. NothingMissingAboveLatest'
    <2>1. Missing' = {}
        <3> SUFFICES ASSUME NEW h \in 2 .. prev', h > found', h > startBlock' - Back
                     PROVE  h \in backward'
            BY DEF Missing, Covered
        <3>1. h \in UInt /\ 2 <= h /\ h <= startBlock'
            BY <1>4, HeightsFact
        <3> QED BY <1>1, <1>4, <1>5, <3>1, HeightsFact, WindowTakesUp
    <2>2. Cardinality(Missing') = 0 /\ fails' \in Nat
        BY <1>1, <2>1, FS_EmptySet, RestartAssumption DEF TypeOK
    <2> QED BY <2>2 DEF NothingMissingAboveLatest
<1>14. NoHolesInOneLife'
    <2> SUFFICES ASSUME stops = 0, NEW h \in floor' .. prev', h > 1
                 PROVE  h \in backward'
        BY <1>1 DEF NoHolesInOneLife, Covered
    <2>1. floor = MaxNum
        BY <1>1
    <2>2. h \in Int /\ floor' <= h /\ h <= prev'
        BY <1>4, <1>10, <1>11, HeightsFact
    <2>3. floor' = lowest + 1
        <3>1. prev' \in Int /\ MaxNum \in Int /\ prev' < MaxNum
            BY <1>4, HeightsFact
        <3>2. floor' # MaxNum /\ floor' # prev' + 1
            <4>1. floor' \in Int
                BY <1>12, HeightsFact DEF TypeOK
            <4>2. floor' <= prev'
                BY <2>2, <3>1, <4>1
            <4>3. ASSUME NEW a \in Int, NEW b \in Int, NEW c \in Int, a <= b, b < c
                  PROVE  a # c /\ a # b + 1
                BY <4>3
            <4> QED BY <3>1, <4>1, <4>2, <4>3
        <3> QED BY <1>11, <2>1, <3>2
    <2>4. h \in UInt /\ h <= startBlock' /\ h > lowest /\ h > 0
        BY <1>4, <1>7, <2>2, <2>3, HeightsFact
    <2> QED BY <1>9, <2>4
<1> QED BY <1>1, <1>12, <1>13, <1>14

\* What is stored was on its way before.
LEMMA StoreKeepsInv ==
    ASSUME IndInv, NEW h \in Heights, StoreBackward(h) \/ StoreForward(h)
    PROVE  IndInv'
<1> USE DEF IndInv
<1>1. /\ up /\ h \in backward \cup inFlight /\ stored' = stored \cup {h}
      /\ backward' \subseteq backward /\ inFlight' \subseteq inFlight
      /\ UNCHANGED <<up, best, final, found, startBlock, prev, floor, stops, fails>>
    BY DEF StoreBackward, StoreForward
<1>2. Covered' = Covered
    BY DEF StoreBackward, StoreForward, Covered
<1>3. TypeOK'
    BY <1>1 DEF TypeOK
<1>4. \E m \in stored' : \A x \in stored' : m >= x
    <2>1. h \in Int /\ \A x \in stored : x \in Int
        BY HeightsFact DEF TypeOK
    <2>2. CASE stored = {}
        BY <1>1, <2>1, <2>2
    <2>3. CASE stored # {}
        <3>1. PICK m \in stored : \A x \in stored : m >= x
            BY <2>3
        <3>2. CASE m >= h
            BY <1>1, <2>1, <3>1, <3>2
        <3>3. CASE ~(m >= h)
            BY <1>1, <2>1, <3>1, <3>3
        <3> QED BY <3>2, <3>3
    <2> QED BY <2>2, <2>3
<1>5. Missing' = Missing
    BY <1>1, <1>2 DEF Missing
<1>6. NothingMissingAboveLatest' /\ NoHolesInOneLife'
    BY <1>1, <1>2, <1>5 DEF NothingMissingAboveLatest, NoHolesInOneLife
<1> QED BY <1>1, <1>3, <1>4, <1>6

\* A failed block is one missing height more.
LEMMA FailKeepsInv ==
    ASSUME IndInv, NEW h \in Heights, FailBackward(h)
    PROVE  IndInv'
<1> USE DEF IndInv
<1>1. /\ up /\ fails < MaxFails /\ fails' = fails + 1 /\ backward' = backward \ {h}
      /\ UNCHANGED <<up, best, final, stored, found, startBlock, prev, inFlight, floor, stops>>
    BY DEF FailBackward
<1>2. fails \in Nat /\ MaxFails \in Nat
    BY RestartAssumption DEF TypeOK
<1>3. TypeOK'
    BY <1>1, <1>2 DEF TypeOK
<1>4. Missing' \subseteq Missing \cup {h}
    BY <1>1 DEF Missing, Covered
<1>5. /\ IsFiniteSet(Missing \cup {h})
      /\ Cardinality(Missing \cup {h}) \in {Cardinality(Missing), Cardinality(Missing) + 1}
    BY MissingFinite, FS_AddElement
<1>6. Cardinality(Missing') <= Cardinality(Missing \cup {h})
    BY <1>4, <1>5, FS_Subset
<1>7. Cardinality(Missing') \in Nat
    BY <1>4, <1>5, FS_Subset, FS_CardinalityType
<1>8. NothingMissingAboveLatest'
    BY <1>1, <1>2, <1>5, <1>6, <1>7, MissingFinite DEF NothingMissingAboveLatest
<1>9. NoHolesInOneLife'
    BY <1>1, <1>2 DEF NoHolesInOneLife
<1> QED BY <1>1, <1>3, <1>8, <1>9

\* The forward syncer never moves past a block it has not sent.
LEMMA SendForwardKeepsInv ==
    ASSUME IndInv, SendForward
    PROVE  IndInv'
<1> USE DEF IndInv
<1>1. /\ up /\ prev < best /\ prev' = prev + 1 /\ inFlight' = inFlight \cup {prev + 1}
      /\ UNCHANGED <<up, best, final, stored, found, startBlock, backward, floor, stops, fails>>
    BY DEF SendForward
<1>2. prev \in Nat /\ best \in Nat /\ best <= MaxNum /\ floor \in Nat
    BY HeightsFact DEF TypeOK
<1>3. prev + 1 \in Heights \ {0}
    BY <1>1, <1>2, HeightsFact
<1>4. TypeOK'
    BY <1>1, <1>3 DEF TypeOK
<1>5. Covered' = Covered \cup {prev + 1}
    BY <1>1 DEF Covered
<1>6. Missing' \subseteq Missing
    BY <1>1, <1>2, <1>5 DEF Missing
<1>7. NothingMissingAboveLatest'
    BY <1>1, <1>6, NothingNewMissing
<1>8. NoHolesInOneLife'
    BY <1>1, <1>2, <1>5 DEF NoHolesInOneLife
<1> QED BY <1>1, <1>4, <1>7, <1>8

\* The process ends, or the node goes on.
LEMMA OtherKeepsInv ==
    ASSUME IndInv, Stop \/ NewBlock \/ Finalize \/ UNCHANGED vars
    PROVE  IndInv'
<1> USE DEF IndInv
<1>1. CASE Stop
    <2>1. /\ up' = FALSE /\ backward' = {} /\ inFlight' = {} /\ stops' = stops + 1
          /\ stops < MaxStops
          /\ UNCHANGED <<best, final, stored, found, startBlock, prev, floor, fails>>
        BY <1>1 DEF Stop
    <2>2. stops \in Nat /\ stops' \in 0 .. MaxStops /\ stops' # 0
        BY <2>1, RestartAssumption DEF TypeOK
    <2>3. TypeOK'
        BY <2>1, <2>2 DEF TypeOK
    <2> QED BY <2>1, <2>2, <2>3 DEF NothingMissingAboveLatest, NoHolesInOneLife
<1>2. CASE NewBlock \/ Finalize
    <2>1. UNCHANGED <<up, stored, found, startBlock, backward, prev, inFlight, floor, stops, fails>>
        BY <1>2 DEF NewBlock, Finalize
    <2>2. Covered' = Covered /\ Missing' = Missing
        BY <2>1 DEF Covered, Missing
    <2>3. best \in Nat /\ final \in Nat /\ best <= MaxNum
        BY HeightsFact DEF TypeOK
    <2>4. best' \in Heights /\ final' \in Heights /\ best' >= 1 /\ final' <= best'
        BY <1>2, <2>3, HeightsFact DEF NewBlock, Finalize
    <2>5. TypeOK'
        BY <2>1, <2>4 DEF TypeOK
    <2>6. NothingMissingAboveLatest' /\ NoHolesInOneLife'
        BY <2>1, <2>2 DEF NothingMissingAboveLatest, NoHolesInOneLife
    <2> QED BY <2>1, <2>4, <2>5, <2>6
<1>3. CASE UNCHANGED vars
    BY <1>3 DEF vars, TypeOK, NothingMissingAboveLatest, NoHolesInOneLife, Missing, Covered
<1> QED BY <1>1, <1>2, <1>3
-----------------------------------------------------------------------------
(* Theorems.                                                               *)

\* The invariant holds over all lives of the process.
THEOREM RestartInvariance == Spec => []IndInv
<1>1. Init => IndInv
    <2> SUFFICES ASSUME Init PROVE IndInv
        OBVIOUS
    <2>1. best \in Nat /\ final \in Nat /\ 1 <= best /\ best <= MaxNum /\ final <= best
        BY HeightsFact DEF Init
    <2>2. {best, final, found, startBlock, prev, floor} \subseteq Heights
        BY <2>1, HeightsFact DEF Init
    <2>3. stops \in 0 .. MaxStops /\ fails \in 0 .. MaxFails
        BY RestartAssumption DEF Init
    <2>4. TypeOK
        BY <2>2, <2>3 DEF Init, TypeOK
    <2> QED BY <2>1, <2>4 DEF Init, IndInv, NothingMissingAboveLatest, NoHolesInOneLife
<1>2. IndInv /\ [Next]_vars => IndInv'
    BY StartKeepsInv, StoreKeepsInv, FailKeepsInv, SendForwardKeepsInv, OtherKeepsInv
    DEF Next, Idle
<1> QED BY <1>1, <1>2, PTL DEF Spec

\* After any number of crashes, a running process lacks no height above the latest
\* block its start found, unless ProcessBlock failed for it.
THEOREM NothingMissing == Spec => []NothingMissingAboveLatest
<1>1. IndInv => NothingMissingAboveLatest
    BY DEF IndInv
<1> QED BY <1>1, RestartInvariance, PTL

\* In its first life, without failures, the process leaves no hole.
THEOREM NoHoles == Spec => []NoHolesInOneLife
<1>1. IndInv => NoHolesInOneLife
    BY DEF IndInv
<1> QED BY <1>1, RestartInvariance, PTL
==============================================================================
