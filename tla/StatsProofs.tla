----------------------------- MODULE StatsProofs -----------------------------
(***************************************************************************)
(* Proofs about the statistics.  First the handlers with state, for any    *)
(* number of workers and blocks and any intervals: the mutex of PriceAPI   *)
(* keeps the prices apart, List reports every missed slot, and with one    *)
(* call at a time its candidates are out of date only after a failure.     *)
(* Then ProposerSlots and StakerStats, for any number of                   *)
(* validators, authority nodes and blocks, any random source, and every    *)
(* width of the weights.                                                   *)
(***************************************************************************)
EXTENDS Handlers, StakerStats, SequenceTheorems, FiniteSetTheorems, TLAPS

-----------------------------------------------------------------------------
(* The prices.                                                             *)

\* Deleting the first points keeps the others as far apart as they were, and the
\* last one.
LEMMA DeleteKeepsApart ==
    ASSUME NEW s \in Seq(Int), NEW k \in Nat, NEW d \in Int,
           \A i \in 1 .. Len(s) - 1 : s[i + 1] - s[i] >= d
    PROVE  /\ SubSeq(s, k + 1, Len(s)) \in Seq(Int)
           /\ \A i \in 1 .. Len(SubSeq(s, k + 1, Len(s))) - 1 :
                SubSeq(s, k + 1, Len(s))[i + 1] - SubSeq(s, k + 1, Len(s))[i] >= d
           /\ SubSeq(s, k + 1, Len(s)) # <<>> =>
                /\ s # <<>>
                /\ SubSeq(s, k + 1, Len(s))[Len(SubSeq(s, k + 1, Len(s)))] = s[Len(s)]
<1> DEFINE t == SubSeq(s, k + 1, Len(s))
<1>1. Len(s) \in Nat /\ \A i \in 1 .. Len(s) : s[i] \in Int
    BY LenProperties, ElementOfSeq
<1>2. \A i \in k + 1 .. Len(s) : s[i] \in Int
    BY <1>1
<1>3. t \in Seq(Int)
    BY <1>1, <1>2, SubSeqProperties
<1>4. Len(t) = IF k + 1 <= Len(s) THEN Len(s) - (k + 1) + 1 ELSE 0
    BY <1>1, <1>2, SubSeqProperties
<1>5. \A i \in 1 .. Len(s) - (k + 1) + 1 : t[i] = s[(k + 1) + i - 1]
    BY <1>1, <1>2, SubSeqProperties
<1>6. \A i \in 1 .. Len(s) - k : t[i] = s[k + i]
    BY <1>1, <1>5
<1> HIDE DEF t
<1>7. ASSUME NEW i \in 1 .. Len(t) - 1
      PROVE  t[i + 1] - t[i] >= d
    <2>1. /\ i \in 1 .. Len(s) - k /\ i + 1 \in 1 .. Len(s) - k
          /\ k + i \in 1 .. Len(s) - 1 /\ k + (i + 1) = (k + i) + 1
        BY <1>1, <1>4
    <2>2. t[i] = s[k + i] /\ t[i + 1] = s[(k + i) + 1]
        BY <1>6, <2>1
    <2> QED BY <2>1, <2>2
<1>8. ASSUME t # <<>>
      PROVE  s # <<>> /\ t[Len(t)] = s[Len(s)]
    <2>1. Len(t) \in Nat \ {0}
        BY <1>3, <1>8, EmptySeq
    <2>2. Len(t) = Len(s) - k /\ Len(t) \in 1 .. Len(s) - k /\ Len(s) # 0
        BY <1>1, <1>4, <2>1
    <2>3. t[Len(t)] = s[k + Len(t)] /\ k + Len(t) = Len(s)
        BY <1>1, <1>6, <2>2
    <2>4. s # <<>>
        BY <2>2, EmptySeq
    <2> QED BY <2>3, <2>4
<1> QED BY <1>3, <1>7, <1>8 DEF t

\* A point that is late enough keeps the points apart.
LEMMA AppendKeepsApart ==
    ASSUME NEW s \in Seq(Int), NEW e \in Int, NEW d \in Int,
           \A i \in 1 .. Len(s) - 1 : s[i + 1] - s[i] >= d,
           s # <<>> => e - s[Len(s)] >= d
    PROVE  /\ Append(s, e) \in Seq(Int)
           /\ \A i \in 1 .. Len(Append(s, e)) - 1 : Append(s, e)[i + 1] - Append(s, e)[i] >= d
           /\ Append(s, e)[Len(Append(s, e))] = e
<1> DEFINE t == Append(s, e)
<1>1. Len(s) \in Nat
    BY LenProperties
<1>2. /\ t \in Seq(Int) /\ Len(t) = Len(s) + 1
      /\ \A i \in 1 .. Len(s) : t[i] = s[i]
      /\ t[Len(s) + 1] = e
    BY AppendProperties
<1> HIDE DEF t
<1>3. ASSUME NEW i \in 1 .. Len(t) - 1
      PROVE  t[i + 1] - t[i] >= d
    <2>1. i \in 1 .. Len(s) /\ t[i] = s[i]
        BY <1>1, <1>2
    <2>2. CASE i = Len(s)
        <3>1. s # <<>>
            BY <2>1, <2>2, EmptySeq
        <3> QED BY <1>2, <2>1, <2>2, <3>1
    <2>3. CASE i # Len(s)
        <3>1. i + 1 \in 1 .. Len(s) /\ i \in 1 .. Len(s) - 1
            BY <1>1, <2>1, <2>3
        <3> QED BY <1>2, <2>1, <3>1
    <2> QED BY <2>2, <2>3
<1> QED BY <1>2, <1>3 DEF t

\* Every step of a call of PriceAPI.Write keeps the invariant.
LEMMA PriceStepInv ==
    ASSUME PriceInv, NEW w \in Callers, PriceStep(w) \/ PriceStart(w)
    PROVE  PriceInv'
<1> USE PriceAssumption DEF Goto
<1>1. ASSUME PriceStart(w)
      PROVE  PriceInv'
    BY <1>1 DEF PriceStart, PriceInv, PricesApart, Updating
<1>2. ASSUME PriceLock(w)
      PROVE  PriceInv'
    BY <1>2 DEF PriceLock, PriceInv, PricesApart, Updating
<1>3. ASSUME FetchPrice(w)
      PROVE  PriceInv'
    BY <1>3 DEF FetchPrice, PriceInv, PricesApart, Updating
<1>4. ASSUME DeleteOld(w)
      PROVE  PriceInv'
    <2>1. /\ price[w] = "delete" /\ price' = [price EXCEPT ![w] = "update"]
          /\ UNCHANGED <<now, mu, lastUpdate>>
        BY <1>4 DEF DeleteOld
    <2> DEFINE Old == {i \in DOMAIN prices : prices[i] < now - Keep}
    <2>2. Cardinality(Old) \in Nat
        <3>1. DOMAIN prices = 1 .. Len(prices) /\ Len(prices) \in Nat
            BY LenProperties DEF PriceInv
        <3>2. IsFiniteSet(1 .. Len(prices)) /\ Old \subseteq 1 .. Len(prices)
            BY <3>1, FS_Interval
        <3>3. IsFiniteSet(Old)
            BY <3>2, FS_Subset
        <3> QED BY <3>3, FS_CardinalityType
    <2>3. PICK k \in {0, Cardinality(Old)} : prices' = SubSeq(prices, k + 1, Len(prices))
        BY <1>4 DEF DeleteOld
    <2>4. k \in Nat
        BY <2>2, <2>3
    <2>5. prices \in Seq(Int) /\ Interval \in Int
          /\ \A i \in 1 .. Len(prices) - 1 : prices[i + 1] - prices[i] >= Interval
        BY DEF PriceInv, PricesApart
    <2>6. prices' \in Seq(Int)
        BY <2>3, <2>4, <2>5, DeleteKeepsApart
    <2>7. PricesApart'
        BY <2>3, <2>4, <2>5, DeleteKeepsApart DEF PricesApart
    <2>8. prices' # <<>> => prices # <<>> /\ prices'[Len(prices')] = prices[Len(prices)]
        BY <2>3, <2>4, <2>5, DeleteKeepsApart
    <2>9. /\ price' \in [Callers -> Updating \cup {"idle", "lock", "return"}]
          /\ \A v \in Callers : price'[v] \in Updating => price[v] \in Updating
          /\ \A v \in Callers : price'[v] = "return" => price[v] = "return"
        BY <2>1 DEF PriceInv, Updating
    <2> QED BY <2>1, <2>6, <2>7, <2>8, <2>9 DEF PriceInv
<1>5. ASSUME UpdatePrice(w)
      PROVE  PriceInv'
    <2>1. /\ price[w] = "update" /\ price' = [price EXCEPT ![w] = "return"]
          /\ lastUpdate' = now /\ prices' = Append(prices, now) /\ UNCHANGED <<now, mu>>
        BY <1>5 DEF UpdatePrice
    <2>2. mu = {w} /\ now - lastUpdate >= Interval
        BY <2>1 DEF PriceInv, Updating
    <2>3. prices # <<>> => prices[Len(prices)] \in Int
        <3> SUFFICES ASSUME prices # <<>> PROVE prices[Len(prices)] \in Int
            OBVIOUS
        <3>1. Len(prices) \in 1 .. Len(prices)
            BY EmptySeq DEF PriceInv
        <3> QED BY <3>1, ElementOfSeq DEF PriceInv
    <2>4. /\ prices \in Seq(Int) /\ now \in Int /\ Interval \in Int
          /\ \A i \in 1 .. Len(prices) - 1 : prices[i + 1] - prices[i] >= Interval
          /\ prices # <<>> => now - prices[Len(prices)] >= Interval
        BY <2>2, <2>3 DEF PriceInv, PricesApart
    <2>5. prices' \in Seq(Int)
        BY <2>1, <2>4, AppendKeepsApart
    <2>6. PricesApart'
        BY <2>1, <2>4, AppendKeepsApart DEF PricesApart
    <2>7. prices'[Len(prices')] = now
        BY <2>1, <2>4, AppendKeepsApart
    <2>8. /\ price' \in [Callers -> Updating \cup {"idle", "lock", "return"}]
          /\ \A v \in Callers : price'[v] \notin Updating
          /\ \A v \in Callers : price'[v] = "return" => v = w
        BY <2>1, <2>2 DEF PriceInv, Updating
    <2> QED BY <2>1, <2>2, <2>5, <2>6, <2>7, <2>8 DEF PriceInv
<1>6. ASSUME PriceReturn(w)
      PROVE  PriceInv'
    BY <1>6 DEF PriceReturn, PriceInv, PricesApart, Updating
<1> QED BY <1>1, <1>2, <1>3, <1>4, <1>5, <1>6 DEF PriceStep

\* Time only widens the distance to the last update.
LEMMA TickInv ==
    ASSUME PriceInv, Tick
    PROVE  PriceInv'
BY PriceAssumption DEF Tick, PriceInv, PricesApart

-----------------------------------------------------------------------------
(* The missed slots.                                                       *)

\* The multiples of a number.
LEMMA Multiples ==
    ASSUME NEW b \in Nat \ {0}, NEW i \in Nat, NEW j \in Nat
    PROVE  /\ i * b \in Nat
           /\ i < j => i * b < j * b
           /\ (i * b) % b = 0
           /\ (i * b) \div b = i
           /\ (i * b + b - 1) \div b = i
OBVIOUS

\* A block gap intervals after its parent is as many slots after it: the unsigned
\* difference does not wrap.
LEMMA SlotsAreGap ==
    ASSUME NEW g \in 1 .. LongestGap
    PROVE  SlotsSince(g) = g
<1>1. PICK b \in Nat \ {0} : b = SlotLength
    BY AuthorityListAssumption
<1>2. PICK m \in Nat : m = LongestGap + 1
    BY AuthorityListAssumption
<1>3. g \in Nat /\ g < m /\ g + 1 \in Nat /\ g + 1 <= m /\ TimeWidth \in Nat
    BY <1>2, AuthorityListAssumption
<1>4. m * b <= TimeWidth
    BY <1>1, <1>2, AuthorityListAssumption
<1>5. (g + 1) * b <= m * b /\ m * b \in Nat /\ (g + 1) * b \in Nat /\ g * b \in Nat
    BY <1>3, Multiples
<1>6. (g + 1) * b = g * b + b
    BY <1>3
<1>7. PICK d \in Nat : d = g * b + b - 1
    BY <1>5
<1>8. d < TimeWidth
    BY <1>3, <1>4, <1>5, <1>6, <1>7
<1>9. d % TimeWidth = d
    BY <1>3, <1>8
<1>10. d \div b = g
    BY <1>3, <1>7, Multiples
<1> QED BY <1>1, <1>7, <1>9, <1>10 DEF SlotsSince

\* For every gap and every window, the points and the sum of the older slots
\* account for the missed ones, but for the one the sum leaves out.
LEMMA SlotReportAccounts ==
    ASSUME NEW g \in Gaps, report' = SlotReport(g)
    PROVE  SlotsAccounted'
<1> SUFFICES ASSUME g >= 1 PROVE SlotsAccounted'
    BY DEF SlotsAccounted, SlotReport
<1> DEFINE startSlot == IF g > SlotWindow THEN g - SlotWindow ELSE 0
           older == IF g > SlotWindow THEN g - SlotWindow - 1 ELSE 0
<1>1. /\ g \in 1 .. LongestGap /\ g \in Int /\ 1 <= g /\ LongestGap \in Nat
      /\ SlotWindow \in Nat /\ SlotWindow >= 1
    BY AuthorityListAssumption DEF Gaps
<1>2. SlotsSince(g) = g
    BY <1>1, SlotsAreGap
<1>3. (g - 1) % TimeWidth = g - 1
    <2>1. g < TimeWidth /\ TimeWidth \in Nat
        <3>1. PICK b \in Nat \ {0} : b = SlotLength
            BY AuthorityListAssumption
        <3>2. PICK m \in Nat : m = LongestGap + 1
            BY AuthorityListAssumption
        <3>3. m * b <= TimeWidth /\ m <= m * b
            BY <3>1, <3>2, AuthorityListAssumption
        <3> QED BY <1>1, <3>2, <3>3, AuthorityListAssumption
    <2> QED BY <1>1, <2>1
<1>4. startSlot \in Int /\ startSlot >= 0 /\ g - 2 \in Int
    BY <1>1
<1>5. PICK Slots : Slots = startSlot .. g - 2
    OBVIOUS
<1>6. report'.gap = g /\ report'.empty = Slots /\ report'.older = older
    <2>1. report' = [gap |-> g, empty |-> startSlot .. (g - 1) - 1, older |-> older]
        BY <1>2, <1>3 DEF SlotReport
    <2>2. (g - 1) - 1 = g - 2
        BY <1>1
    <2> QED BY <1>5, <2>1, <2>2
<1>7. Cardinality(Slots) = IF startSlot > g - 2 THEN 0 ELSE (g - 2) - startSlot + 1
    BY <1>4, <1>5, FS_Interval
<1>8. Cardinality(Slots) + older = IF g - 1 >= SlotWindow THEN (g - 1) - 1 ELSE g - 1
    BY <1>1, <1>7
<1>9. Slots \subseteq 0 .. (g - 1) - 1
    BY <1>1, <1>5
<1> QED BY <1>6, <1>8, <1>9 DEF SlotsAccounted

\* Before a call reports there is nothing to account for.
LEMMA NothingReported ==
    ASSUME NEW x, x = NoSlots
    PROVE  x.gap >= 1 =>
            LET missed == x.gap - 1
            IN  /\ x.empty \subseteq 0 .. missed - 1
                /\ Cardinality(x.empty) + x.older =
                        IF missed >= SlotWindow THEN missed - 1 ELSE missed
BY AuthorityListAssumption, FS_EmptySet DEF NoSlots

\* No call changes the report but for the one that reports, and the one that
\* starts afresh.
LEMMA SlotsStepInv ==
    ASSUME SlotsAccounted, NEW w \in Workers,
           AuthorityStep(w) \/ (\E b \in BlockNums : WriteStart(w, b)) \/ AbortOnMap
    PROVE  SlotsAccounted'
<1>1. CASE WriteSlots(w)
    BY <1>1, SlotReportAccounts DEF WriteSlots
<1>2. CASE Reset(w)
    <2>1. report' = NoSlots
        BY <1>2 DEF Reset
    <2> QED BY <2>1, NothingReported DEF SlotsAccounted
<1>3. CASE report' = report
    BY <1>3 DEF SlotsAccounted
<1>4. report' = report \/ WriteSlots(w) \/ Reset(w)
    BY DEF AuthorityStep, ReadOwner, Shuffled, InitFetch, InitFails, InitStore, InitNumber,
           MapWritten, PanicTorn, WriteStart, AbortOnMap
<1> QED BY <1>1, <1>2, <1>3, <1>4

-----------------------------------------------------------------------------
(* The candidates, with one call at a time.                                *)

Ordered == OneCall /\ OneRevision /\ NotOlder /\ SinceRevision

\* The only call under way loads the list as it is, and its store is whole.
LEMMA SoleCall ==
    ASSUME OneCall, NEW w \in Workers, auth[w] # "idle"
    PROVE  /\ Storing(w) = {} /\ Loads(w) = {candidates} /\ Stores(w) = {{fetched[w]}}
<1>1. \A v \in Workers \ {w} : auth[v] = "idle"
    BY DEF OneCall
<1>2. Storing(w) = {}
    BY <1>1 DEF Storing
<1>3. Loads(w) = {candidates}
    BY <1>2 DEF Loads
<1>4. auth[w] # "overlap"
    BY DEF OneCall
<1>5. Stores(w) = {{fetched[w]}}
    BY <1>2, <1>4 DEF Stores
<1> QED BY <1>2, <1>3, <1>5

\* The types are kept in any order of the calls.
LEMMA AuthorityTypesKept ==
    ASSUME AuthorityTypes, NEW w \in Workers,
           AuthorityStep(w) \/ (\E b \in BlockNums : WriteStart(w, b)) \/ AbortOnMap
    PROVE  AuthorityTypes'
<1> USE DEF AuthorityTypes, BeforeReset, AtStep, To
<1>1. ASSUME NEW b \in BlockNums, WriteStart(w, b) PROVE AuthorityTypes'
    BY <1>1, AuthorityListAssumption DEF WriteStart, BlockNums
<1>2. CASE ReadOwner(w)
    BY <1>2 DEF ReadOwner
<1>3. CASE Shuffled(w)
    BY <1>3 DEF Shuffled
<1>4. CASE WriteSlots(w)
    BY <1>4 DEF WriteSlots
<1>5. CASE Reset(w)
    BY <1>5 DEF Reset, RefreshOwnersList
<1>6. CASE InitFetch(w)
    BY <1>6 DEF InitFetch
<1>7. CASE InitFails(w)
    BY <1>7 DEF InitFails
<1>8. CASE InitStore(w)
    <2>1. \A v \in Workers : fetched[v] \in Int
        OBVIOUS
    <2>2. candidates' \subseteq Int
        <3>1. candidates' \in Stores(w)
            BY <1>8 DEF InitStore
        <3>2. \/ candidates' = {fetched[w]}
              \/ \E v \in Storing(w) : candidates' = {fetched[v], fetched[w]}
              \/ candidates' = candidates \cup {fetched[w]}
            BY <3>1, Zenon DEF Stores
        <3>3. Storing(w) \subseteq Workers
            BY DEF Storing
        <3>4. candidates \subseteq Int
            OBVIOUS
        <3>5. \A v \in Storing(w) : {fetched[v], fetched[w]} \subseteq Int
            BY <2>1, <3>3, Zenon
        <3>6. {fetched[w]} \subseteq Int /\ candidates \cup {fetched[w]} \subseteq Int
            BY <2>1, <3>4, Zenon
        <3> QED BY <3>2, <3>5, <3>6, Zenon
    <2> QED BY <1>8, <2>2 DEF InitStore
<1>9. CASE InitNumber(w)
    BY <1>9 DEF InitNumber, RefreshOwnersList
<1>10. CASE MapWritten(w)
    BY <1>10 DEF MapWritten
<1>11. CASE PanicTorn(w)
    BY <1>11 DEF PanicTorn
<1>12. CASE AbortOnMap
    BY <1>12 DEF AbortOnMap
<1> QED BY <1>1, <1>2, <1>3, <1>4, <1>5, <1>6, <1>7, <1>8, <1>9, <1>10, <1>11, <1>12
        DEF AuthorityStep

\* A call whose next step changes nothing but its own place keeps the invariant,
\* unless it goes past the check for a reset.
Excused(b) ==
    /\ candidates = {} => b \in notReset
    /\ QuietAuthority => \A r \in candidates : candidates = {r} =>
        (b > r /\ kind[b] = "endorsor" => b \in notReset)

\* Whether a call that is not about to be fetching may go on to a state.
MayGo(w, state) ==
    /\ state = "initPrev" => candidates = {}
    /\ state = "init" /\ candidates # {} => updateBlock <= block[w]

LEMMA CallMoves ==
    ASSUME AuthorityTypes, Ordered, NEW w \in Workers, auth[w] # "idle", auth[w] # "number",
           NEW state \in (BeforeReset \ {"store", "number"}) \cup {"idle", "mapWrite"},
           To(w, state), UNCHANGED <<kind, candidates, updateBlock, fetched, started, notReset>>,
           MayGo(w, state),
           state \in BeforeReset \/ auth[w] \notin BeforeReset \/ Excused(block[w])
    PROVE  Ordered'
<1> USE DEF Ordered
<1>1. /\ auth'[w] = state /\ \A v \in Workers \ {w} : auth'[v] = auth[v] /\ block'[v] = block[v]
      /\ state # "idle" => block'[w] = block[w]
      /\ state # "store" /\ state # "number" /\ state # "overlap"
    BY DEF To, AuthorityTypes, BeforeReset
<1>2. \A v \in Workers : auth'[v] # "idle" => v = w
    BY <1>1 DEF OneCall
<1>3. OneCall'
    <2>1. \A v \in Workers : auth'[v] # "overlap"
        BY <1>1, <1>2 DEF OneCall
    <2>2. \A v \in Workers : auth'[v] # "idle" => block'[v] \in started'
        BY <1>1, <1>2 DEF OneCall
    <2> QED BY <1>2, <2>1, <2>2 DEF OneCall
<1>4. OneRevision'
    <2>1. \A v \in Workers : auth'[v] \notin {"store", "number"}
        BY <1>1, <1>2
    <2>2. \A v \in Workers : auth[v] # "number"
        BY DEF OneCall
    <2> QED BY <2>1, <2>2 DEF OneRevision
<1>5. NotOlder'
    BY <1>1, <1>2 DEF NotOlder, MayGo
<1>6. ASSUME NEW x, FailedOrLooking(x)
      PROVE  FailedOrLooking(x)' \/ (x = block[w] /\ Excused(block[w]))
    <2>1. CASE x \in notReset
        BY <2>1 DEF FailedOrLooking
    <2>2. CASE \E v \in Workers : auth[v] \in BeforeReset /\ block[v] = x
        <3>1. auth[w] \in BeforeReset /\ block[w] = x
            BY <2>2 DEF OneCall, BeforeReset
        <3>2. CASE state \in BeforeReset
            <4>1. state # "idle"
                BY <3>2 DEF BeforeReset
            <4> QED BY <1>1, <3>1, <3>2, <4>1 DEF FailedOrLooking
        <3> QED BY <3>1, <3>2
    <2> QED BY <1>6, <2>1, <2>2 DEF FailedOrLooking
<1>7. \A x : x \in notReset => FailedOrLooking(x)'
    BY DEF FailedOrLooking
<1>8. SinceRevision'
    <2>1. ASSUME candidates = {}, NEW x \in started
          PROVE  FailedOrLooking(x)'
        BY <1>6, <1>7, <2>1 DEF SinceRevision, Excused
    <2>2. ASSUME QuietAuthority, NEW r \in candidates, candidates = {r}, NEW x \in started,
                 x > r, kind[x] = "endorsor"
          PROVE  FailedOrLooking(x)'
        <3>1. FailedOrLooking(x)
            BY <2>2 DEF SinceRevision
        <3> QED BY <1>6, <1>7, <2>2, <3>1 DEF Excused
    <2> QED BY <2>1, <2>2 DEF SinceRevision, QuietAuthority
<1> QED BY <1>3, <1>4, <1>5, <1>8

\* While there are no events of the Authority contract, ShouldReset does not pass over
\* the transfer of an endorsor after the list's revision; and it lets no list be
\* replaced by an older one.
LEMMA ResetKeepsOrder ==
    ASSUME AuthorityTypes, Ordered, NEW w \in Workers, Reset(w)
    PROVE  Ordered'
<1> USE DEF Ordered
<1> DEFINE b == block[w]
<1>1. /\ auth[w] = "reset"
      /\ UNCHANGED <<kind, candidates, updateBlock, fetched, started, notReset>>
    BY DEF Reset, AtStep
<1>2. /\ Loads(w) = {candidates} /\ b \in started /\ b \in BlockNums /\ b \in Int
      /\ updateBlock \in Int
    BY <1>1, SoleCall DEF OneCall, AuthorityTypes, BlockNums
<1>3. PICK answer \in ShouldReset(candidates, b) :
        \/ answer /\ To(w, "init")
        \/ ~answer /\ (To(w, "idle") \/ To(w, "mapWrite"))
    BY <1>2 DEF Reset, RefreshOwnersList
<1>4. candidates # {} => candidates = {updateBlock}
    <2>1. \A v \in Workers : auth[v] # "number"
        BY <1>1 DEF OneCall
    <2> QED BY <2>1 DEF OneRevision
<1>5. CASE answer /\ To(w, "init")
    <2>1. candidates # {} => updateBlock <= b
        <3> SUFFICES ASSUME candidates # {}, updateBlock > b PROVE FALSE
            BY <1>2
        <3>1. answer \in {FALSE}
            BY Zenon DEF ShouldReset
        <3> QED BY <1>5, <3>1
    <2> QED BY <1>1, <1>5, <2>1, CallMoves DEF BeforeReset, MayGo
<1>6. CASE ~answer /\ (To(w, "idle") \/ To(w, "mapWrite"))
    <2>1. candidates # {}
        <3> SUFFICES ASSUME candidates = {} PROVE FALSE
            OBVIOUS
        <3>1. answer \in {TRUE}
            BY Zenon DEF ShouldReset
        <3> QED BY <1>6, <3>1
    <2>2. Excused(b)
        <3> SUFFICES ASSUME QuietAuthority, NEW r \in candidates, candidates = {r}, b > r,
                            kind[b] = "endorsor"
                     PROVE  FALSE
            BY <2>1 DEF Excused
        <3>1. r = updateBlock
            BY <1>4
        <3>2. Knows(candidates, b)
            BY DEF Knows, QuietAuthority, Between
        <3>3. ~(updateBlock > b) /\ kind[b] # "authority"
            BY <1>2, <3>1
        <3>4. ShouldReset(candidates, b) = {kind[b] = "endorsor"}
            BY <2>1, <3>2, <3>3, Zenon DEF ShouldReset
        <3>5. answer = (kind[b] = "endorsor")
            BY <3>4, Zenon
        <3> QED BY <1>6, <3>5, Zenon
    <2>3. CASE To(w, "idle")
        BY <1>1, <2>2, <2>3, CallMoves DEF MayGo
    <2>4. CASE To(w, "mapWrite")
        BY <1>1, <2>2, <2>4, CallMoves DEF MayGo
    <2> QED BY <1>6, <2>3, <2>4
<1> QED BY <1>3, <1>5, <1>6

\* The fetched list is of the block or, when there is no list, of its parent.
LEMMA InitFetchKeepsOrder ==
    ASSUME AuthorityTypes, Ordered, NEW w \in Workers, InitFetch(w)
    PROVE  Ordered'
<1> USE DEF Ordered
<1>1. /\ auth[w] \in {"initPrev", "init"} /\ auth'[w] = "store" /\ block' = block
      /\ \A v \in Workers \ {w} : auth'[v] = auth[v]
      /\ fetched'[w] = IF auth[w] = "init" THEN block[w] ELSE block[w] - 1
      /\ UNCHANGED <<kind, candidates, updateBlock, started, notReset>>
    BY DEF InitFetch, AtStep, To, AuthorityTypes
<1>2. \A v \in Workers \ {w} : auth[v] = "idle"
    BY <1>1 DEF OneCall
<1>3. OneCall'
    BY <1>1, <1>2 DEF OneCall
<1>4. OneRevision'
    BY <1>1, <1>2 DEF OneRevision
<1>5. \A v \in Workers : auth[v] \in BeforeReset => auth'[v] \in BeforeReset
    BY <1>1, <1>2 DEF BeforeReset
<1>6. \A x : FailedOrLooking(x) => FailedOrLooking(x)'
    BY <1>1, <1>5 DEF FailedOrLooking
<1>7. SinceRevision'
    BY <1>1, <1>6 DEF SinceRevision, QuietAuthority
<1>8. NotOlder'
    <2>1. \A r \in candidates : r <= fetched'[w]
        <3>1. CASE auth[w] = "initPrev"
            BY <3>1 DEF NotOlder
        <3>2. CASE auth[w] = "init"
            <4>1. \A v \in Workers : auth[v] # "number"
                BY <1>2, <3>2
            <4> QED BY <1>1, <3>2, <4>1 DEF NotOlder, OneRevision
        <3> QED BY <1>1, <3>1, <3>2
    <2> QED BY <1>1, <1>2, <2>1 DEF NotOlder
<1> QED BY <1>3, <1>4, <1>7, <1>8

\* A failed Init leaves the list and the block is noted, or the call goes on.
LEMMA InitFailsKeepsOrder ==
    ASSUME AuthorityTypes, Ordered, NEW w \in Workers, InitFails(w)
    PROVE  Ordered'
<1> USE DEF Ordered
<1>1. /\ auth[w] \in {"initPrev", "init"}
      /\ UNCHANGED <<kind, candidates, updateBlock, fetched, started>>
    BY DEF InitFails, AtStep
<1>2. CASE To(w, "slots")
    <2>1. auth'[w] = "slots"
        BY <1>2 DEF To, AuthorityTypes
    <2>2. notReset' = notReset
        BY <2>1 DEF InitFails
    <2> QED BY <1>1, <1>2, <2>2, CallMoves DEF BeforeReset, MayGo
<1>3. CASE To(w, "idle")
    <2>1. /\ auth'[w] = "idle"
          /\ \A v \in Workers \ {w} : auth'[v] = auth[v] /\ block'[v] = block[v]
        BY <1>3 DEF To, AuthorityTypes
    <2>2. notReset' = notReset \cup {block[w]}
        BY <2>1 DEF InitFails
    <2>3. \A v \in Workers : auth'[v] = "idle"
        BY <1>1, <2>1 DEF OneCall
    <2>4. OneCall'
        BY <1>1, <2>3 DEF OneCall
    <2>5. OneRevision'
        <3>1. \A v \in Workers : auth[v] # "number"
            BY <1>1 DEF OneCall
        <3> QED BY <1>1, <2>3, <3>1 DEF OneRevision
    <2>6. NotOlder'
        BY <2>3 DEF NotOlder
    <2>7. \A x : FailedOrLooking(x) => FailedOrLooking(x)'
        <3>1. \A v \in Workers : auth[v] \in BeforeReset => v = w
            BY <1>1 DEF OneCall, BeforeReset
        <3> QED BY <2>2, <3>1 DEF FailedOrLooking
    <2>8. SinceRevision'
        BY <1>1, <2>7 DEF SinceRevision, QuietAuthority
    <2> QED BY <2>4, <2>5, <2>6, <2>8
<1> QED BY <1>2, <1>3 DEF InitFails

\* A whole list that is not older replaces the old one, so that no transfer after it
\* is left out that was not before; after an empty one every earlier call failed.
LEMMA InitStoreKeepsOrder ==
    ASSUME AuthorityTypes, Ordered, NEW w \in Workers, InitStore(w)
    PROVE  Ordered'
<1> USE DEF Ordered
<1>1. auth[w] = "store" /\ UNCHANGED <<kind, updateBlock, block, fetched, started, notReset>>
    BY DEF InitStore, AtStep, OneCall
<1>2. Storing(w) = {} /\ candidates' = {fetched[w]}
    BY <1>1, SoleCall DEF InitStore
<1>3. auth'[w] = "number" /\ \A v \in Workers \ {w} : auth'[v] = auth[v] /\ auth[v] = "idle"
    BY <1>1, <1>2 DEF InitStore, OneCall
<1>4. OneCall'
    BY <1>1, <1>3 DEF OneCall
<1>5. fetched[w] \in {block[w] - 1, block[w]} /\ fetched[w] \in Int
    BY <1>1 DEF OneRevision, AuthorityTypes
<1>6. OneRevision'
    BY <1>1, <1>2, <1>3, <1>5 DEF OneRevision
<1>7. NotOlder'
    BY <1>3 DEF NotOlder
<1>8. \A x : FailedOrLooking(x) => FailedOrLooking(x)'
    BY <1>1, <1>3 DEF FailedOrLooking, BeforeReset
<1>9. SinceRevision'
    <2> SUFFICES ASSUME QuietAuthority, NEW x \in started, x > fetched[w], kind[x] = "endorsor"
                 PROVE  FailedOrLooking(x)
        BY <1>1, <1>2, <1>8 DEF SinceRevision, QuietAuthority
    <2>1. CASE candidates = {}
        BY <2>1 DEF SinceRevision
    <2>2. CASE candidates # {}
        <3>1. PICK r \in candidates : candidates = {r}
            BY <2>2 DEF OneRevision
        <3>2. r <= fetched[w] /\ r \in Int /\ x \in Int
            BY <1>1, <3>1 DEF NotOlder, AuthorityTypes, BlockNums
        <3>3. x > r
            BY <1>5, <3>2
        <3> QED BY <3>1, <3>3 DEF SinceRevision
    <2> QED BY <2>1, <2>2
<1> QED BY <1>4, <1>6, <1>7, <1>9

\* updateBlock follows the list; a list of the parent is one of Shuffled, whose
\* call goes on.
LEMMA InitNumberKeepsOrder ==
    ASSUME AuthorityTypes, Ordered, NEW w \in Workers, InitNumber(w)
    PROVE  Ordered'
<1> USE DEF Ordered
<1>1. /\ auth[w] = "number" /\ updateBlock' = fetched[w]
      /\ UNCHANGED <<kind, candidates, started, notReset>>
      /\ RefreshOwnersList(w, fetched[w] < block[w])
    BY DEF InitNumber, AtStep
<1>2. /\ candidates = {fetched[w]} /\ fetched[w] \in Int /\ block[w] \in Int
      /\ fetched[w] \in {block[w] - 1, block[w]}
    BY <1>1 DEF OneRevision, AuthorityTypes
<1>3. PICK state \in {"candidates", "mapWritePrev", "idle", "mapWrite"} :
        /\ To(w, state)
        /\ fetched[w] < block[w] => state \in {"candidates", "mapWritePrev"}
    BY <1>1 DEF RefreshOwnersList
<1>4. /\ auth'[w] = state
      /\ \A v \in Workers \ {w} : auth'[v] = auth[v] /\ block'[v] = block[v] /\ auth[v] = "idle"
      /\ state # "idle" => block'[w] = block[w]
    BY <1>1, <1>3 DEF To, AuthorityTypes, OneCall
<1>5. OneCall'
    <2>1. \A v \in Workers : auth'[v] # "idle" => v = w
        BY <1>4
    <2>2. \A v \in Workers : auth'[v] # "overlap"
        BY <1>4
    <2>3. \A v \in Workers : auth'[v] # "idle" => block'[v] \in started'
        BY <1>1, <1>4, <2>1 DEF OneCall
    <2> QED BY <1>1, <2>1, <2>2, <2>3 DEF OneCall
<1>6. OneRevision'
    BY <1>1, <1>2, <1>4 DEF OneRevision
<1>7. NotOlder'
    BY <1>4 DEF NotOlder
<1>8. SinceRevision'
    <2> SUFFICES ASSUME QuietAuthority, NEW x \in started, x > fetched[w], kind[x] = "endorsor"
                 PROVE  FailedOrLooking(x)'
        BY <1>1, <1>2 DEF SinceRevision, QuietAuthority
    <2>1. FailedOrLooking(x)
        BY <1>2 DEF SinceRevision
    <2>2. CASE x \in notReset
        BY <1>1, <2>2 DEF FailedOrLooking
    <2>3. CASE \E v \in Workers : auth[v] \in BeforeReset /\ block[v] = x
        <3>1. x = block[w]
            BY <1>4, <2>3 DEF BeforeReset
        <3>2. fetched[w] < block[w]
            BY <1>2, <3>1
        <3>3. auth'[w] \in BeforeReset /\ block'[w] = x
            BY <1>3, <1>4, <3>1, <3>2 DEF BeforeReset
        <3> QED BY <3>3 DEF FailedOrLooking
    <2> QED BY <2>1, <2>2, <2>3 DEF FailedOrLooking
<1> QED BY <1>5, <1>6, <1>7, <1>8

\* The next call starts when no other is under way.
LEMMA WriteStartKeepsOrder ==
    ASSUME AuthorityTypes, Ordered, alone', NEW w \in Workers, NEW b \in BlockNums,
           WriteStart(w, b)
    PROVE  Ordered'
<1> USE DEF Ordered
<1>1. /\ AllIdle /\ started' = started \cup {b}
      /\ auth'[w] \in {"reset", "owner"} /\ block'[w] = b
      /\ \A v \in Workers \ {w} : auth'[v] = auth[v] /\ block'[v] = block[v]
      /\ UNCHANGED <<kind, candidates, updateBlock, fetched, notReset>>
    BY DEF WriteStart, AuthorityTypes
<1>2. \A v \in Workers : auth[v] = "idle"
    BY <1>1 DEF AllIdle
<1>3. OneCall'
    BY <1>1, <1>2 DEF OneCall
<1>4. OneRevision'
    BY <1>1, <1>2 DEF OneRevision
<1>5. NotOlder'
    BY <1>1, <1>2 DEF NotOlder
<1>6. \A x : FailedOrLooking(x) => FailedOrLooking(x)'
    BY <1>1, <1>2 DEF FailedOrLooking, BeforeReset
<1>7. FailedOrLooking(b)'
    BY <1>1 DEF FailedOrLooking, BeforeReset
<1>8. SinceRevision'
    BY <1>1, <1>6, <1>7 DEF SinceRevision, QuietAuthority
<1> QED BY <1>3, <1>4, <1>5, <1>8

\* What takes two calls at once, a torn list or the fatal error of the map, cannot
\* happen to one at a time.
LEMMA NoTearAlone ==
    ASSUME AuthorityTypes, Ordered, NEW w \in Workers
    PROVE  ~PanicTorn(w) /\ ~AbortOnMap
<1> USE DEF Ordered
<1>1. ASSUME PanicTorn(w) PROVE FALSE
    <2>1. auth[w] # "idle"
        BY <1>1 DEF PanicTorn, AtStep
    <2>2. Cardinality(candidates) > 1
        BY <1>1, <2>1, SoleCall DEF PanicTorn
    <2>3. candidates = {} \/ \E r : candidates = {r}
        BY DEF OneRevision
    <2>4. Cardinality(candidates) = 0 \/ Cardinality(candidates) = 1
        BY <2>3, FS_EmptySet, FS_Singleton
    <2> QED BY <2>2, <2>4
<1>2. ASSUME AbortOnMap PROVE FALSE
    BY <1>2 DEF AbortOnMap, MapWriting, OneCall
<1> QED BY <1>1, <1>2

\* Every step of List.Write keeps the invariant.
LEMMA AuthorityStepInv ==
    ASSUME AuthorityInv, NEW w \in Workers,
           AuthorityStep(w) \/ (\E b \in BlockNums : WriteStart(w, b)) \/ AbortOnMap
    PROVE  AuthorityInv'
<1>1. AuthorityTypes /\ AuthorityTypes'
    BY AuthorityTypesKept DEF AuthorityInv
<1> SUFFICES ASSUME alone' PROVE Ordered'
    BY <1>1 DEF AuthorityInv, Ordered
<1>2. alone
    BY DEF AuthorityStep, ReadOwner, Shuffled, WriteSlots, Reset, InitFetch, InitFails,
           InitStore, InitNumber, MapWritten, PanicTorn, WriteStart, AbortOnMap
<1>3. Ordered
    BY <1>2 DEF AuthorityInv, Ordered
<1>4. CASE ReadOwner(w)
    <2>1. /\ auth[w] = "owner" /\ To(w, "candidates")
          /\ UNCHANGED <<kind, candidates, updateBlock, fetched, started, notReset>>
        BY <1>4 DEF ReadOwner, AtStep
    <2> QED BY <1>1, <1>3, <2>1, CallMoves DEF BeforeReset, MayGo
<1>5. CASE Shuffled(w)
    <2>1. /\ auth[w] = "candidates"
          /\ UNCHANGED <<kind, candidates, updateBlock, fetched, started, notReset>>
        BY <1>5 DEF Shuffled, AtStep
    <2>2. Loads(w) = {candidates}
        BY <1>3, <2>1, SoleCall DEF Ordered
    <2>3. PICK state \in {"initPrev", "slots"} : To(w, state) /\ (state = "initPrev" => candidates = {})
        BY <1>5, <2>2 DEF Shuffled
    <2> QED BY <1>1, <1>3, <2>1, <2>3, CallMoves DEF BeforeReset, MayGo
<1>6. CASE WriteSlots(w)
    <2>1. /\ auth[w] = "slots"
          /\ UNCHANGED <<kind, candidates, updateBlock, fetched, started, notReset>>
        BY <1>6 DEF WriteSlots, AtStep
    <2>2. PICK state \in {"endless", "reset"} : To(w, state)
        BY <1>6 DEF WriteSlots
    <2> QED BY <1>1, <1>3, <2>1, <2>2, CallMoves DEF BeforeReset, MayGo
<1>7. CASE MapWritten(w)
    <2>1. UNCHANGED <<kind, candidates, updateBlock, fetched, started, notReset>>
        BY <1>7 DEF MapWritten
    <2>2. CASE auth[w] = "mapWrite"
        <3>1. To(w, "idle") /\ "mapWrite" \notin BeforeReset
            BY <1>7, <2>2 DEF MapWritten, AtStep, BeforeReset
        <3> QED BY <1>1, <1>3, <2>1, <2>2, <3>1, CallMoves DEF MayGo
    <2>3. CASE auth[w] = "mapWritePrev"
        <3>1. To(w, "candidates")
            BY <1>7, <2>3 DEF MapWritten, AtStep
        <3> QED BY <1>1, <1>3, <2>1, <2>3, <3>1, CallMoves DEF BeforeReset, MayGo
    <2> QED BY <1>7, <2>2, <2>3 DEF MapWritten, AtStep
<1>8. ASSUME NEW b \in BlockNums, WriteStart(w, b) PROVE Ordered'
    BY <1>1, <1>3, <1>8, WriteStartKeepsOrder
<1>9. CASE Reset(w)
    BY <1>1, <1>3, <1>9, ResetKeepsOrder
<1>10. CASE InitFetch(w)
    BY <1>1, <1>3, <1>10, InitFetchKeepsOrder
<1>11. CASE InitFails(w)
    BY <1>1, <1>3, <1>11, InitFailsKeepsOrder
<1>12. CASE InitStore(w)
    BY <1>1, <1>3, <1>12, InitStoreKeepsOrder
<1>13. CASE InitNumber(w)
    BY <1>1, <1>3, <1>13, InitNumberKeepsOrder
<1>14. CASE PanicTorn(w) \/ AbortOnMap
    BY <1>1, <1>3, <1>14, NoTearAlone
<1> QED BY <1>4, <1>5, <1>6, <1>7, <1>8, <1>9, <1>10, <1>11, <1>12, <1>13, <1>14
        DEF AuthorityStep
-----------------------------------------------------------------------------
(* Theorems.                                                               *)

HandlersInv == PriceInv /\ SlotsAccounted /\ AuthorityInv

\* The invariants of the two handlers hold in every reachable state.
THEOREM HandlersInvariance == HandlersSpec => []HandlersInv
<1>1. HandlersInit => HandlersInv
    <2> SUFFICES ASSUME HandlersInit PROVE HandlersInv
        OBVIOUS
    <2>1. PriceInv
        <3>1. prices = <<>> /\ Len(prices) = 0
            BY DEF HandlersInit, PriceInit
        <3>2. prices \in Seq(Int)
            BY <3>1
        <3> QED BY <3>1, <3>2, PriceAssumption DEF HandlersInit, PriceInit, PriceInv, PricesApart, Updating
    <2>2. SlotsAccounted
        BY NothingReported DEF HandlersInit, AuthorityInit, SlotsAccounted
    <2>3. AuthorityInv
        BY DEF HandlersInit, AuthorityInit, AuthorityInv, AuthorityTypes,
               BeforeReset, OneCall, OneRevision, NotOlder, SinceRevision
    <2> QED BY <2>1, <2>2, <2>3 DEF HandlersInv
<1>2. HandlersInv /\ [HandlersNext]_handlersVars => HandlersInv'
    <2> SUFFICES ASSUME HandlersInv, [HandlersNext]_handlersVars PROVE HandlersInv'
        OBVIOUS
    <2> USE DEF HandlersInv
    <2>1. UNCHANGED priceVars => PriceInv'
        BY DEF priceVars, PriceInv, PricesApart
    <2>2. UNCHANGED authVars => SlotsAccounted' /\ AuthorityInv'
        BY DEF authVars, SlotsAccounted, AuthorityInv, AuthorityTypes, OneCall, OneRevision,
               NotOlder, SinceRevision, FailedOrLooking, QuietAuthority
    <2>3. ASSUME NEW w \in Workers, CallStep(w) \/ NewCall(w)
          PROVE  HandlersInv'
        <3>1. w \in Callers
            BY HandlersAssumption
        <3>2. CASE (PriceStep(w) \/ PriceStart(w)) /\ UNCHANGED authVars
            BY <2>2, <3>1, <3>2, PriceStepInv
        <3>3. CASE /\ AuthorityStep(w) \/ (\E b \in BlockNums : WriteStart(w, b))
                   /\ UNCHANGED priceVars
            BY <2>1, <3>3, SlotsStepInv, AuthorityStepInv
        <3> QED BY <2>3, <3>2, <3>3 DEF CallStep, NewCall
    <2>4. CASE AbortOnMap /\ UNCHANGED priceVars
        <3>1. PICK w \in Workers : TRUE
            BY <2>4 DEF AbortOnMap
        <3> QED BY <2>1, <2>4, <3>1, SlotsStepInv, AuthorityStepInv
    <2>5. CASE Tick /\ UNCHANGED authVars
        <3>1. PriceInv'
            BY <2>5, TickInv
        <3> QED BY <2>2, <2>5, <3>1
    <2>6. CASE UNCHANGED handlersVars
        BY <2>1, <2>2, <2>6 DEF handlersVars
    <2> QED BY <2>3, <2>4, <2>5, <2>6 DEF HandlersNext
<1> QED BY <1>1, <1>2, PTL DEF HandlersSpec

\* However many workers call PriceAPI.Write and however long its requests take, two
\* price points are an interval apart.
THEOREM PricesKeptApart == HandlersSpec => []PricesApart
<1>1. HandlersInv => PricesApart
    BY DEF HandlersInv, PriceInv
<1> QED BY <1>1, HandlersInvariance, PTL

\* List.Write reports every missed slot, but for the first of the older ones, for
\* every gap and every window.
THEOREM SlotsReported == HandlersSpec => []SlotsAccounted
<1>1. HandlersInv => SlotsAccounted
    BY DEF HandlersInv
<1> QED BY <1>1, HandlersInvariance, PTL

\* With one call of List.Write at a time, for a chain of any length and its blocks in
\* any order, the list of candidates is whole and, without events of the Authority
\* contract, out of date only when the request that was to renew it failed.
THEOREM OutdatedForAReason == HandlersSpec => []OutdatedOnlyByFailure
<1>1. HandlersInv => OutdatedOnlyByFailure
    <2> SUFFICES ASSUME HandlersInv, alone, AllIdle, candidates # {}
                 PROVE  /\ candidates = {updateBlock}
                        /\ QuietAuthority =>
                            \A x \in started :
                                x > updateBlock /\ kind[x] = "endorsor" => x \in notReset
        BY DEF OutdatedOnlyByFailure
    <2>1. AuthorityTypes /\ OneCall /\ OneRevision /\ SinceRevision
        BY DEF HandlersInv, AuthorityInv
    <2>2. \A w \in Workers : auth[w] # "number" /\ auth[w] \notin BeforeReset
        BY DEF AllIdle, BeforeReset
    <2>3. candidates = {updateBlock}
        BY <2>1, <2>2 DEF OneRevision
    <2>4. \A x : FailedOrLooking(x) => x \in notReset
        BY <2>2 DEF FailedOrLooking
    <2> QED BY <2>1, <2>3, <2>4 DEF SinceRevision
<1> QED BY <1>1, HandlersInvariance, PTL

-----------------------------------------------------------------------------
(* Members in order.                                                       *)

\* R orders the members of S, none before itself and any two one way.
StrictOrder(S, R) ==
    /\ \A i \in S : <<i, i>> \notin R
    /\ \A i, j \in S : i # j => <<i, j>> \in R \/ <<j, i>> \in R
    /\ \A i, j, k \in S : <<i, j>> \in R /\ <<j, k>> \in R => <<i, k>> \in R

Before(S, R, i) == {j \in S : <<j, i>> \in R}

\* A later member has more members before it.
LEMMA MoreBefore ==
    ASSUME NEW S, IsFiniteSet(S), NEW R, StrictOrder(S, R),
           NEW i \in S, NEW j \in S, <<i, j>> \in R
    PROVE  Cardinality(Before(S, R, i)) < Cardinality(Before(S, R, j))
<1>1. Before(S, R, i) \subseteq Before(S, R, j)
    BY DEF StrictOrder, Before
<1>2. i \in Before(S, R, j) /\ i \notin Before(S, R, i)
    BY DEF StrictOrder, Before
<1>3. IsFiniteSet(Before(S, R, j)) /\ IsFiniteSet(Before(S, R, i))
    BY FS_Subset DEF Before
<1>4. Cardinality(Before(S, R, j)) \in Nat /\ Cardinality(Before(S, R, i)) \in Nat
    BY <1>3, FS_CardinalityType
<1>5. /\ Cardinality(Before(S, R, i)) <= Cardinality(Before(S, R, j))
      /\ Cardinality(Before(S, R, j)) = Cardinality(Before(S, R, i)) =>
            Before(S, R, j) = Before(S, R, i)
    BY <1>1, <1>3, FS_Subset
<1>6. Cardinality(Before(S, R, j)) # Cardinality(Before(S, R, i))
    BY <1>2, <1>5
<1> QED BY <1>4, <1>5, <1>6

\* Each member has a different number of members before it.
LEMMA RankInjective ==
    ASSUME NEW S, IsFiniteSet(S), NEW R, StrictOrder(S, R),
           NEW i \in S, NEW j \in S,
           Cardinality(Before(S, R, i)) = Cardinality(Before(S, R, j))
    PROVE  i = j
<1>1. Cardinality(Before(S, R, i)) \in Nat
    <2>1. IsFiniteSet(Before(S, R, i))
        BY FS_Subset DEF Before
    <2> QED BY <2>1, FS_CardinalityType
<1>2. ~(<<i, j>> \in R) /\ ~(<<j, i>> \in R)
    BY <1>1, MoreBefore
<1> QED BY <1>2 DEF StrictOrder

\* Every number below that of the members is the rank of one.
LEMMA RankExists ==
    ASSUME NEW S, IsFiniteSet(S), NEW R, StrictOrder(S, R),
           NEW k \in 1 .. Cardinality(S)
    PROVE  \E i \in S : Cardinality(Before(S, R, i)) = k - 1
<1>1. Cardinality(S) \in Nat
    BY FS_CardinalityType
<1>2. PICK N : N = Cardinality(S)
    OBVIOUS
<1>3. PICK f : f = [i \in S |-> Cardinality(Before(S, R, i))]
    OBVIOUS
<1>4. ASSUME NEW i \in S PROVE f[i] \in 0 .. N - 1
    <2>1. IsFiniteSet(Before(S, R, i)) /\ Cardinality(Before(S, R, i)) <= Cardinality(S)
        BY FS_Subset DEF Before
    <2>2. Cardinality(Before(S, R, i)) \in Nat
        BY <2>1, FS_CardinalityType
    <2>3. Before(S, R, i) # S
        BY DEF Before, StrictOrder
    <2>4. Cardinality(S) = Cardinality(Before(S, R, i)) => S = Before(S, R, i)
        BY FS_Subset DEF Before
    <2> QED BY <1>1, <1>2, <1>3, <2>1, <2>2, <2>3, <2>4
<1>5. f \in Injection(S, 0 .. N - 1)
    <2>1. f \in [S -> 0 .. N - 1]
        BY <1>3, <1>4
    <2>2. ASSUME NEW i \in S, NEW j \in S, f[i] = f[j] PROVE i = j
        BY <1>3, <2>2, RankInjective
    <2> QED BY <2>1, <2>2 DEF Injection, IsInjective
<1>6. IsFiniteSet(0 .. N - 1) /\ Cardinality(0 .. N - 1) = N
    <2>1. 0 \in Int /\ N - 1 \in Int /\ N \in Nat
        BY <1>1, <1>2
    <2>2. /\ IsFiniteSet(0 .. N - 1)
          /\ Cardinality(0 .. N - 1) = IF 0 > N - 1 THEN 0 ELSE (N - 1) - 0 + 1
        BY <2>1, FS_Interval
    <2> QED BY <2>1, <2>2
<1>7. f \in Surjection(S, 0 .. N - 1)
    BY <1>2, <1>5, <1>6, FS_Injection
<1>8. k - 1 \in 0 .. N - 1
    BY <1>1, <1>2
<1>9. PICK i \in S : f[i] = k - 1
    BY <1>7, <1>8 DEF Surjection
<1> QED BY <1>3, <1>9

\* InOrder lists each member once, in the order.
LEMMA InOrderProperties ==
    ASSUME NEW S, IsFiniteSet(S), NEW R, StrictOrder(S, R)
    PROVE  /\ DOMAIN InOrder(S, R) = 1 .. Cardinality(S)
           /\ InOrder(S, R) = [k \in 1 .. Cardinality(S) |-> InOrder(S, R)[k]]
           /\ \A k \in 1 .. Cardinality(S) :
                /\ InOrder(S, R)[k] \in S
                /\ Cardinality(Before(S, R, InOrder(S, R)[k])) = k - 1
           /\ \A i \in S : \E k \in 1 .. Cardinality(S) : InOrder(S, R)[k] = i
           /\ \A k, l \in 1 .. Cardinality(S) :
                k < l => <<InOrder(S, R)[k], InOrder(S, R)[l]>> \in R
<1>1. Cardinality(S) \in Nat
    BY FS_CardinalityType
<1>2. PICK o : o = InOrder(S, R)
    OBVIOUS
<1>3. DOMAIN o = 1 .. Cardinality(S)
    BY <1>2 DEF InOrder
<1>4. ASSUME NEW k \in 1 .. Cardinality(S)
      PROVE  o[k] \in S /\ Cardinality(Before(S, R, o[k])) = k - 1
    <2>1. o[k] = CHOOSE i \in S : Cardinality(Before(S, R, i)) = k - 1
        BY <1>2 DEF InOrder, Before
    <2>2. \E i \in S : Cardinality(Before(S, R, i)) = k - 1
        BY RankExists
    <2> QED BY <2>1, <2>2
<1>5. ASSUME NEW i \in S PROVE \E k \in 1 .. Cardinality(S) : o[k] = i
    <2>1. PICK r : r = Cardinality(Before(S, R, i))
        OBVIOUS
    <2>2. IsFiniteSet(Before(S, R, i)) /\ Cardinality(Before(S, R, i)) <= Cardinality(S)
        BY FS_Subset DEF Before
    <2>3. Cardinality(Before(S, R, i)) \in Nat
        BY <2>2, FS_CardinalityType
    <2>4. Before(S, R, i) # S
        BY DEF Before, StrictOrder
    <2>5. Cardinality(S) = Cardinality(Before(S, R, i)) => S = Before(S, R, i)
        BY FS_Subset DEF Before
    <2>6. r + 1 \in 1 .. Cardinality(S) /\ (r + 1) - 1 = r
        BY <1>1, <2>1, <2>2, <2>3, <2>4, <2>5
    <2>7. o[r + 1] \in S /\ Cardinality(Before(S, R, o[r + 1])) = r
        BY <1>4, <2>6
    <2>8. o[r + 1] = i
        BY <2>1, <2>7, RankInjective
    <2> QED BY <2>6, <2>8
<1>6. ASSUME NEW k \in 1 .. Cardinality(S), NEW l \in 1 .. Cardinality(S), k < l
      PROVE  <<o[k], o[l]>> \in R
    <2>1. /\ o[k] \in S /\ Cardinality(Before(S, R, o[k])) = k - 1
          /\ o[l] \in S /\ Cardinality(Before(S, R, o[l])) = l - 1
        BY <1>4
    <2>2. o[k] # o[l]
        BY <1>1, <1>6, <2>1
    <2>3. ~(<<o[l], o[k]>> \in R)
        <3>1. SUFFICES ASSUME <<o[l], o[k]>> \in R PROVE FALSE
            OBVIOUS
        <3>2. Cardinality(Before(S, R, o[l])) < Cardinality(Before(S, R, o[k]))
            BY <2>1, <3>1, MoreBefore
        <3> QED BY <1>1, <1>6, <2>1, <3>2
    <2> QED BY <2>1, <2>2, <2>3 DEF StrictOrder
<1>7. o = [k \in 1 .. Cardinality(S) |-> o[k]]
    <2>1. ASSUME NEW k \in 1 .. Cardinality(S)
          PROVE  (CHOOSE i \in S : Cardinality({j \in S : <<j, i>> \in R}) = k - 1) \in S
        <3>1. \E i \in S : Cardinality({j \in S : <<j, i>> \in R}) = k - 1
            BY RankExists DEF Before
        <3> QED BY <3>1, Zenon
    <2>2. o \in [1 .. Cardinality(S) -> S]
        BY <1>2, <2>1, Zenon DEF InOrder
    <2> QED BY <2>2
<1> QED BY <1>2, <1>3, <1>4, <1>5, <1>6, <1>7

LEMMA InOrderList ==
    ASSUME NEW S, IsFiniteSet(S), NEW R, StrictOrder(S, R),
           NEW N, N = Cardinality(S), NEW o, o = InOrder(S, R)
    PROVE  /\ DOMAIN o = 1 .. N /\ o = [k \in 1 .. N |-> o[k]]
           /\ \A k \in 1 .. N : o[k] \in S
           /\ \A i \in S : \E k \in 1 .. N : o[k] = i
           /\ \A k, l \in 1 .. N : k < l => <<o[k], o[l]>> \in R
<1>1. DOMAIN o = 1 .. N
    BY InOrderProperties, Zenon
<1>2. o = [k \in 1 .. N |-> o[k]]
    BY InOrderProperties
<1>3. \A k \in 1 .. N : o[k] \in S
    BY InOrderProperties, Zenon
<1>4. \A i \in S : \E k \in 1 .. N : o[k] = i
    BY InOrderProperties
<1>5. \A k, l \in 1 .. N : k < l => <<o[k], o[l]>> \in R
    BY InOrderProperties, Zenon
<1> QED BY <1>1, <1>2, <1>3, <1>4, <1>5

\* It is the only such list.
LEMMA InOrderUnique ==
    ASSUME NEW S, NEW R, StrictOrder(S, R), NEW N \in Nat, NEW f, DOMAIN f = 1 .. N,
           f = [k \in 1 .. N |-> f[k]],
           \A k \in 1 .. N : f[k] \in S,
           \A i \in S : \E k \in 1 .. N : f[k] = i,
           \A k, l \in 1 .. N : k < l => <<f[k], f[l]>> \in R
    PROVE  IsFiniteSet(S) /\ Cardinality(S) = N /\ InOrder(S, R) = f
<1>1. ASSUME NEW k \in 1 .. N, NEW l \in 1 .. N, f[k] = f[l] PROVE k = l
    <2>1. ~(k < l) /\ ~(l < k)
        BY <1>1 DEF StrictOrder
    <2> QED BY <2>1
<1>2. f \in Bijection(1 .. N, S)
    <2>1. f \in [1 .. N -> S]
        BY Zenon
    <2>2. f \in Injection(1 .. N, S)
        BY <1>1, <2>1 DEF Injection, IsInjective
    <2>3. f \in Surjection(1 .. N, S)
        BY <2>1 DEF Surjection
    <2> QED BY <2>2, <2>3 DEF Bijection
<1>3. ExistsBijection(1 .. N, S)
    BY <1>2 DEF ExistsBijection
<1>4. IsFiniteSet(S) /\ Cardinality(S) = N
    BY <1>3, FS_NatBijection, FS_CountingElements
<1>5. ASSUME NEW k \in 1 .. N PROVE InOrder(S, R)[k] = f[k]
    <2>1. InOrder(S, R)[k] \in S /\ Cardinality(Before(S, R, InOrder(S, R)[k])) = k - 1
        BY <1>4, InOrderProperties
    <2>2. Before(S, R, f[k]) = {f[l] : l \in 1 .. k - 1}
        <3>1. ASSUME NEW j \in Before(S, R, f[k]) PROVE j \in {f[l] : l \in 1 .. k - 1}
            <4>1. PICK l \in 1 .. N : f[l] = j
                BY DEF Before
            <4>2. ~(k < l) /\ l # k
                BY <4>1 DEF Before, StrictOrder
            <4> QED BY <4>1, <4>2
        <3>2. ASSUME NEW l \in 1 .. k - 1 PROVE f[l] \in Before(S, R, f[k])
            <4>1. l \in 1 .. N /\ l < k
                OBVIOUS
            <4> QED BY <4>1 DEF Before
        <3> QED BY <3>1, <3>2
    <2>3. Cardinality({f[l] : l \in 1 .. k - 1}) = k - 1
        <3>1. PICK g : g = [l \in 1 .. k - 1 |-> f[l]]
            OBVIOUS
        <3>2. PICK T : T = {f[l] : l \in 1 .. k - 1}
            OBVIOUS
        <3>3. g \in [1 .. k - 1 -> T]
            BY <3>1, <3>2
        <3>4. g \in Injection(1 .. k - 1, T)
            <4>1. ASSUME NEW a \in 1 .. k - 1, NEW b \in 1 .. k - 1, g[a] = g[b] PROVE a = b
                <5>1. a \in 1 .. N /\ b \in 1 .. N /\ f[a] = f[b]
                    BY <3>1, <4>1
                <5> QED BY <5>1, <1>1
            <4>2. DOMAIN g = 1 .. k - 1
                BY <3>1
            <4> QED BY <3>3, <4>1, <4>2 DEF Injection, IsInjective
        <3>5. g \in Surjection(1 .. k - 1, T)
            BY <3>1, <3>2, <3>3 DEF Surjection
        <3>6. ExistsBijection(1 .. k - 1, T)
            BY <3>4, <3>5 DEF ExistsBijection, Bijection
        <3>7. k - 1 \in Nat
            OBVIOUS
        <3> QED BY <3>2, <3>6, <3>7, FS_CountingElements
    <2>4. f[k] \in S /\ Cardinality(Before(S, R, f[k])) = k - 1
        BY <2>2, <2>3
    <2> QED BY <1>4, <2>1, <2>4, RankInjective
<1>6. InOrder(S, R) = [k \in 1 .. N |-> InOrder(S, R)[k]]
    BY <1>4, InOrderProperties
<1> QED BY <1>4, <1>5, <1>6

\* Places of a list are ordered by their number.
LEMMA AscendingOrder ==
    ASSUME NEW I \in SUBSET Int
    PROVE  StrictOrder(I, Ascending(I))
BY DEF StrictOrder, Ascending

\* A sublist holds the elements at its places, each once and in order.
LEMMA SublistProperties ==
    ASSUME NEW E, NEW s \in Seq(E), NEW I \in SUBSET DOMAIN s
    PROVE  /\ IsFiniteSet(I) /\ Cardinality(I) \in Nat
           /\ Sublist(s, I) \in Seq(E)
           /\ Len(Sublist(s, I)) = Cardinality(I)
           /\ \A k \in 1 .. Cardinality(I) :
                /\ InOrder(I, Ascending(I))[k] \in I
                /\ Sublist(s, I)[k] = s[InOrder(I, Ascending(I))[k]]
           /\ \A i \in I : \E k \in 1 .. Cardinality(I) : InOrder(I, Ascending(I))[k] = i
           /\ \A k, l \in 1 .. Cardinality(I) :
                k < l => InOrder(I, Ascending(I))[k] < InOrder(I, Ascending(I))[l]
<1>1. Len(s) \in Nat /\ DOMAIN s = 1 .. Len(s) /\ \A i \in 1 .. Len(s) : s[i] \in E
    BY LenProperties, ElementOfSeq
<1>2. IsFiniteSet(I)
    <2>1. IsFiniteSet(1 .. Len(s))
        BY <1>1, FS_Interval
    <2> QED BY <1>1, <2>1, FS_Subset
<1>3. I \in SUBSET Int /\ Cardinality(I) \in Nat
    BY <1>1, <1>2, FS_CardinalityType
<1>4. PICK o : o = InOrder(I, Ascending(I))
    OBVIOUS
<1>5. /\ DOMAIN o = 1 .. Cardinality(I)
      /\ \A k \in 1 .. Cardinality(I) : o[k] \in I
      /\ \A i \in I : \E k \in 1 .. Cardinality(I) : o[k] = i
      /\ \A k, l \in 1 .. Cardinality(I) : k < l => <<o[k], o[l]>> \in Ascending(I)
    BY <1>2, <1>3, <1>4, AscendingOrder, InOrderProperties
<1>6. \A k, l \in 1 .. Cardinality(I) : k < l => o[k] < o[l]
    BY <1>5 DEF Ascending
<1>7. Sublist(s, I) = [k \in 1 .. Cardinality(I) |-> s[o[k]]]
    BY <1>4, <1>5 DEF Sublist
<1>8. \A k \in 1 .. Cardinality(I) : s[o[k]] \in E
    BY <1>1, <1>5
<1>9. Sublist(s, I) \in Seq(E) /\ Len(Sublist(s, I)) = Cardinality(I)
    <2>1. Sublist(s, I) \in [1 .. Cardinality(I) -> E]
        BY <1>7, <1>8
    <2> QED BY <1>3, <2>1, SeqDef, LenProperties
<1>10. \A k \in 1 .. Cardinality(I) : Sublist(s, I)[k] = s[o[k]]
    BY <1>7
<1> QED BY <1>2, <1>3, <1>4, <1>5, <1>6, <1>9, <1>10

-----------------------------------------------------------------------------
(* Lists of proposers.                                                     *)

\* Cutting a list keeps its first elements, and makes it empty only if it was.
LEMMA UpToProperties ==
    ASSUME NEW E, NEW s \in Seq(E), NEW count \in Nat
    PROVE  /\ UpTo(s, count) \in Seq(E)
           /\ Len(UpTo(s, count)) = AtMost(Len(s), count)
           /\ \A i \in 1 .. AtMost(Len(s), count) : UpTo(s, count)[i] = s[i]
           /\ count > 0 => (UpTo(s, count) = <<>> <=> s = <<>>)
<1>1. Len(s) \in Nat /\ \A i \in 1 .. Len(s) : s[i] \in E
    BY LenProperties, ElementOfSeq
<1>2. PICK m : m = AtMost(Len(s), count)
    OBVIOUS
<1>3. m \in Nat /\ m <= Len(s) /\ m <= count /\ (m = Len(s) \/ m = count)
    BY <1>1, <1>2 DEF AtMost
<1>4. \A i \in 1 .. m : s[i] \in E
    BY <1>1, <1>3
<1>5. /\ SubSeq(s, 1, m) \in Seq(E)
      /\ Len(SubSeq(s, 1, m)) = IF 1 <= m THEN m - 1 + 1 ELSE 0
      /\ \A i \in 1 .. m - 1 + 1 : SubSeq(s, 1, m)[i] = s[1 + i - 1]
    BY <1>3, <1>4, SubSeqProperties
<1>6. /\ UpTo(s, count) \in Seq(E) /\ Len(UpTo(s, count)) = m
      /\ \A i \in 1 .. m : UpTo(s, count)[i] = s[i]
    BY <1>2, <1>3, <1>5 DEF UpTo
<1>7. ASSUME count > 0 PROVE UpTo(s, count) = <<>> <=> s = <<>>
    <2>1. (UpTo(s, count) = <<>> => Len(UpTo(s, count)) = 0) /\ (s = <<>> => Len(s) = 0)
        OBVIOUS
    <2>2. (UpTo(s, count) # <<>> => Len(UpTo(s, count)) # 0) /\ (s # <<>> => Len(s) # 0)
        BY <1>6, EmptySeq
    <2> QED BY <1>1, <1>3, <1>6, <1>7, <2>1, <2>2
<1> QED BY <1>2, <1>6, <1>7

Eligible(nodes) == {i \in DOMAIN nodes : nodes[i].active /\ nodes[i].weight # 0}

\* Shuffled nodes are a list with as many elements as nodes can propose.
LEMMA ShuffleIsList ==
    ASSUME NEW E, NEW nodes \in Seq(E), NEW seed, NEW n
    PROVE  /\ IsFiniteSet(Eligible(nodes)) /\ Cardinality(Eligible(nodes)) \in Nat
           /\ \E T : ShufflePosNodes(nodes, seed, n) \in Seq(T)
           /\ Len(ShufflePosNodes(nodes, seed, n)) = Cardinality(Eligible(nodes))
           /\ ShufflePosNodes(nodes, seed, n) = <<>> <=> Eligible(nodes) = {}
<1>1. IsFiniteSet(Eligible(nodes)) /\ Cardinality(Eligible(nodes)) \in Nat
    <2>1. Len(nodes) \in Nat /\ DOMAIN nodes = 1 .. Len(nodes)
        BY LenProperties
    <2>2. IsFiniteSet(1 .. Len(nodes))
        BY <2>1, FS_Interval
    <2>3. Eligible(nodes) \in SUBSET (1 .. Len(nodes))
        BY <2>1 DEF Eligible
    <2> QED BY <2>2, <2>3, FS_Subset, FS_CardinalityType
<1>2. PICK R : ShufflePosNodes(nodes, seed, n) =
            [k \in DOMAIN InOrder(Eligible(nodes), R) |->
                nodes[InOrder(Eligible(nodes), R)[k]].master]
    BY Zenon DEF ShufflePosNodes, Eligible
<1>3. PICK o : o = InOrder(Eligible(nodes), R)
    OBVIOUS
<1>4. DOMAIN o = 1 .. Cardinality(Eligible(nodes))
    BY <1>3 DEF InOrder
<1>5. PICK f : f = ShufflePosNodes(nodes, seed, n)
    OBVIOUS
<1>6. PICK N : N = Cardinality(Eligible(nodes))
    OBVIOUS
<1>7. PICK T : T = {nodes[o[k]].master : k \in 1 .. N}
    OBVIOUS
<1>8. f = [k \in 1 .. N |-> nodes[o[k]].master]
    BY <1>2, <1>3, <1>4, <1>5, <1>6
<1>9. f \in [1 .. N -> T]
    BY <1>7, <1>8
<1>10. f \in Seq(T) /\ Len(f) = N
    BY <1>1, <1>6, <1>9, SeqDef, LenProperties
<1>11. f = <<>> <=> N = 0
    BY <1>10, EmptySeq
<1>12. N = 0 <=> Eligible(nodes) = {}
    BY <1>1, <1>6, FS_EmptySet
<1> QED BY <1>1, <1>5, <1>6, <1>10, <1>11, <1>12

-----------------------------------------------------------------------------
(* Lists of validators.                                                    *)

\* What the staker contract answers: no address twice, and a weight for the active
\* validators only.
WellFormed(vals) ==
    /\ vals \in Seq(Validation)
    /\ \A i, j \in DOMAIN vals : vals[i].addr = vals[j].addr => i = j
    /\ \A i \in DOMAIN vals : vals[i].weight # 0 <=> vals[i].status = "active"

\* What the chain changes of a validation.
LEMMA ExitingChanged ==
    ASSUME NEW v \in Validation, NEW x \in BOOLEAN
    PROVE  /\ [v EXCEPT !.exiting = x] \in Validation
           /\ [v EXCEPT !.exiting = x].addr = v.addr
           /\ [v EXCEPT !.exiting = x].status = v.status
           /\ [v EXCEPT !.exiting = x].weight = v.weight
BY DEF Validation

LEMMA OnlineChanged ==
    ASSUME NEW v \in Validation, NEW x \in BOOLEAN
    PROVE  /\ [v EXCEPT !.online = x] \in Validation
           /\ [v EXCEPT !.online = x].addr = v.addr
           /\ [v EXCEPT !.online = x].status = v.status
           /\ [v EXCEPT !.online = x].weight = v.weight
           /\ [v EXCEPT !.online = x].online = x
BY DEF Validation

LEMMA WeightChanged ==
    ASSUME NEW v \in Validation, NEW w \in Weights
    PROVE  /\ [v EXCEPT !.weight = w] \in Validation
           /\ [v EXCEPT !.weight = w].addr = v.addr
           /\ [v EXCEPT !.weight = w].status = v.status
           /\ [v EXCEPT !.weight = w].weight = w
BY DEF Validation

LEMMA ActivatedChanged ==
    ASSUME NEW v \in Validation, NEW w \in Weights
    PROVE  /\ [v EXCEPT !.status = "active", !.weight = w] \in Validation
           /\ [v EXCEPT !.status = "active", !.weight = w].addr = v.addr
           /\ [v EXCEPT !.status = "active", !.weight = w].status = "active"
           /\ [v EXCEPT !.status = "active", !.weight = w].weight = w
BY DEF Validation

\* Leaving out some validators.
LEMMA SublistWellFormed ==
    ASSUME NEW vals, WellFormed(vals), NEW I \in SUBSET DOMAIN vals
    PROVE  WellFormed(Sublist(vals, I))
<1>1. vals \in Seq(Validation)
    BY DEF WellFormed
<1>2. PICK o : o = InOrder(I, Ascending(I))
    OBVIOUS
<1>3. PICK N : N = Cardinality(I)
    OBVIOUS
<1>4. PICK t : t = Sublist(vals, I)
    OBVIOUS
<1>5. /\ N \in Nat /\ t \in Seq(Validation) /\ Len(t) = N
      /\ \A k \in 1 .. N : o[k] \in I /\ t[k] = vals[o[k]]
      /\ \A k, l \in 1 .. N : k < l => o[k] < o[l]
    BY <1>1, <1>2, <1>3, <1>4, SublistProperties
<1>6. DOMAIN t = 1 .. N /\ DOMAIN vals \subseteq Int
    BY <1>1, <1>5, LenProperties
<1>7. ASSUME NEW k \in DOMAIN t, NEW l \in DOMAIN t, t[k].addr = t[l].addr PROVE k = l
    <2>1. vals[o[k]].addr = vals[o[l]].addr /\ o[k] \in DOMAIN vals /\ o[l] \in DOMAIN vals
        BY <1>5, <1>6, <1>7
    <2>2. o[k] = o[l] /\ o[k] \in Int
        BY <1>6, <2>1 DEF WellFormed
    <2>3. ~(k < l) /\ ~(l < k)
        BY <1>5, <1>6, <2>2
    <2> QED BY <1>5, <1>6, <2>3
<1>8. ASSUME NEW k \in DOMAIN t PROVE t[k].weight # 0 <=> t[k].status = "active"
    BY <1>5, <1>6 DEF WellFormed
<1> QED BY <1>4, <1>5, <1>7, <1>8 DEF WellFormed

\* Changing a validator, but for its address.
LEMMA MapWellFormed ==
    ASSUME NEW vals, WellFormed(vals), NEW t, DOMAIN t = DOMAIN vals,
           t = [i \in DOMAIN vals |-> t[i]],
           \A i \in DOMAIN vals :
               /\ t[i] \in Validation /\ t[i].addr = vals[i].addr
               /\ t[i].weight # 0 <=> t[i].status = "active"
    PROVE  WellFormed(t) /\ Len(t) = Len(vals)
<1>1. vals \in Seq(Validation)
    BY DEF WellFormed
<1>2. Len(vals) \in Nat /\ DOMAIN vals = 1 .. Len(vals)
    BY <1>1, LenProperties
<1>3. t \in [1 .. Len(vals) -> Validation]
    BY <1>2, Zenon
<1>4. t \in Seq(Validation) /\ Len(t) = Len(vals)
    BY <1>2, <1>3, SeqDef, LenProperties
<1> QED BY <1>4 DEF WellFormed

\* The new entry of a validator in the queue.
LEMMA AppendWellFormed ==
    ASSUME NEW vals, WellFormed(vals), NEW a \in Validators \ StakersOf(vals)
    PROVE  /\ WellFormed(Append(vals, Queued(a)))
           /\ DOMAIN vals \subseteq DOMAIN Append(vals, Queued(a))
           /\ \A i \in DOMAIN vals : Append(vals, Queued(a))[i] = vals[i]
<1>1. vals \in Seq(Validation) /\ Queued(a) \in Validation
    BY DEF WellFormed, Queued, Validation
<1>2. PICK t : t = Append(vals, Queued(a))
    OBVIOUS
<1>3. /\ Len(vals) \in Nat /\ DOMAIN vals = 1 .. Len(vals)
      /\ t \in Seq(Validation) /\ Len(t) = Len(vals) + 1
      /\ \A i \in 1 .. Len(vals) : t[i] = vals[i]
      /\ t[Len(vals) + 1] = Queued(a)
    BY <1>1, <1>2, LenProperties, AppendProperties
<1>4. DOMAIN t = 1 .. Len(vals) + 1
    BY <1>3, LenProperties
<1>5. \A i \in DOMAIN vals : vals[i].addr # a
    BY DEF StakersOf, ToSet
<1>6. ASSUME NEW i \in DOMAIN t, NEW j \in DOMAIN t, t[i].addr = t[j].addr PROVE i = j
    <2>1. t[Len(vals) + 1].addr = a
        BY <1>3 DEF Queued
    <2>2. CASE i \in DOMAIN vals /\ j \in DOMAIN vals
        BY <1>3, <1>6, <2>2 DEF WellFormed
    <2>3. CASE ~(i \in DOMAIN vals /\ j \in DOMAIN vals)
        BY <1>3, <1>4, <1>5, <1>6, <2>1, <2>3
    <2> QED BY <2>2, <2>3
<1>7. ASSUME NEW i \in DOMAIN t PROVE t[i].weight # 0 <=> t[i].status = "active"
    <2>1. CASE i \in DOMAIN vals
        BY <1>3, <2>1 DEF WellFormed
    <2>2. CASE i \notin DOMAIN vals
        <3>1. t[i] = Queued(a)
            BY <1>3, <1>4, <2>2
        <3> QED BY <3>1 DEF Queued
    <2> QED BY <2>1, <2>2
<1>8. WellFormed(t)
    BY <1>3, <1>6, <1>7 DEF WellFormed
<1>9. DOMAIN vals \subseteq DOMAIN t
    BY <1>3, <1>4
<1> QED BY <1>2, <1>3, <1>8, <1>9

\* The transactions of a block keep the list well-formed, and leave the active
\* validators in it.
LEMMA TransactionsKeep ==
    ASSUME NEW vals, WellFormed(vals), NEW t \in Transactions(vals)
    PROVE  /\ WellFormed(t)
           /\ \A i \in ActiveAt(vals) : \E j \in ActiveAt(t) : t[j].addr = vals[i].addr
<1>1. vals \in Seq(Validation)
    BY DEF WellFormed
<1>2. CASE t = vals
    BY <1>2
<1>3. ASSUME NEW a \in Validators \ StakersOf(vals), t = Append(vals, Queued(a))
      PROVE  /\ WellFormed(t)
             /\ \A i \in ActiveAt(vals) : \E j \in ActiveAt(t) : t[j].addr = vals[i].addr
    <2>1. /\ WellFormed(t) /\ DOMAIN vals \subseteq DOMAIN t
          /\ \A i \in DOMAIN vals : t[i] = vals[i]
        BY <1>3, AppendWellFormed
    <2> QED BY <2>1 DEF ActiveAt
<1>4. ASSUME NEW q \in QueuedAt(vals), t = Sublist(vals, DOMAIN vals \ {q})
      PROVE  /\ WellFormed(t)
             /\ \A i \in ActiveAt(vals) : \E j \in ActiveAt(t) : t[j].addr = vals[i].addr
    <2>1. PICK I : I = DOMAIN vals \ {q}
        OBVIOUS
    <2>2. I \in SUBSET DOMAIN vals /\ t = Sublist(vals, I)
        BY <1>4, <2>1
    <2>3. WellFormed(t)
        BY <2>2, SublistWellFormed
    <2>4. ASSUME NEW i \in ActiveAt(vals) PROVE \E j \in ActiveAt(t) : t[j].addr = vals[i].addr
        <3>1. i \in I
            BY <2>1 DEF QueuedAt, ActiveAt
        <3>2. /\ Cardinality(I) \in Nat /\ t \in Seq(Validation) /\ Len(t) = Cardinality(I)
              /\ \A k \in 1 .. Cardinality(I) : t[k] = vals[InOrder(I, Ascending(I))[k]]
              /\ \E k \in 1 .. Cardinality(I) : InOrder(I, Ascending(I))[k] = i
            BY <1>1, <2>2, <3>1, SublistProperties
        <3>3. PICK k \in 1 .. Cardinality(I) : t[k] = vals[i]
            BY <3>2
        <3>4. k \in DOMAIN t
            BY <3>2, LenProperties
        <3> QED BY <3>3, <3>4 DEF ActiveAt
    <2> QED BY <2>3, <2>4
<1>5. ASSUME NEW e \in ActiveAt(vals), t = [vals EXCEPT ![e].exiting = TRUE]
      PROVE  /\ WellFormed(t)
             /\ \A i \in ActiveAt(vals) : \E j \in ActiveAt(t) : t[j].addr = vals[i].addr
    <2>1. \A i \in DOMAIN vals : vals[i] \in Validation
        BY <1>1, LenProperties, ElementOfSeq
    <2>2. DOMAIN t = DOMAIN vals /\ t = [i \in DOMAIN vals |-> t[i]]
        BY <1>5
    <2>3. ASSUME NEW i \in DOMAIN vals
          PROVE  /\ t[i] \in Validation /\ t[i].addr = vals[i].addr
                 /\ t[i].weight = vals[i].weight /\ t[i].status = vals[i].status
        <3>1. t[i] = IF i = e THEN [vals[e] EXCEPT !.exiting = TRUE] ELSE vals[i]
            BY <1>5
        <3>2. CASE i = e
            <4>1. /\ [vals[e] EXCEPT !.exiting = TRUE] \in Validation
                  /\ [vals[e] EXCEPT !.exiting = TRUE].addr = vals[e].addr
                  /\ [vals[e] EXCEPT !.exiting = TRUE].status = vals[e].status
                  /\ [vals[e] EXCEPT !.exiting = TRUE].weight = vals[e].weight
                BY <2>1, <3>2, ExitingChanged
            <4> QED BY <3>1, <3>2, <4>1, Zenon
        <3>3. CASE i # e
            BY <2>1, <3>1, <3>3
        <3> QED BY <3>2, <3>3
    <2>4. \A i \in DOMAIN vals : t[i].weight # 0 <=> t[i].status = "active"
        BY <2>3 DEF WellFormed
    <2>5. WellFormed(t)
        BY <2>2, <2>3, <2>4, MapWellFormed
    <2> QED BY <2>2, <2>3, <2>5 DEF ActiveAt
<1> QED BY <1>2, <1>3, <1>4, <1>5 DEF Transactions

\* Who is online changes nothing else; the signer is.
LEMMA OnlineAfterKeeps ==
    ASSUME NEW vals, WellFormed(vals), NEW s, NEW t \in OnlineAfter(vals, s)
    PROVE  /\ WellFormed(t) /\ DOMAIN t = DOMAIN vals
           /\ \A i \in DOMAIN vals :
                /\ t[i].addr = vals[i].addr /\ t[i].status = vals[i].status
                /\ vals[i].addr = s => t[i].online
<1>1. \A i \in DOMAIN vals : vals[i] \in Validation
    BY LenProperties, ElementOfSeq DEF WellFormed
<1>2. PICK signed : signed = [i \in DOMAIN vals |->
                                [vals[i] EXCEPT !.online = vals[i].online \/ vals[i].addr = s]]
    OBVIOUS
<1>3. ASSUME NEW i \in DOMAIN vals
      PROVE  /\ signed[i] \in Validation /\ signed[i].addr = vals[i].addr
             /\ signed[i].status = vals[i].status /\ signed[i].weight = vals[i].weight
             /\ vals[i].addr = s => signed[i].online
    <2>1. PICK x : x = (vals[i].online \/ vals[i].addr = s)
        OBVIOUS
    <2> x \in BOOLEAN
        BY <2>1
    <2>2. /\ [vals[i] EXCEPT !.online = x] \in Validation
          /\ [vals[i] EXCEPT !.online = x].addr = vals[i].addr
          /\ [vals[i] EXCEPT !.online = x].status = vals[i].status
          /\ [vals[i] EXCEPT !.online = x].weight = vals[i].weight
          /\ [vals[i] EXCEPT !.online = x].online = x
        BY <1>1, <2>1, OnlineChanged, Zenon
    <2>3. signed[i] = [vals[i] EXCEPT !.online = x]
        BY <1>2, <2>1, Zenon
    <2>4. vals[i].addr = s => x
        BY <2>1, Zenon
    <2> QED BY <2>2, <2>3, <2>4, Zenon
<1>4. \/ t = signed
      \/ \E j \in DOMAIN vals : vals[j].addr # s /\ t = [signed EXCEPT ![j].online = FALSE]
    BY <1>2, Zenon DEF OnlineAfter, ActiveAt
<1>5. DOMAIN t = DOMAIN vals /\ t = [i \in DOMAIN vals |-> t[i]]
    BY <1>2, <1>4
<1>6. ASSUME NEW i \in DOMAIN vals
      PROVE  /\ t[i] \in Validation /\ t[i].addr = vals[i].addr
             /\ t[i].status = vals[i].status /\ t[i].weight = vals[i].weight
             /\ vals[i].addr = s => t[i].online
    <2>1. CASE t[i] = signed[i]
        BY <1>3, <2>1, Zenon
    <2>2. CASE vals[i].addr # s /\ t[i] = [signed[i] EXCEPT !.online = FALSE]
        <3>1. /\ [signed[i] EXCEPT !.online = FALSE] \in Validation
              /\ [signed[i] EXCEPT !.online = FALSE].addr = signed[i].addr
              /\ [signed[i] EXCEPT !.online = FALSE].status = signed[i].status
              /\ [signed[i] EXCEPT !.online = FALSE].weight = signed[i].weight
            BY <1>3, OnlineChanged
        <3> QED BY <1>3, <2>2, <3>1, Zenon
    <2>3. t[i] = signed[i] \/ (vals[i].addr # s /\ t[i] = [signed[i] EXCEPT !.online = FALSE])
        BY <1>2, <1>4
    <2> QED BY <2>1, <2>2, <2>3
<1>7. \A i \in DOMAIN vals : t[i].weight # 0 <=> t[i].status = "active"
    BY <1>6 DEF WellFormed
<1>8. WellFormed(t)
    BY <1>5, <1>6, <1>7, MapWellFormed
<1> QED BY <1>5, <1>6, <1>8

\* An epoch's housekeeping keeps the list well-formed.
LEMMA HousekeepKeeps ==
    ASSUME NEW vals, WellFormed(vals), NEW t \in Housekeep(vals)
    PROVE  WellFormed(t)
<1>1. WellFormed(Exits(vals))
    BY SublistWellFormed DEF Exits
<1>2. ASSUME NEW l, WellFormed(l), NEW r \in Renewals(l) PROVE WellFormed(r)
    <2>1. CASE r = l
        BY <1>2, <2>1
    <2>2. ASSUME NEW e \in ActiveAt(l), NEW w \in Weights, r = [l EXCEPT ![e].weight = w]
          PROVE  WellFormed(r)
        <3>1. \A i \in DOMAIN l : l[i] \in Validation
            BY <1>2, LenProperties, ElementOfSeq DEF WellFormed
        <3>2. DOMAIN r = DOMAIN l /\ r = [i \in DOMAIN l |-> r[i]]
            BY <2>2
        <3>3. ASSUME NEW i \in DOMAIN l
              PROVE  /\ r[i] \in Validation /\ r[i].addr = l[i].addr
                     /\ r[i].weight # 0 <=> r[i].status = "active"
            <4>1. r[i] = IF i = e THEN [l[e] EXCEPT !.weight = w] ELSE l[i]
                BY <2>2
            <4>2. CASE i = e
                <5>1. /\ [l[e] EXCEPT !.weight = w] \in Validation
                      /\ [l[e] EXCEPT !.weight = w].addr = l[e].addr
                      /\ [l[e] EXCEPT !.weight = w].status = l[e].status
                      /\ [l[e] EXCEPT !.weight = w].weight = w
                    BY <3>1, <4>2, WeightChanged
                <5>2. l[e].status = "active" /\ w # 0
                    BY HayabusaAssumption DEF ActiveAt
                <5> QED BY <4>1, <4>2, <5>1, <5>2, Zenon
            <4>3. CASE i # e
                BY <1>2, <3>1, <4>1, <4>3 DEF WellFormed
            <4> QED BY <4>2, <4>3
        <3> QED BY <1>2, <3>2, <3>3, MapWellFormed
    <2> QED BY <1>2, <2>1, <2>2 DEF Renewals
<1>3. ASSUME NEW l, WellFormed(l), NEW r \in Activations(l) PROVE WellFormed(r)
    <2>0. PICK k \in 0 .. Len(l) - Cardinality(ActiveAt(l)) :
            r \in {[i \in DOMAIN l |->
                        IF i \in Cardinality(ActiveAt(l)) + 1 .. Cardinality(ActiveAt(l)) + k
                        THEN [l[i] EXCEPT !.status = "active", !.weight = w] ELSE l[i]] :
                            w \in Weights}
        BY <1>3 DEF Activations
    <2>1. PICK I : I = Cardinality(ActiveAt(l)) + 1 .. Cardinality(ActiveAt(l)) + k
        OBVIOUS
    <2>5. PICK w \in Weights :
            r = [i \in DOMAIN l |->
                    IF i \in I THEN [l[i] EXCEPT !.status = "active", !.weight = w] ELSE l[i]]
        BY <2>0, <2>1, Zenon
    <2>2. \A i \in DOMAIN l : l[i] \in Validation
        BY <1>3, LenProperties, ElementOfSeq DEF WellFormed
    <2>3. DOMAIN r = DOMAIN l /\ r = [i \in DOMAIN l |-> r[i]]
        BY <2>5
    <2>4. ASSUME NEW i \in DOMAIN l
          PROVE  /\ r[i] \in Validation /\ r[i].addr = l[i].addr
                 /\ r[i].weight # 0 <=> r[i].status = "active"
        <3>1. CASE i \in I
            <4>1. r[i] = [l[i] EXCEPT !.status = "active", !.weight = w]
                BY <2>5, <3>1
            <4>2. /\ [l[i] EXCEPT !.status = "active", !.weight = w] \in Validation
                  /\ [l[i] EXCEPT !.status = "active", !.weight = w].addr = l[i].addr
                  /\ [l[i] EXCEPT !.status = "active", !.weight = w].status = "active"
                  /\ [l[i] EXCEPT !.status = "active", !.weight = w].weight = w
                BY <2>2, ActivatedChanged
            <4>3. w # 0
                BY HayabusaAssumption
            <4> QED BY <4>1, <4>2, <4>3, Zenon
        <3>2. CASE i \notin I
            BY <1>3, <2>2, <2>5, <3>2 DEF WellFormed
        <3> QED BY <3>1, <3>2
    <2> QED BY <1>3, <2>3, <2>4, MapWellFormed
<1>4. PICK r \in Renewals(Exits(vals)) : t \in Activations(r)
    BY DEF Housekeep
<1> QED BY <1>1, <1>2, <1>3, <1>4

-----------------------------------------------------------------------------
(* What is read of the measurement individual_validators.                  *)

Entry(v) == [status |-> v.status, online |-> v.online, weight |-> v.weight]

LEMMA TheOnly == \A x : The({x}) = x
BY DEF The

\* A validator is listed once.
LEMMA AtOnce ==
    ASSUME NEW vals, WellFormed(vals), NEW a, NEW v \in At(vals, a)
    PROVE  At(vals, a) = {v} /\ v \in Validation
<1>1. \A i \in DOMAIN vals : vals[i] \in Validation
    BY LenProperties, ElementOfSeq DEF WellFormed
<1>2. PICK i \in DOMAIN vals : vals[i] = v /\ v.addr = a
    BY DEF At, ToSet
<1>3. ASSUME NEW u \in At(vals, a) PROVE u = v
    <2>1. PICK j \in DOMAIN vals : vals[j] = u /\ u.addr = a
        BY DEF At, ToSet
    <2>2. i = j
        BY <1>2, <2>1 DEF WellFormed
    <2> QED BY <1>2, <2>1, <2>2
<1> QED BY <1>1, <1>2, <1>3

\* The wrapped difference of two weights leads from the one to the other.
LEMMA DifferenceAddsUp ==
    ASSUME NEW u \in {0} \cup Weights, NEW w \in {0} \cup Weights
    PROVE  (u + ((w - u) % Width)) % Width = w
<1>1. Width \in Nat /\ \A x \in Weights : x \in 1 .. Width - 1
    BY HayabusaAssumption
<1>2. PICK x \in Weights : TRUE
    BY HayabusaAssumption
<1>3. Width \in Nat \ {0}
    BY <1>1, <1>2
<1>4. u \in 0 .. Width - 1 /\ w \in 0 .. Width - 1
    BY <1>1, <1>3
<1> QED BY <1>3, <1>4

\* The point of a validator leads from its entry at the parent to its entry now.
LEMMA PointAddsUp ==
    ASSUME NEW prev, NEW v \in Validation, NEW record,
           \/ prev = {} /\ record = {}
           \/ \E u \in Validation : prev = {u} /\ record = {Entry(u)}
    PROVE  Replay(record, ValidatorPoint(prev, v)) = {Entry(v)}
<1>1. PICK p : p = ValidatorPoint(prev, v)
    OBVIOUS
<1>2. CASE prev = {} /\ record = {}
    <2>1. /\ p.status_changed = {v.status} /\ p.online_changed = {v.online}
          /\ p.total_weight = v.weight
        BY <1>1, <1>2 DEF ValidatorPoint
    <2> QED BY <1>1, <1>2, <2>1, TheOnly DEF Replay, Entry
<1>3. ASSUME NEW u \in Validation, prev = {u}, record = {Entry(u)}
      PROVE  Replay(record, p) = {Entry(v)}
    <2>1. The(prev) = u /\ The(record) = Entry(u) /\ prev # {} /\ record # {}
        BY <1>3, TheOnly
    <2>2. /\ p.status_changed = IF u.status # v.status THEN {v.status} ELSE {}
          /\ p.online_changed = IF u.online # v.online THEN {v.online} ELSE {}
          /\ p.weight_changed = IF u.weight # v.weight THEN {(v.weight - u.weight) % Width} ELSE {}
        BY <1>1, <2>1 DEF ValidatorPoint
    <2>3. (u.weight + ((v.weight - u.weight) % Width)) % Width = v.weight
        <3>1. u.weight \in {0} \cup Weights /\ v.weight \in {0} \cup Weights
            BY DEF Validation
        <3> QED BY <3>1, DifferenceAddsUp
    <2>4. (IF p.status_changed # {} THEN The(p.status_changed) ELSE u.status) = v.status
        BY <2>2, TheOnly
    <2>5. (IF p.online_changed # {} THEN The(p.online_changed) ELSE u.online) = v.online
        BY <2>2, TheOnly
    <2>6. (IF p.weight_changed = {} THEN u.weight
           ELSE (u.weight + The(p.weight_changed)) % Width) = v.weight
        <3>1. CASE u.weight = v.weight
            BY <2>2, <3>1
        <3>2. CASE u.weight # v.weight
            <4>1. p.weight_changed # {} /\ The(p.weight_changed) = (v.weight - u.weight) % Width
                BY <2>2, <3>2, TheOnly
            <4> QED BY <2>3, <4>1
        <3> QED BY <3>1, <3>2
    <2>7. /\ The(record).status = u.status /\ The(record).online = u.online
          /\ The(record).weight = u.weight
        BY <2>1 DEF Entry
    <2>8. Replay(record, p) =
            {[status |-> IF p.status_changed # {} THEN The(p.status_changed) ELSE u.status,
              online |-> IF p.online_changed # {} THEN The(p.online_changed) ELSE u.online,
              weight |-> IF p.weight_changed = {} THEN u.weight
                         ELSE (u.weight + The(p.weight_changed)) % Width]}
        BY <2>1, <2>7, Zenon DEF Replay
    <2> QED BY <2>4, <2>5, <2>6, <2>8, Zenon DEF Entry
<1> QED BY <1>1, <1>2, <1>3

\* What is read adds up over a block.
LEMMA StatsAddUp ==
    ASSUME NEW prev, WellFormed(prev), NEW cur, WellFormed(cur),
           \A a \in Validators : recorded[a] = {Entry(v) : v \in At(prev, a)},
           NEW a \in Validators
    PROVE  CreateSingleValidatorStats(prev, cur)[a] = {Entry(v) : v \in At(cur, a)}
<1>1. CASE At(cur, a) # {}
    <2>1. PICK v \in At(cur, a) : TRUE
        BY <1>1
    <2>2. At(cur, a) = {v} /\ v \in Validation /\ The(At(cur, a)) = v
        BY AtOnce, TheOnly
    <2>3. \/ At(prev, a) = {} /\ recorded[a] = {}
          \/ \E u \in Validation : At(prev, a) = {u} /\ recorded[a] = {Entry(u)}
        <3>1. CASE At(prev, a) = {}
            BY <3>1
        <3>2. CASE At(prev, a) # {}
            <4>1. PICK u \in At(prev, a) : TRUE
                BY <3>2
            <4>2. At(prev, a) = {u} /\ u \in Validation
                BY AtOnce
            <4>3. {Entry(x) : x \in {u}} = {Entry(u)}
                OBVIOUS
            <4> QED BY <4>2, <4>3
        <3> QED BY <3>1, <3>2
    <2>4. Replay(recorded[a], ValidatorPoint(At(prev, a), v)) = {Entry(v)}
        BY <2>2, <2>3, PointAddsUp, Zenon
    <2>5. CreateSingleValidatorStats(prev, cur)[a] =
            Replay(recorded[a], ValidatorPoint(At(prev, a), v))
        BY <1>1, <2>2, Zenon DEF CreateSingleValidatorStats
    <2> QED BY <2>2, <2>4, <2>5
<1>2. CASE At(cur, a) = {} /\ At(prev, a) # {}
    BY <1>2 DEF CreateSingleValidatorStats
<1>3. CASE At(cur, a) = {} /\ At(prev, a) = {}
    BY <1>3 DEF CreateSingleValidatorStats
<1> QED BY <1>1, <1>2, <1>3

-----------------------------------------------------------------------------
(* The proposers of a list of validators.                                  *)

PosNode == [master : Validators, active : BOOLEAN, weight : {0} \cup Weights]

\* The proposers are the active validators, in the order of the list.
LEMMA ProposerPlaces ==
    ASSUME NEW vals, WellFormed(vals)
    PROVE  /\ IsFiniteSet(ActiveAt(vals)) /\ Cardinality(ActiveAt(vals)) \in Nat
           /\ CreateSlotsProposers(vals) \in Seq(PosNode)
           /\ Len(CreateSlotsProposers(vals)) = Cardinality(ActiveAt(vals))
           /\ \E o :
                /\ \A k \in 1 .. Cardinality(ActiveAt(vals)) :
                    /\ o[k] \in ActiveAt(vals)
                    /\ CreateSlotsProposers(vals)[k] =
                        [master |-> vals[o[k]].addr, active |-> vals[o[k]].online,
                         weight |-> vals[o[k]].weight]
                /\ \A i \in ActiveAt(vals) : \E k \in 1 .. Cardinality(ActiveAt(vals)) : o[k] = i
                /\ \A k, l \in 1 .. Cardinality(ActiveAt(vals)) : o[k] = o[l] => k = l
<1>1. vals \in Seq(Validation) /\ ActiveAt(vals) \in SUBSET DOMAIN vals
    BY DEF WellFormed, ActiveAt
<1>2. PICK I : I = ActiveAt(vals)
    OBVIOUS
<1>3. PICK t : t = Sublist(vals, I)
    OBVIOUS
<1>4. PICK o : o = InOrder(I, Ascending(I))
    OBVIOUS
<1>5. /\ IsFiniteSet(I) /\ Cardinality(I) \in Nat
      /\ t \in Seq(Validation) /\ Len(t) = Cardinality(I)
      /\ \A k \in 1 .. Cardinality(I) : o[k] \in I /\ t[k] = vals[o[k]]
      /\ \A i \in I : \E k \in 1 .. Cardinality(I) : o[k] = i
    <2>1. I \in SUBSET DOMAIN vals
        BY <1>1, <1>2
    <2>2. IsFiniteSet(I) /\ Cardinality(I) \in Nat
        BY <1>1, <2>1, SublistProperties
    <2>3. Sublist(vals, I) \in Seq(Validation) /\ Len(Sublist(vals, I)) = Cardinality(I)
        BY <1>1, <2>1, SublistProperties
    <2>4. \A k \in 1 .. Cardinality(I) :
            /\ InOrder(I, Ascending(I))[k] \in I
            /\ Sublist(vals, I)[k] = vals[InOrder(I, Ascending(I))[k]]
        BY <1>1, <2>1, SublistProperties
    <2>5. ASSUME NEW i \in I
          PROVE  \E k \in 1 .. Cardinality(I) : InOrder(I, Ascending(I))[k] = i
        BY <1>1, <2>1, SublistProperties
    <2> QED BY <1>3, <1>4, <2>2, <2>3, <2>4, <2>5, Zenon
<1>6. DOMAIN t = 1 .. Cardinality(I) /\ \A k \in 1 .. Cardinality(I) : t[k] \in Validation
    BY <1>5, LenProperties, ElementOfSeq
<1>7. PICK p : p = CreateSlotsProposers(vals)
    OBVIOUS
<1>8. p = [k \in 1 .. Cardinality(I) |->
            [master |-> t[k].addr, active |-> t[k].online, weight |-> t[k].weight]]
    BY <1>2, <1>3, <1>6, <1>7 DEF CreateSlotsProposers, PosNodes
<1>9. \A k \in 1 .. Cardinality(I) :
        [master |-> t[k].addr, active |-> t[k].online, weight |-> t[k].weight] \in PosNode
    BY <1>6 DEF Validation, PosNode
<1>10. p \in [1 .. Cardinality(I) -> PosNode]
    BY <1>8, <1>9
<1>11. p \in Seq(PosNode) /\ Len(p) = Cardinality(I)
    BY <1>5, <1>10, SeqDef, LenProperties
<1>12. \A k \in 1 .. Cardinality(I) :
        /\ o[k] \in I
        /\ p[k] = [master |-> vals[o[k]].addr, active |-> vals[o[k]].online,
                   weight |-> vals[o[k]].weight]
    BY <1>5, <1>8
<1>13. ASSUME NEW k \in 1 .. Cardinality(I), NEW l \in 1 .. Cardinality(I), o[k] = o[l]
       PROVE  k = l
    <2>1. (k < l => o[k] < o[l]) /\ (l < k => o[l] < o[k])
        BY <1>1, <1>2, <1>4, SublistProperties
    <2>2. o[k] \in Int
        BY <1>1, <1>2, <1>5, LenProperties
    <2> QED BY <1>5, <1>13, <2>1, <2>2
<1> QED BY <1>2, <1>5, <1>7, <1>11, <1>12, <1>13

LEMMA ProposersAre ==
    ASSUME NEW vals, WellFormed(vals)
    PROVE  /\ IsFiniteSet(ActiveAt(vals)) /\ Cardinality(ActiveAt(vals)) \in Nat
           /\ CreateSlotsProposers(vals) \in Seq(PosNode)
           /\ Len(CreateSlotsProposers(vals)) = Cardinality(ActiveAt(vals))
           /\ \A k \in 1 .. Cardinality(ActiveAt(vals)) :
                \E i \in ActiveAt(vals) :
                    CreateSlotsProposers(vals)[k] =
                        [master |-> vals[i].addr, active |-> vals[i].online,
                         weight |-> vals[i].weight]
           /\ \A i \in ActiveAt(vals) : \E k \in 1 .. Cardinality(ActiveAt(vals)) :
                    CreateSlotsProposers(vals)[k] =
                        [master |-> vals[i].addr, active |-> vals[i].online,
                         weight |-> vals[i].weight]
<1>1. PICK p : p = CreateSlotsProposers(vals)
    OBVIOUS
<1>2. PICK o :
        /\ \A k \in 1 .. Cardinality(ActiveAt(vals)) :
            /\ o[k] \in ActiveAt(vals)
            /\ CreateSlotsProposers(vals)[k] =
                [master |-> vals[o[k]].addr, active |-> vals[o[k]].online,
                 weight |-> vals[o[k]].weight]
        /\ \A i \in ActiveAt(vals) : \E k \in 1 .. Cardinality(ActiveAt(vals)) : o[k] = i
        /\ \A k, l \in 1 .. Cardinality(ActiveAt(vals)) : o[k] = o[l] => k = l
    BY ProposerPlaces
<1>3. \A k \in 1 .. Cardinality(ActiveAt(vals)) : \E i \in ActiveAt(vals) :
        p[k] = [master |-> vals[i].addr, active |-> vals[i].online, weight |-> vals[i].weight]
    BY <1>1, <1>2
<1>4. \A i \in ActiveAt(vals) : \E k \in 1 .. Cardinality(ActiveAt(vals)) :
        p[k] = [master |-> vals[i].addr, active |-> vals[i].online, weight |-> vals[i].weight]
    BY <1>1, <1>2
<1> QED BY <1>1, <1>3, <1>4, ProposerPlaces

\* "slots" and "pos" have the same nodes.
LEMMA SameNodes ==
    ASSUME NEW vals, WellFormed(vals)
    PROVE  ConvertStakerToPosNodes(vals) = CreateSlotsProposers(vals)
<1>1. Weighted(vals) = ActiveAt(vals)
    BY DEF WellFormed, Weighted, ActiveAt
<1> QED BY <1>1 DEF ConvertStakerToPosNodes, CreateSlotsProposers

\* The validator s is active, and online, on the list.
Proposes(vals, s) == \E i \in ActiveAt(vals) : vals[i].addr = s /\ vals[i].online

\* If there is one, there are nodes, and some can propose.
LEMMA SomeoneProposes ==
    ASSUME NEW vals, WellFormed(vals), NEW s, Proposes(vals, s)
    PROVE  /\ CreateSlotsProposers(vals) # <<>>
           /\ Eligible(CreateSlotsProposers(vals)) # {}
           /\ \E i \in DOMAIN CreateSlotsProposers(vals) :
                CreateSlotsProposers(vals)[i].master = s
<1>1. PICK i \in ActiveAt(vals) : vals[i].addr = s /\ vals[i].online
    BY DEF Proposes
<1>2. PICK p : p = CreateSlotsProposers(vals)
    OBVIOUS
<1>3. p \in Seq(PosNode) /\ Len(p) = Cardinality(ActiveAt(vals))
    BY <1>2, ProposersAre
<1>4. PICK k \in 1 .. Cardinality(ActiveAt(vals)) :
        p[k] = [master |-> vals[i].addr, active |-> vals[i].online, weight |-> vals[i].weight]
    BY <1>2, ProposersAre
<1>5. k \in DOMAIN p /\ p # <<>>
    BY <1>3, LenProperties
<1>6. vals[i].weight # 0
    BY DEF WellFormed, ActiveAt
<1>7. p[k].master = s /\ p[k].active /\ p[k].weight # 0
    BY <1>1, <1>4, <1>6
<1> QED BY <1>2, <1>5, <1>7 DEF Eligible

-----------------------------------------------------------------------------
(* The inductive invariant.                                                *)

AuthorityNode == [master : ToSet(AuthorityNodes), active : BOOLEAN]

\* The authority nodes do not change, some are active.
AuthorityListed(nodes) ==
    /\ nodes \in Seq(AuthorityNode) /\ Len(nodes) = Len(AuthorityNodes)
    /\ \A i \in DOMAIN nodes : nodes[i].master = AuthorityNodes[i]
    /\ \E i \in DOMAIN nodes : nodes[i].active

\* The lists the contracts answered, what was read so far, and under proof of
\* stake the signer, who is active and online after its own block.
StatsInv ==
    /\ number \in Nat /\ number + 1 >= ForkBlock /\ number < ForkBlock + MaxBlock
    /\ WellFormed(parentStaker) /\ WellFormed(staker)
    /\ \A a \in Validators : recorded[a] = {Entry(v) : v \in At(staker, a)}
    /\ Active(number) => /\ signer \in Validators /\ Proposes(staker, signer)
                         /\ \E k \in 1 .. MaxGap : gap = k * BlockInterval
    /\ ~Active(number) => AuthorityListed(parentAuthNodes) /\ AuthorityListed(authNodes)

\* Nothing is lost to a panic when someone proposes.
LEMMA Written ==
    ASSUME NEW n, Forked(n), NEW prev, NEW cur, WellFormed(cur),
           ~Active(n) \/ \E s : Proposes(cur, s),
           PosWrite(n, prev, cur)
    PROVE  recorded' = CreateSingleValidatorStats(prev, cur)
<1>1. ASSUME NEW s, Proposes(cur, s) PROVE ~FutureSlotsPanics(n, cur)
    <2>1. CreateSlotsProposers(cur) \in Seq(PosNode) /\ Eligible(CreateSlotsProposers(cur)) # {}
        BY <1>1, ProposersAre, SomeoneProposes
    <2>2. ShufflePosNodes(CreateSlotsProposers(cur), Seed(n), n) # <<>>
        BY <2>1, ShuffleIsList
    <2> QED BY <2>2 DEF FutureSlotsPanics
<1> QED BY <1>1 DEF PosWrite

\* A block under proof of stake.
LEMMA SignedBlockStep ==
    ASSUME number \in Nat, number + 1 >= ForkBlock, WellFormed(staker),
           NEW vals, WellFormed(vals), SignedBlock(vals)
    PROVE  /\ number' = number + 1 /\ parentStaker' = staker /\ WellFormed(staker')
           /\ signer' \in Validators /\ Proposes(staker', signer')
           /\ \E k \in 1 .. MaxGap : gap' = k * BlockInterval
           /\ recorded' = CreateSingleValidatorStats(staker, staker')
<1>1. PICK s \in Validators, k \in 1 .. MaxGap :
        /\ \E i \in DOMAIN CreateSlotsProposers(vals) : CreateSlotsProposers(vals)[i].master = s
        /\ number' = number + 1 /\ gap' = k * BlockInterval /\ signer' = s
        /\ parentStaker' = staker
        /\ staker' \in UNION {OnlineAfter(t, s) : t \in Transactions(vals)}
        /\ PosWrite(number', staker, staker')
    BY Zenon DEF SignedBlock
<1>2. PICK t \in Transactions(vals) : staker' \in OnlineAfter(t, s)
    BY <1>1
<1>3. WellFormed(t)
    BY TransactionsKeep
<1>4. /\ WellFormed(staker') /\ DOMAIN staker' = DOMAIN t
      /\ \A i \in DOMAIN t :
            /\ staker'[i].addr = t[i].addr /\ staker'[i].status = t[i].status
            /\ t[i].addr = s => staker'[i].online
    BY <1>2, <1>3, OnlineAfterKeeps
<1>5. \E i \in ActiveAt(vals) : vals[i].addr = s
    <2>1. PICK p : p = CreateSlotsProposers(vals)
        OBVIOUS
    <2>2. PICK k1 \in DOMAIN p : p[k1].master = s
        BY <1>1, <2>1
    <2>3. p \in Seq(PosNode) /\ Len(p) = Cardinality(ActiveAt(vals))
        BY <2>1, ProposersAre
    <2>4. k1 \in 1 .. Cardinality(ActiveAt(vals))
        BY <2>2, <2>3, LenProperties
    <2>5. PICK i \in ActiveAt(vals) :
            p[k1] = [master |-> vals[i].addr, active |-> vals[i].online, weight |-> vals[i].weight]
        BY <2>1, <2>4, ProposersAre
    <2> QED BY <2>2, <2>5
<1>6. PICK j \in ActiveAt(t) : t[j].addr = s
    BY <1>2, <1>5, TransactionsKeep
<1>7. Proposes(staker', s)
    BY <1>4, <1>6 DEF Proposes, ActiveAt
<1>8. Forked(number')
    BY <1>1 DEF Forked
<1>9. recorded' = CreateSingleValidatorStats(staker, staker')
    BY <1>1, <1>4, <1>7, <1>8, Written
<1> QED BY <1>1, <1>4, <1>7, <1>9

\* Who is active of the authority nodes changes, the nodes do not.
LEMMA AuthorityKeeps ==
    ASSUME NEW nodes, AuthorityListed(nodes), NEW after \in AuthorityAfter(nodes)
    PROVE  AuthorityListed(after)
<1>1. CASE after = nodes
    BY <1>1
<1>2. ASSUME NEW e \in DOMAIN nodes, after = [nodes EXCEPT ![e].active = ~nodes[e].active],
             \E i \in DOMAIN after : after[i].active
      PROVE  AuthorityListed(after)
    <2>1. Len(nodes) \in Nat /\ DOMAIN nodes = 1 .. Len(nodes) /\ nodes \in Seq(AuthorityNode)
        BY LenProperties DEF AuthorityListed
    <2>2. \A i \in DOMAIN nodes : nodes[i] \in AuthorityNode
        BY <2>1, ElementOfSeq
    <2>3. [nodes[e] EXCEPT !.active = ~nodes[e].active] \in AuthorityNode
        BY <2>2 DEF AuthorityNode
    <2>4. [nodes[e] EXCEPT !.active = ~nodes[e].active].master = nodes[e].master
        BY <2>2 DEF AuthorityNode
    <2>5. PICK x : x = [nodes[e] EXCEPT !.active = ~nodes[e].active]
        OBVIOUS
    <2>6. after = [nodes EXCEPT ![e] = x]
        BY <1>2, <2>5, Zenon
    <2>7. after \in Seq(AuthorityNode) /\ Len(after) = Len(nodes)
        BY <2>1, <2>3, <2>5, <2>6, ExceptSeq
    <2>8. DOMAIN after = DOMAIN nodes /\ \A i \in DOMAIN nodes : after[i].master = nodes[i].master
        BY <2>4, <2>5, <2>6
    <2> QED BY <1>2, <2>7, <2>8 DEF AuthorityListed
<1>3. \/ after = nodes
      \/ \E e \in DOMAIN nodes :
            /\ after = [nodes EXCEPT ![e].active = ~nodes[e].active]
            /\ \E i \in DOMAIN after : after[i].active
    BY Zenon DEF AuthorityAfter
<1> QED BY <1>1, <1>2, <1>3

LEMMA StatsInit == Init => StatsInv
<1> SUFFICES ASSUME Init PROVE StatsInv
    OBVIOUS
<1>1. number \in Nat /\ number + 1 >= ForkBlock /\ number < ForkBlock + MaxBlock
    BY HayabusaAssumption DEF Init
<1>2. WellFormed(parentStaker) /\ WellFormed(staker)
    <2>1. <<>> \in Seq(Validation) /\ DOMAIN <<>> = {}
        BY EmptySeq
    <2> QED BY <2>1 DEF Init, WellFormed
<1>3. ASSUME NEW a \in Validators PROVE recorded[a] = {Entry(v) : v \in At(staker, a)}
    <2>1. At(staker, a) = {}
        BY DEF Init, At, ToSet
    <2> QED BY <2>1 DEF Init
<1>4. ~Active(number)
    BY HayabusaAssumption DEF Init, Active, HayabusaActiveBlock
<1>5. AuthorityListed(parentAuthNodes)
    <2>1. /\ AuthorityNodes \in Seq(ToSet(AuthorityNodes)) /\ AuthorityNodes # <<>>
          /\ Len(AuthorityNodes) \in Nat \ {0} /\ DOMAIN AuthorityNodes = 1 .. Len(AuthorityNodes)
        BY AuthorityAssumption, LenProperties, EmptySeq
    <2>2. \A i \in DOMAIN AuthorityNodes : AuthorityNodes[i] \in ToSet(AuthorityNodes)
        BY DEF ToSet
    <2>3. parentAuthNodes = [i \in 1 .. Len(AuthorityNodes) |->
                                [master |-> AuthorityNodes[i], active |-> TRUE]]
        BY <2>1 DEF Init
    <2>4. parentAuthNodes \in [1 .. Len(AuthorityNodes) -> AuthorityNode]
        BY <2>1, <2>2, <2>3 DEF AuthorityNode
    <2>5. /\ parentAuthNodes \in Seq(AuthorityNode)
          /\ Len(parentAuthNodes) = Len(AuthorityNodes)
          /\ DOMAIN parentAuthNodes = 1 .. Len(AuthorityNodes)
        BY <2>1, <2>4, SeqDef, LenProperties
    <2>6. 1 \in DOMAIN parentAuthNodes /\ parentAuthNodes[1].active
        BY <2>1, <2>3, <2>5
    <2> QED BY <2>3, <2>5, <2>6 DEF AuthorityListed
<1> QED BY <1>1, <1>2, <1>3, <1>4, <1>5 DEF StatsInv, Init

LEMMA StatsStep == StatsInv /\ [Next]_vars => StatsInv'
<1> SUFFICES ASSUME StatsInv, [Next]_vars PROVE StatsInv'
    OBVIOUS
<1>1. number \in Nat /\ ForkBlock \in Nat /\ MaxBlock \in Nat /\ HayabusaTP \in Nat
    BY HayabusaAssumption DEF StatsInv
<1>2. ASSUME NEW vals, WellFormed(vals), SignedBlock(vals), number < MaxBlock, Active(number + 1)
      PROVE  StatsInv'
    <2>1. /\ number' = number + 1 /\ parentStaker' = staker /\ WellFormed(staker')
          /\ signer' \in Validators /\ Proposes(staker', signer')
          /\ \E k \in 1 .. MaxGap : gap' = k * BlockInterval
          /\ recorded' = CreateSingleValidatorStats(staker, staker')
        BY <1>1, <1>2, SignedBlockStep DEF StatsInv
    <2>2. ASSUME NEW a \in Validators PROVE recorded'[a] = {Entry(v) : v \in At(staker', a)}
        BY <2>1, StatsAddUp DEF StatsInv
    <2>3. Active(number')
        BY <1>2, <2>1
    <2>4. number' \in Nat /\ number' + 1 >= ForkBlock /\ number' < ForkBlock + MaxBlock
        BY <1>1, <1>2, <2>1, HayabusaAssumption DEF StatsInv
    <2> QED BY <2>1, <2>2, <2>3, <2>4 DEF StatsInv
<1>3. CASE TransitionBlock
    <2>1. /\ number < MaxBlock /\ ~Active(number + 1)
          /\ number' = number + 1 /\ parentStaker' = staker /\ staker' \in Transactions(staker)
          /\ parentAuthNodes' = authNodes /\ authNodes' \in AuthorityAfter(authNodes)
          /\ PosWrite(number', staker, staker')
        BY <1>3 DEF TransitionBlock
    <2>2. WellFormed(staker')
        BY <2>1, TransactionsKeep DEF StatsInv
    <2>3. ~Active(number) /\ ~Active(number') /\ Forked(number')
        BY <1>1, <2>1 DEF StatsInv, Active, Forked, HayabusaActiveBlock
    <2>4. recorded' = CreateSingleValidatorStats(staker, staker')
        BY <2>1, <2>2, <2>3, Written
    <2>5. ASSUME NEW a \in Validators PROVE recorded'[a] = {Entry(v) : v \in At(staker', a)}
        BY <2>2, <2>4, StatsAddUp DEF StatsInv
    <2>6. AuthorityListed(authNodes')
        BY <2>1, <2>3, AuthorityKeeps DEF StatsInv
    <2>7. number' \in Nat /\ number' + 1 >= ForkBlock /\ number' < ForkBlock + MaxBlock
        BY <1>1, <2>1, HayabusaAssumption DEF StatsInv
    <2> QED BY <2>1, <2>2, <2>3, <2>5, <2>6, <2>7 DEF StatsInv
<1>4. CASE Block
    BY <1>2, <1>4 DEF Block, StatsInv
<1>5. CASE EpochBlock
    <2>1. PICK vals \in Housekeep(staker) : SignedBlock(vals)
        BY <1>5 DEF EpochBlock
    <2>2. WellFormed(vals)
        BY HousekeepKeeps DEF StatsInv
    <2> QED BY <1>2, <1>5, <2>1, <2>2 DEF EpochBlock
<1>6. CASE UNCHANGED vars
    BY <1>6 DEF vars, StatsInv, Active, At, Proposes
<1> QED BY <1>3, <1>4, <1>5, <1>6 DEF Next, Ended

\* What a reader of the measurement individual_validators puts together is the
\* contract's state after every block, and the lists keep their form.
THEOREM StatsInvariance == Spec => []StatsInv
BY StatsInit, StatsStep, PTL DEF Spec

\* The changes written of each validator add up to what the contract says of it, for
\* any number of validators and any width of the weights.
THEOREM ChangesRecorded == Spec => []ChangesAddUp
<1>1. StatsInv => ChangesAddUp
    BY DEF StatsInv, ChangesAddUp, Entry
<1> QED BY <1>1, StatsInvariance, PTL

-----------------------------------------------------------------------------
(* Slots.                                                                  *)

\* Division rounds down.
LEMMA RoundsDown ==
    ASSUME NEW b \in Nat \ {0}, NEW g \in Nat
    PROVE  g \div b \in Nat /\ (g \div b) * b <= g
OBVIOUS

\* A number without remainder is a multiple.
LEMMA NoRemainder ==
    ASSUME NEW b \in Nat \ {0}, NEW g \in Nat, g % b = 0
    PROVE  g \div b \in Nat /\ g = (g \div b) * b
OBVIOUS

\* k - 1 slots lie between two blocks that are k slots apart.
LEMMA SkippedCount ==
    ASSUME NEW k \in Nat \ {0}
    PROVE  /\ IsFiniteSet(SkippedGaps(k * BlockInterval))
           /\ Cardinality(SkippedGaps(k * BlockInterval)) = k - 1
<1>1. BlockInterval \in Nat \ {0}
    BY IntervalAssumption
<1>2. PICK b \in Nat \ {0} : b = BlockInterval
    BY <1>1
<1>3. PICK S : S = SkippedGaps(k * b)
    OBVIOUS
<1>4. PICK f : f = [i \in 1 .. k - 1 |-> i * b]
    OBVIOUS
<1>5. k * b \in Nat
    OBVIOUS
<1>6. ASSUME NEW i \in 1 .. k - 1 PROVE f[i] \in S
    <2>1. i \in Nat /\ 0 < i /\ i < k
        OBVIOUS
    <2>2. i * b \in Nat /\ (i * b) % b = 0 /\ i * b < k * b
        BY <2>1, Multiples
    <2>3. 0 * b < i * b /\ 0 * b = 0
        BY <2>1, Multiples
    <2>4. i * b \in 1 .. k * b - 1
        BY <1>5, <2>2, <2>3
    <2> QED BY <1>2, <1>3, <1>4, <2>2, <2>4 DEF SkippedGaps
<1>7. ASSUME NEW i \in 1 .. k - 1, NEW j \in 1 .. k - 1, f[i] = f[j] PROVE i = j
    <2>1. i \in Nat /\ j \in Nat /\ i * b = j * b
        BY <1>4, <1>7
    <2>2. (i * b) \div b = i /\ (j * b) \div b = j
        BY <2>1, Multiples
    <2> QED BY <2>1, <2>2
<1>8. ASSUME NEW g \in S PROVE \E i \in 1 .. k - 1 : f[i] = g
    <2>1. g \in 1 .. k * b - 1 /\ g % b = 0
        BY <1>2, <1>3 DEF SkippedGaps
    <2>2. g \in Nat /\ 0 < g /\ g < k * b
        BY <1>5, <2>1
    <2>3. PICK i : i = g \div b
        OBVIOUS
    <2>4. i \in Nat /\ g = i * b
        BY <2>1, <2>2, <2>3, NoRemainder
    <2>5. i # 0
        BY <2>2, <2>4
    <2>6. i < k
        <3>1. SUFFICES ASSUME ~(i < k) PROVE FALSE
            OBVIOUS
        <3>2. k < i \/ k = i
            BY <2>4, <3>1
        <3>3. k * b <= i * b
            BY <2>4, <3>2, Multiples
        <3> QED BY <1>5, <2>2, <2>4, <3>3
    <2>7. i \in 1 .. k - 1
        BY <2>4, <2>5, <2>6
    <2> QED BY <1>4, <2>4, <2>7
<1>9. f \in [1 .. k - 1 -> S]
    BY <1>4, <1>6
<1>10. f \in Bijection(1 .. k - 1, S)
    <2>1. f \in Injection(1 .. k - 1, S)
        BY <1>7, <1>9 DEF Injection, IsInjective
    <2>2. f \in Surjection(1 .. k - 1, S)
        BY <1>8, <1>9 DEF Surjection
    <2> QED BY <2>1, <2>2 DEF Bijection
<1>11. ExistsBijection(1 .. k - 1, S) /\ k - 1 \in Nat
    BY <1>10 DEF ExistsBijection
<1>12. IsFiniteSet(S) /\ Cardinality(S) = k - 1
    BY <1>11, FS_NatBijection, FS_CountingElements
<1> QED BY <1>2, <1>3, <1>12

\* As many pairs as numbers.
LEMMA AsManyPairs ==
    ASSUME NEW S, IsFiniteSet(S), NEW x
    PROVE  Cardinality({<<g, x[g]>> : g \in S}) = Cardinality(S)
<1>1. PICK T : T = {<<g, x[g]>> : g \in S}
    OBVIOUS
<1>2. PICK f : f = [g \in S |-> <<g, x[g]>>]
    OBVIOUS
<1>3. f \in [S -> T]
    BY <1>1, <1>2
<1>4. f \in Injection(S, T)
    BY <1>2, <1>3 DEF Injection, IsInjective
<1>5. f \in Surjection(S, T)
    BY <1>1, <1>2, <1>3 DEF Surjection
<1>6. ExistsBijection(S, T)
    BY <1>4, <1>5 DEF Bijection, ExistsBijection
<1> QED BY <1>1, <1>6, FS_Bijection

\* Every slot skipped before a block is charged to one proposer, as many as the
\* handler "blocks" counts from the timestamps, for every interval and gap.
THEOREM SlotsCharged == Spec => []SkippedSlotsCharged
<1>1. StatsInv => SkippedSlotsCharged
    <2> SUFFICES ASSUME StatsInv, Active(number)
                 PROVE  \E p \in CreateSlotPoints : Cardinality(p.missed) = RecentMissedSlots(gap)
        BY DEF SkippedSlotsCharged
    <2>1. PICK k \in 1 .. MaxGap : gap = k * BlockInterval
        BY DEF StatsInv
    <2>2. k \in Nat \ {0}
        BY HayabusaAssumption
    <2>3. \E i \in DOMAIN CreateSlotsProposers(staker) :
            CreateSlotsProposers(staker)[i].master = signer
        BY SomeoneProposes DEF StatsInv
    <2>4. PICK x : x = [g \in SkippedGaps(gap) |->
                        ScheduledAt(SchedulerSequence(signer, CreateSlotsProposers(staker),
                                                      number - 1, Seed(number)), g)]
        OBVIOUS
    <2>5. PICK offline : MissedSlots(number, staker, signer, gap) =
            {[online |-> {<<g, x[g]>> : g \in SkippedGaps(gap)}, offline |-> offline]}
        <3>1. {<<g, ScheduledAt(SchedulerSequence(signer, CreateSlotsProposers(staker),
                                                  number - 1, Seed(number)), g)>> :
                    g \in SkippedGaps(gap)}
              = {<<g, x[g]>> : g \in SkippedGaps(gap)}
            BY <2>4
        <3> QED BY <2>3, <3>1, Zenon DEF MissedSlots
    <2>6. PICK m : m = [online |-> {<<g, x[g]>> : g \in SkippedGaps(gap)}, offline |-> offline]
        OBVIOUS
    <2>7. PICK p \in CreateSlotPoints : p.missed = m.online
        <3>1. PICK p : p = [missed |-> m.online, offline_missed |-> m.offline,
                            future |-> FutureSlots(number, staker)]
            OBVIOUS
        <3>2. p \in CreateSlotPoints
            BY <2>5, <2>6, <3>1, Zenon DEF CreateSlotPoints
        <3> QED BY <3>1, <3>2
    <2>8. IsFiniteSet(SkippedGaps(gap)) /\ Cardinality(SkippedGaps(gap)) = k - 1
        BY <2>1, <2>2, SkippedCount
    <2>9. Cardinality(p.missed) = k - 1
        BY <2>6, <2>7, <2>8, AsManyPairs
    <2>10. RecentMissedSlots(gap) = k - 1
        <3>1. (k * BlockInterval + BlockInterval - 1) \div BlockInterval = k
            BY <2>2, IntervalAssumption, Multiples
        <3> QED BY <2>1, <3>1 DEF RecentMissedSlots
    <2> QED BY <2>7, <2>9, <2>10
<1> QED BY <1>1, StatsInvariance, PTL

-----------------------------------------------------------------------------
(* Seeds.                                                                  *)

\* Without a boundary between them two numbers are in the same interval.
LEMMA SameInterval ==
    ASSUME NEW b \in Nat \ {0}, NEW n \in Nat, (n + 1) % b # 0
    PROVE  (n + 1) \div b = n \div b
OBVIOUS

\* A boundary of the longer interval is one of the shorter.
LEMMA BoundaryOfBoth ==
    ASSUME NEW e \in Nat \ {0}, NEW b \in Nat \ {0}, b % e = 0, NEW m \in Nat, m % b = 0
    PROVE  m % e = 0
<1>1. PICK q \in Nat : m = q * b
    BY NoRemainder
<1>2. PICK r \in Nat : b = r * e
    BY NoRemainder
<1>3. m = (q * r) * e /\ q * r \in Nat
    BY <1>1, <1>2
<1> QED BY <1>3, Multiples

\* What FetchBlock takes for the seed of the next block is its seed.
LEMMA SeedOfNext ==
    ASSUME NEW n \in Nat
    PROVE  FutureSeed(n) = Seed(n + 1)
<1>1. SeederInterval \in Nat \ {0}
    BY IntervalAssumption
<1>2. CASE (n + 1) % SeederInterval = 0
    BY <1>2 DEF FutureSeed
<1>3. CASE (n + 1) % SeederInterval # 0
    <2>1. (n + 1) \div SeederInterval = n \div SeederInterval
        BY <1>1, <1>3, SameInterval
    <2> QED BY <1>3, <2>1 DEF FutureSeed, Seed
<1> QED BY <1>2, <1>3

\* The seed does not change within an epoch.
LEMMA SeedWithinEpoch ==
    ASSUME NEW n \in Nat, (n + 1) % EpochLength # 0
    PROVE  Seed(n + 1) = Seed(n) /\ FutureSeed(n) = Seed(n)
<1>1. /\ SeederInterval \in Nat \ {0} /\ EpochLength \in Nat \ {0}
      /\ SeederInterval % EpochLength = 0
    BY IntervalAssumption
<1>2. (n + 1) % SeederInterval # 0
    <2>1. n + 1 \in Nat
        OBVIOUS
    <2> QED BY <1>1, <2>1, BoundaryOfBoth, Zenon
<1>3. (n + 1) \div SeederInterval = n \div SeederInterval
    BY <1>1, <1>2, SameInterval
<1> QED BY <1>2, <1>3 DEF FutureSeed, Seed

\* A seed comes from an earlier block.
LEMMA SeedBound ==
    ASSUME NEW n \in Nat
    PROVE  Seed(n) \in 0 .. n
<1>1. SeederInterval \in Nat \ {0}
    BY IntervalAssumption
<1>2. PICK b \in Nat \ {0} : b = SeederInterval
    BY <1>1
<1>3. PICK q : q = n \div b
    OBVIOUS
<1>4. q \in Nat /\ q * b <= n
    BY <1>3, RoundsDown
<1>5. ASSUME ~(q <= 1) PROVE (q - 1) * b \in 0 .. n
    <2>1. (q - 1) * b = q * b - b /\ q - 1 \in Nat
        BY <1>4, <1>5
    <2>2. (q - 1) * b \in Nat /\ q * b \in Nat
        BY <1>4, <2>1, Multiples
    <2> QED BY <1>4, <2>1, <2>2
<1> QED BY <1>2, <1>3, <1>4, <1>5 DEF Seed

-----------------------------------------------------------------------------
(* The authority nodes in order.                                           *)

HashNumbers == -1 .. ForkBlock + MaxBlock

\* Hashes order the nodes of a list.
LEMMA HashOrder ==
    ASSUME NEW nodes \in Seq(AuthorityNode), NEW seed \in HashNumbers, NEW n \in HashNumbers
    PROVE  StrictOrder(DOMAIN nodes, ByHash(nodes, seed, n))
<1>1. DOMAIN nodes \subseteq Int /\ \A i \in DOMAIN nodes : nodes[i] \in AuthorityNode
    BY LenProperties, ElementOfSeq
<1>2. PICK h : h = [i \in DOMAIN nodes |-> Hash(seed, n, nodes[i].master)]
    OBVIOUS
<1>3. \A i \in DOMAIN nodes : h[i] \in Nat
    BY <1>1, <1>2, AuthorityAssumption DEF AuthorityNode, HashNumbers
<1>4. \A i, j \in DOMAIN nodes :
        <<i, j>> \in ByHash(nodes, seed, n) <=> h[i] < h[j] \/ (h[i] = h[j] /\ i < j)
    <2> TAKE i, j \in DOMAIN nodes
    <2>1. PICK e : e = <<i, j>>
        OBVIOUS
    <2>2. e \in (DOMAIN nodes) \X (DOMAIN nodes) /\ e[1] = i /\ e[2] = j
        BY <2>1
    <2>3. e \in ByHash(nodes, seed, n) <=>
            \/ Hash(seed, n, nodes[e[1]].master) < Hash(seed, n, nodes[e[2]].master)
            \/ /\ Hash(seed, n, nodes[e[1]].master) = Hash(seed, n, nodes[e[2]].master)
               /\ e[1] < e[2]
        BY <2>2, Zenon DEF ByHash
    <2>4. h[i] = Hash(seed, n, nodes[i].master) /\ h[j] = Hash(seed, n, nodes[j].master)
        BY <1>2
    <2> QED BY <2>1, <2>2, <2>3, <2>4, Zenon
<1>5. PICK R : R = ByHash(nodes, seed, n)
    OBVIOUS
<1>6. \A i \in DOMAIN nodes : <<i, i>> \notin R
    BY <1>1, <1>3, <1>4, <1>5
<1>7. \A i, j \in DOMAIN nodes : i # j => <<i, j>> \in R \/ <<j, i>> \in R
    BY <1>1, <1>3, <1>4, <1>5
<1>8. ASSUME NEW i \in DOMAIN nodes, NEW j \in DOMAIN nodes, NEW k \in DOMAIN nodes,
             <<i, j>> \in R, <<j, k>> \in R
      PROVE  <<i, k>> \in R
    <2>1. (h[i] < h[j] \/ (h[i] = h[j] /\ i < j)) /\ (h[j] < h[k] \/ (h[j] = h[k] /\ j < k))
        BY <1>4, <1>5, <1>8, Zenon
    <2>2. h[i] < h[k] \/ (h[i] = h[k] /\ i < k)
        BY <1>1, <1>3, <2>1
    <2> QED BY <1>4, <1>5, <2>2, Zenon
<1> QED BY <1>5, <1>6, <1>7, <1>8 DEF StrictOrder

\* The shuffled nodes are the nodes, each once, in the order of the hashes.
LEMMA ShuffleAuthority ==
    ASSUME NEW nodes \in Seq(AuthorityNode), NEW seed \in HashNumbers, NEW n \in HashNumbers,
           NEW o, o = InOrder(DOMAIN nodes, ByHash(nodes, seed, n))
    PROVE  /\ ShuffleAuthorityNodes(nodes, seed, n) \in Seq(AuthorityNode)
           /\ Len(ShuffleAuthorityNodes(nodes, seed, n)) = Len(nodes)
           /\ DOMAIN o = 1 .. Len(nodes)
           /\ o = [k \in 1 .. Len(nodes) |-> o[k]]
           /\ \A k \in 1 .. Len(nodes) :
                o[k] \in DOMAIN nodes /\ ShuffleAuthorityNodes(nodes, seed, n)[k] = nodes[o[k]]
           /\ \A i \in DOMAIN nodes : \E k \in 1 .. Len(nodes) : o[k] = i
           /\ \A k, l \in 1 .. Len(nodes) : k < l => <<o[k], o[l]>> \in ByHash(nodes, seed, n)
<1>1. PICK N : N = Len(nodes)
    OBVIOUS
<1>2. N \in Nat /\ DOMAIN nodes = 1 .. N /\ \A i \in DOMAIN nodes : nodes[i] \in AuthorityNode
    BY <1>1, LenProperties, ElementOfSeq
<1>3. IsFiniteSet(1 .. N) /\ Cardinality(1 .. N) = N
    <2>1. /\ IsFiniteSet(1 .. N)
          /\ Cardinality(1 .. N) = IF 1 > N THEN 0 ELSE N - 1 + 1
        BY <1>2, FS_Interval
    <2> QED BY <1>2, <2>1
<1>4. PICK R : R = ByHash(nodes, seed, n)
    OBVIOUS
<1>5. StrictOrder(1 .. N, R)
    BY <1>2, <1>4, HashOrder
<1> o = InOrder(1 .. N, R)
    BY <1>2, <1>4
<1>6. /\ DOMAIN o = 1 .. N /\ o = [k \in 1 .. N |-> o[k]]
      /\ \A k \in 1 .. N : o[k] \in 1 .. N
      /\ \A i \in 1 .. N : \E k \in 1 .. N : o[k] = i
      /\ \A k, l \in 1 .. N : k < l => <<o[k], o[l]>> \in R
    BY <1>3, <1>5, InOrderList, Zenon
<1>7. PICK f : f = ShuffleAuthorityNodes(nodes, seed, n)
    OBVIOUS
<1>8. f = [k \in 1 .. N |-> nodes[o[k]]]
    BY <1>6, <1>7 DEF ShuffleAuthorityNodes
<1>9. f \in [1 .. N -> AuthorityNode]
    BY <1>2, <1>6, <1>8
<1>10. f \in Seq(AuthorityNode) /\ Len(f) = N
    BY <1>2, <1>9, SeqDef, LenProperties
<1>11. \A k \in 1 .. N : f[k] = nodes[o[k]]
    BY <1>8
<1> QED BY <1>1, <1>2, <1>4, <1>6, <1>7, <1>10, <1>11

\* Authority nodes on the list: some are active, and they make up a list.
LEMMA AuthorityNonEmpty ==
    ASSUME NEW nodes, AuthorityListed(nodes)
    PROVE  nodes \in Seq(AuthorityNode) /\ Len(nodes) \in Nat \ {0} /\ GetActiveNodes(nodes) # <<>>
<1>1. nodes \in Seq(AuthorityNode) /\ Len(nodes) \in Nat /\ DOMAIN nodes = 1 .. Len(nodes)
    BY LenProperties DEF AuthorityListed
<1>2. PICK i \in DOMAIN nodes : nodes[i].active
    BY DEF AuthorityListed
<1>3. PICK I : I = {j \in DOMAIN nodes : nodes[j].active}
    OBVIOUS
<1>4. I \in SUBSET DOMAIN nodes /\ i \in I
    BY <1>2, <1>3
<1>5. /\ Cardinality(I) \in Nat /\ Sublist(nodes, I) \in Seq(AuthorityNode)
      /\ Len(Sublist(nodes, I)) = Cardinality(I)
      /\ \E k \in 1 .. Cardinality(I) : InOrder(I, Ascending(I))[k] = i
    BY <1>1, <1>4, SublistProperties
<1>6. Sublist(nodes, I) # <<>>
    BY <1>5, EmptySeq
<1> QED BY <1>1, <1>2, <1>3, <1>6 DEF GetActiveNodes

-----------------------------------------------------------------------------
(* Predictions.                                                            *)

\* The only steps are to the next block.
LEMMA NextBlock ==
    ASSUME StatsInv, [Next]_vars, number' # number
    PROVE  /\ number' = number + 1 /\ parentStaker' = staker
           /\ ~Active(number + 1) => parentAuthNodes' = authNodes
           /\ Active(number + 1) => \E vals : SignedBlock(vals)
           /\ Active(number + 1) /\ ~IsEpochBlock(number + 1) => SignedBlock(staker)
<1>1. ASSUME NEW vals, SignedBlock(vals) PROVE number' = number + 1 /\ parentStaker' = staker
    BY <1>1, Zenon DEF SignedBlock
<1>2. CASE TransitionBlock
    BY <1>2 DEF TransitionBlock
<1>3. CASE Block
    BY <1>1, <1>3 DEF Block
<1>4. CASE EpochBlock
    <2>1. PICK vals \in Housekeep(staker) : SignedBlock(vals)
        BY <1>4 DEF EpochBlock
    <2> QED BY <1>1, <1>4, <2>1 DEF EpochBlock
<1> QED BY <1>2, <1>3, <1>4 DEF Next, Ended, vars

\* The first of a list of proposers does not depend on how many are asked for.
LEMMA FirstOfProposers ==
    ASSUME NEW nodes \in Seq(PosNode), NEW seed, NEW n, NEW c \in Nat \ {0}
    PROVE  /\ NextBlockProposersPoS(nodes, seed, n, c) = <<>> <=> Eligible(nodes) = {}
           /\ Eligible(nodes) # {} =>
                NextBlockProposersPoS(nodes, seed, n, c)[1] = ShufflePosNodes(nodes, seed, n)[1]
<1>1. PICK f : f = ShufflePosNodes(nodes, seed, n)
    OBVIOUS
<1>2. PICK T : f \in Seq(T)
    BY <1>1, ShuffleIsList
<1>3. f = <<>> <=> Eligible(nodes) = {}
    BY <1>1, ShuffleIsList
<1>4. /\ UpTo(f, c) = <<>> <=> f = <<>>
      /\ \A i \in 1 .. AtMost(Len(f), c) : UpTo(f, c)[i] = f[i]
    <2>1. c \in Nat /\ c > 0
        OBVIOUS
    <2>2. UpTo(f, c) = <<>> <=> f = <<>>
        BY <1>2, <2>1, UpToProperties, Zenon
    <2>3. \A i \in 1 .. AtMost(Len(f), c) : UpTo(f, c)[i] = f[i]
        BY <1>2, <2>1, UpToProperties, Zenon
    <2> QED BY <2>2, <2>3
<1>5. f # <<>> => 1 \in 1 .. AtMost(Len(f), c)
    BY <1>2, EmptySeq DEF AtMost
<1> QED BY <1>1, <1>3, <1>4, <1>5 DEF NextBlockProposersPoS

\* Under proof of stake "slots" expects the first it predicted.
LEMMA ExpectedUnderPos ==
    ASSUME StatsInv, StatsInv', [Next]_vars, number' # number, Active(number)
    PROVE  SlotsPoint(number', parentStaker', staker', parentAuthNodes', authNodes').expected
            = IF SlotsWrite.future = <<>> THEN NoAddress ELSE SlotsWrite.future[1]
<1>1. number \in Nat /\ number' = number + 1 /\ parentStaker' = staker
    BY NextBlock DEF StatsInv
<1>2. Active(number')
    BY <1>1, HayabusaAssumption DEF Active, HayabusaActiveBlock
<1>3. WellFormed(staker) /\ WellFormed(staker')
    BY DEF StatsInv
<1>4. Proposes(staker, signer) /\ Proposes(staker', signer')
    BY <1>2 DEF StatsInv
<1>5. PICK nodes : nodes = CreateSlotsProposers(staker)
    OBVIOUS
<1>6. /\ nodes \in Seq(PosNode) /\ Eligible(nodes) # {} /\ nodes # <<>>
      /\ ConvertStakerToPosNodes(staker) = nodes
    BY <1>3, <1>4, <1>5, ProposersAre, SomeoneProposes, SameNodes
<1>7. ConvertStakerToPosNodes(staker') # <<>>
    BY <1>3, <1>4, SomeoneProposes, SameNodes
<1>8. PICK first : first = ShufflePosNodes(nodes, Seed(number + 1), number)[1]
    OBVIOUS
<1>9. SlotsPoint(number', parentStaker', staker', parentAuthNodes', authNodes').expected = first
    <2>1. number' - 1 = number
        BY <1>1
    <2>2. /\ NextBlockProposersPoS(nodes, Seed(number'), number, 1) # <<>>
          /\ NextBlockProposersPoS(nodes, Seed(number'), number, 1)[1] = first
        BY <1>1, <1>6, <1>8, FirstOfProposers
    <2>3. SlotsPoint(number', parentStaker', staker', parentAuthNodes', authNodes')
            = CalculatePosProposers(number', staker, staker')
        BY <1>1, <1>2 DEF SlotsPoint
    <2>4. PICK x : x = NextBlockProposersPoS(nodes, Seed(number'), number, 1)
        OBVIOUS
    <2>5. CalculatePosProposers(number', staker, staker').expected
            = IF x = <<>> THEN NoAddress ELSE x[1]
        BY <1>6, <1>7, <2>1, <2>4 DEF CalculatePosProposers
    <2> QED BY <2>2, <2>3, <2>4, <2>5
<1>10. SlotsWrite.future # <<>> /\ SlotsWrite.future[1] = first
    <2>1. FutureSeed(number) = Seed(number + 1)
        BY <1>1, SeedOfNext
    <2>2. PICK x : x = NextBlockProposersPoS(nodes, FutureSeed(number), number, FutureProposerCount)
        OBVIOUS
    <2>3. FutureProposerCount \in Nat \ {0}
        BY DEF FutureProposerCount
    <2>4. x # <<>> /\ x[1] = first
        BY <1>6, <1>8, <2>1, <2>2, <2>3, FirstOfProposers
    <2>5. SlotsWrite.future = x
        BY <1>6, <2>2 DEF SlotsWrite, SlotsPoint, CalculatePosProposers
    <2> QED BY <2>4, <2>5
<1> QED BY <1>9, <1>10

\* The numbers of blocks and seeds are among those that are hashed.
LEMMA HashedNumbers ==
    ASSUME StatsInv
    PROVE  /\ number \in HashNumbers /\ Seed(number + 1) \in HashNumbers
           /\ number - 1 \in HashNumbers /\ Seed(number) \in HashNumbers
<1>1. number \in Nat /\ number + 1 >= ForkBlock /\ number < ForkBlock + MaxBlock
    BY DEF StatsInv
<1>2. Seed(number) \in 0 .. number /\ Seed(number + 1) \in 0 .. number + 1
    BY <1>1, SeedBound
<1> QED BY <1>1, <1>2, HayabusaAssumption DEF HashNumbers

\* The first of the authority nodes does not depend on how many are asked for.
LEMMA FirstOfAuthority ==
    ASSUME NEW nodes, AuthorityListed(nodes), NEW seed \in HashNumbers, NEW n \in HashNumbers
    PROVE  /\ NextBlockProposersPoA(nodes, seed, n, FutureProposerCount) \in Seq(AuthorityNode)
           /\ Len(NextBlockProposersPoA(nodes, seed, n, FutureProposerCount))
                = AtMost(Len(nodes), FutureProposerCount)
           /\ AtMost(Len(nodes), FutureProposerCount) \in Nat \ {0}
           /\ \A i \in 1 .. AtMost(Len(nodes), FutureProposerCount) :
                NextBlockProposersPoA(nodes, seed, n, FutureProposerCount)[i]
                    = ShuffleAuthorityNodes(nodes, seed, n)[i]
<1>1. PICK f : f = ShuffleAuthorityNodes(nodes, seed, n)
    OBVIOUS
<1>2. nodes \in Seq(AuthorityNode) /\ Len(nodes) \in Nat \ {0}
    BY AuthorityNonEmpty
<1>3. f \in Seq(AuthorityNode) /\ Len(f) = Len(nodes)
    BY <1>1, <1>2, ShuffleAuthority
<1>4. PICK c \in Nat \ {0} : c = FutureProposerCount
    BY DEF FutureProposerCount
<1>5. /\ UpTo(f, c) \in Seq(AuthorityNode) /\ Len(UpTo(f, c)) = AtMost(Len(f), c)
      /\ \A i \in 1 .. AtMost(Len(f), c) : UpTo(f, c)[i] = f[i]
    BY <1>3, UpToProperties
<1>6. AtMost(Len(nodes), c) \in Nat \ {0}
    BY <1>2 DEF AtMost
<1> QED BY <1>1, <1>3, <1>4, <1>5, <1>6 DEF NextBlockProposersPoA

\* So does it under proof of authority.
LEMMA ExpectedUnderPoa ==
    ASSUME StatsInv, StatsInv', [Next]_vars, number' # number, ~Active(number + 1)
    PROVE  SlotsPoint(number', parentStaker', staker', parentAuthNodes', authNodes').expected
            = IF SlotsWrite.future = <<>> THEN NoAddress ELSE SlotsWrite.future[1]
<1>1. number \in Nat /\ number' = number + 1 /\ parentAuthNodes' = authNodes
    BY NextBlock DEF StatsInv
<1>2. ~Active(number) /\ ~Active(number')
    BY <1>1, HayabusaAssumption DEF Active, HayabusaActiveBlock
<1>3. AuthorityListed(parentAuthNodes) /\ AuthorityListed(authNodes)
    BY <1>2 DEF StatsInv
<1>4. number \in HashNumbers /\ Seed(number + 1) \in HashNumbers
    BY HashedNumbers
<1>5. FutureSeed(number) = Seed(number + 1) /\ number' - 1 = number
    BY <1>1, SeedOfNext
<1>6. PICK x : x = NextBlockProposersPoA(authNodes, Seed(number + 1), number, FutureProposerCount)
    OBVIOUS
<1>7. x \in Seq(AuthorityNode) /\ Len(x) \in Nat \ {0}
    BY <1>3, <1>4, <1>6, FirstOfAuthority
<1>8. DOMAIN x = 1 .. Len(x) /\ 1 \in DOMAIN x
    BY <1>7, LenProperties
<1>9. GetActiveNodes(authNodes) # <<>> /\ GetActiveNodes(parentAuthNodes) # <<>>
    BY <1>3, AuthorityNonEmpty
<1>10. SlotsPoint(number', parentStaker', staker', parentAuthNodes', authNodes').expected
        = x[1].master
    <2>1. SlotsPoint(number', parentStaker', staker', parentAuthNodes', authNodes')
            = CalculatePoaProposers(number', authNodes, authNodes')
        BY <1>1, <1>2 DEF SlotsPoint
    <2>2. Seed(number') = Seed(number + 1)
        BY <1>1
    <2>3. CalculatePoaProposers(number', authNodes, authNodes').expected = x[1].master
        BY <1>5, <1>6, <1>9, <2>2 DEF CalculatePoaProposers
    <2> QED BY <2>1, <2>3
<1>11. SlotsWrite.future = [i \in DOMAIN x |-> x[i].master]
    BY <1>2, <1>5, <1>6, <1>9 DEF SlotsWrite, SlotsPoint, CalculatePoaProposers
<1>12. SlotsWrite.future # <<>> /\ SlotsWrite.future[1] = x[1].master
    BY <1>8, <1>11
<1> QED BY <1>10, <1>12

\* The expected signer is the first that was predicted with the block before, for
\* every seeder interval and every list of proposers, across changes of the seed.
THEOREM PredictedIsExpected == Spec => ExpectedWasPredicted
<1>1. StatsInv /\ StatsInv' /\ [Next]_vars =>
        [LET future == SlotsWrite.future
             next == SlotsPoint(number', parentStaker', staker', parentAuthNodes', authNodes')
         IN  number' > number /\ (Active(number) \/ ~Active(number + 1)) =>
              next.expected = IF future = <<>> THEN NoAddress ELSE future[1]]_vars
    <2> SUFFICES ASSUME StatsInv, StatsInv', [Next]_vars, number' > number,
                        Active(number) \/ ~Active(number + 1)
                 PROVE  SlotsPoint(number', parentStaker', staker', parentAuthNodes',
                                   authNodes').expected
                          = IF SlotsWrite.future = <<>> THEN NoAddress ELSE SlotsWrite.future[1]
        OBVIOUS
    <2>1. number' # number
        BY DEF StatsInv
    <2> QED BY <2>1, ExpectedUnderPos, ExpectedUnderPoa
<1> QED BY <1>1, StatsInvariance, PTL DEF Spec, ExpectedWasPredicted

\* The scheduler has the proposers as they are when the one that asks is online.
LEMMA SameScheduler ==
    ASSUME NEW vals, WellFormed(vals), NEW s, Proposes(vals, s), NEW n, NEW seed
    PROVE  SchedulerSequence(s, CreateSlotsProposers(vals), n, seed)
            = ShufflePosNodes(CreateSlotsProposers(vals), seed, n)
<1>1. PICK p : p = CreateSlotsProposers(vals)
    OBVIOUS
<1>2. p \in Seq(PosNode) /\ Len(p) = Cardinality(ActiveAt(vals))
    BY <1>1, ProposersAre
<1>3. DOMAIN p = 1 .. Len(p) /\ \A k \in DOMAIN p : p[k] \in PosNode
    BY <1>2, LenProperties, ElementOfSeq
<1>4. ASSUME NEW k \in DOMAIN p, p[k].master = s PROVE p[k].active = TRUE
    <2>1. PICK i \in ActiveAt(vals) :
            p[k] = [master |-> vals[i].addr, active |-> vals[i].online, weight |-> vals[i].weight]
        <3>1. k \in 1 .. Cardinality(ActiveAt(vals))
            BY <1>2, <1>3
        <3> QED BY <1>1, <3>1, ProposersAre
    <2>2. PICK j \in ActiveAt(vals) : vals[j].addr = s /\ vals[j].online
        BY DEF Proposes
    <2>3. vals[i].addr = s
        BY <1>4, <2>1
    <2>4. i = j
        BY <2>2, <2>3 DEF WellFormed, ActiveAt
    <2>5. p[k].active
        BY <2>1, <2>2, <2>4
    <2>6. p[k].active \in BOOLEAN
        BY <1>3 DEF PosNode
    <2> QED BY <2>5, <2>6
<1>5. ASSUME NEW k \in DOMAIN p
      PROVE  [p[k] EXCEPT !.active = p[k].active \/ p[k].master = s] = p[k]
    <2>1. (p[k].active \/ p[k].master = s) = p[k].active
        BY <1>3, <1>4 DEF PosNode
    <2>2. p[k] \in [master : Validators, active : BOOLEAN, weight : {0} \cup Weights]
        BY <1>3 DEF PosNode
    <2>3. [p[k] EXCEPT !.active = p[k].active] = p[k]
        BY <2>2
    <2> QED BY <2>1, <2>3, Zenon
<1>6. [k \in DOMAIN p |-> [p[k] EXCEPT !.active = p[k].active \/ p[k].master = s]] = p
    <2>1. p = [k \in DOMAIN p |-> p[k]]
        BY <1>2, <1>3, LenProperties
    <2>2. [k \in DOMAIN p |-> [p[k] EXCEPT !.active = p[k].active \/ p[k].master = s]]
            = [k \in DOMAIN p |-> p[k]]
        BY <1>5, Zenon
    <2> QED BY <2>1, <2>2, Zenon
<1> QED BY <1>1, <1>6, Zenon DEF SchedulerSequence

\* A proposer whose validation is online proposes.
LEMMA OnlineProposes ==
    ASSUME NEW vals, WellFormed(vals), NEW s,
           \E k \in DOMAIN CreateSlotsProposers(vals) : CreateSlotsProposers(vals)[k].master = s,
           NEW v \in At(vals, s), v.online
    PROVE  Proposes(vals, s)
<1>1. PICK p : p = CreateSlotsProposers(vals)
    OBVIOUS
<1>2. PICK k \in DOMAIN p : p[k].master = s
    BY <1>1
<1>3. p \in Seq(PosNode) /\ Len(p) = Cardinality(ActiveAt(vals))
    BY <1>1, ProposersAre
<1>4. k \in 1 .. Cardinality(ActiveAt(vals))
    BY <1>2, <1>3, LenProperties
<1>5. PICK i \in ActiveAt(vals) :
        p[k] = [master |-> vals[i].addr, active |-> vals[i].online, weight |-> vals[i].weight]
    BY <1>1, <1>4, ProposersAre
<1>6. PICK j \in DOMAIN vals : v = vals[j] /\ vals[j].addr = s
    BY DEF At, ToSet
<1>7. i = j
    BY <1>2, <1>5, <1>6 DEF WellFormed, ActiveAt
<1> QED BY <1>2, <1>5, <1>6, <1>7 DEF Proposes

\* A number is a multiple and its remainder.
LEMMA QuotientRemainder ==
    ASSUME NEW n \in Nat, NEW e \in Nat \ {0}
    PROVE  \E q \in Nat, r \in 0 .. e - 1 : n = q * e + r /\ r = n % e
<1>1. n \div e \in Nat
    OBVIOUS
<1>2. n % e \in 0 .. e - 1
    OBVIOUS
<1>3. n = (n \div e) * e + (n % e)
    OBVIOUS
<1> QED BY <1>1, <1>2, <1>3, Zenon

\* A slot can be predicted before the end of the epoch only.
LEMMA PredictableWithinEpoch ==
    ASSUME NEW n \in Nat, NEW e \in Nat \ {0}, e - (n % e) - 1 >= 1
    PROVE  (n + 1) % e # 0
<1>1. SUFFICES ASSUME (n + 1) % e = 0 PROVE FALSE
    OBVIOUS
<1>2. PICK q \in Nat, r \in 0 .. e - 1 : n = q * e + r /\ r = n % e
    BY QuotientRemainder
<1>3. PICK m \in Nat : n + 1 = m * e
    <2>1. n + 1 \in Nat
        OBVIOUS
    <2> QED BY <1>1, <2>1, NoRemainder
<1>4. q * e \in Nat /\ m * e \in Nat /\ (q + 1) * e = q * e + e
    BY Multiples
<1>5. q * e < m * e /\ m * e < (q + 1) * e
    BY <1>2, <1>3, <1>4
<1>6. ~(m < q) /\ m # q /\ m # q + 1 /\ ~(q + 1 < m)
    <2>1. (m < q => m * e < q * e) /\ (q + 1 < m => (q + 1) * e < m * e)
        <3>1. q + 1 \in Nat
            OBVIOUS
        <3> QED BY <3>1, Multiples
    <2> QED BY <1>4, <1>5, <2>1
<1> QED BY <1>6

\* The first slot after a block is that of the first of the sequence.
LEMMA FirstSlot ==
    ASSUME NEW sequence, Len(sequence) \in Nat \ {0}
    PROVE  ScheduledAt(sequence, BlockInterval) = sequence[1]
<1>1. BlockInterval \in Nat \ {0}
    BY IntervalAssumption
<1>2. (BlockInterval - BlockInterval) \div BlockInterval = 0
    <2>1. BlockInterval - BlockInterval = 0
        BY <1>1
    <2>2. \A b \in Nat \ {0} : 0 \div b = 0
        OBVIOUS
    <2> QED BY <1>1, <2>1, <2>2
<1>3. 0 % Len(sequence) = 0
    <2>1. \A b \in Nat \ {0} : 0 % b = 0
        OBVIOUS
    <2> QED BY <2>1
<1>4. 1 + 0 = 1
    OBVIOUS
<1> QED BY <1>2, <1>3, <1>4, Zenon DEF ScheduledAt

\* Something is predicted only if there is a slot to predict.
LEMMA PredictsSome ==
    ASSUME NEW n \in Nat, NEW vals, FutureSlots(n, vals) # <<>>
    PROVE  PredictableSlots(n) >= 1
<1>1. PredictableSlots(n) \in Int
    <2>1. EpochLength \in Nat \ {0}
        BY IntervalAssumption
    <2>2. \A m \in Nat, e \in Nat \ {0} : e - (m % e) - 1 \in Int
        OBVIOUS
    <2> QED BY <2>1, <2>2 DEF PredictableSlots
<1>2. SUFFICES ASSUME 1 .. PredictableSlots(n) = {} PROVE FALSE
    BY <1>1
<1> QED BY <1>2 DEF FutureSlots

\* What FutureSlots predicts first.
LEMMA FirstPredicted ==
    ASSUME NEW n \in Nat, NEW vals, WellFormed(vals),
           NEW nodes, nodes = CreateSlotsProposers(vals), Eligible(nodes) # {},
           PredictableSlots(n) >= 1
    PROVE  FutureSlots(n, vals)[1] = ShufflePosNodes(nodes, Seed(n), n)[1]
<1>1. nodes \in Seq(PosNode)
    BY ProposersAre
<1>2. PICK c \in Nat \ {0} : c = 101
    OBVIOUS
<1>3. NextBlockProposersPoS(nodes, Seed(n), n, c)[1] = ShufflePosNodes(nodes, Seed(n), n)[1]
    BY <1>1, FirstOfProposers
<1>4. 1 \in 1 .. PredictableSlots(n) /\ n + 1 - 1 = n
    <2>1. EpochLength \in Nat \ {0}
        BY IntervalAssumption
    <2>2. \A m \in Nat, e \in Nat \ {0} : e - (m % e) - 1 \in Int
        OBVIOUS
    <2>3. PredictableSlots(n) \in Int
        BY <2>1, <2>2 DEF PredictableSlots
    <2> QED BY <2>3
<1>5. FutureSlots(n, vals)[1] = NextBlockProposersPoS(nodes, Seed(n), n + 1 - 1, 101)[1]
    BY <1>4, Zenon DEF FutureSlots
<1> QED BY <1>2, <1>3, <1>4, <1>5

\* What FutureSlots predicts first is the signer the scheduler accepts in the next slot.
LEMMA PredictedSigns ==
    ASSUME StatsInv, Active(number), PredictableSlots(number) >= 1,
           SignedBlock(staker), number' = number + 1, gap' = BlockInterval,
           Proposes(staker, signer')
    PROVE  signer' = FutureSlots(number, staker)[1]
<1>1. number \in Nat /\ WellFormed(staker)
    BY DEF StatsInv
<1>2. PICK nodes : nodes = CreateSlotsProposers(staker)
    OBVIOUS
<1>3. nodes \in Seq(PosNode) /\ Eligible(nodes) # {}
    BY <1>1, <1>2, ProposersAre, SomeoneProposes
<1>4. EpochLength \in Nat \ {0}
    BY IntervalAssumption
<1>5. (number + 1) % EpochLength # 0
    BY <1>1, <1>4, PredictableWithinEpoch DEF PredictableSlots
<1>6. Seed(number + 1) = Seed(number)
    BY <1>1, <1>5, SeedWithinEpoch
<1>7. ScheduledAt(SchedulerSequence(signer', nodes, number, Seed(number + 1)), gap') = signer'
    BY <1>2, Zenon DEF SignedBlock
<1>8. PICK f : f = ShufflePosNodes(nodes, Seed(number), number)
    OBVIOUS
<1>9. SchedulerSequence(signer', nodes, number, Seed(number + 1)) = f
    <2>1. SchedulerSequence(signer', nodes, number, Seed(number)) = f
        BY <1>1, <1>2, <1>8, SameScheduler
    <2> QED BY <1>6, <2>1
<1>10. Len(f) \in Nat \ {0}
    <2>1. Len(f) = Cardinality(Eligible(nodes)) /\ Len(f) \in Nat
        BY <1>3, <1>8, ShuffleIsList
    <2>2. \E T : f \in Seq(T)
        BY <1>3, <1>8, ShuffleIsList
    <2>3. f # <<>>
        BY <1>3, <1>8, ShuffleIsList
    <2> QED BY <2>1, <2>2, <2>3, EmptySeq
<1>11. signer' = f[1]
    <2>1. ScheduledAt(f, BlockInterval) = signer'
        BY <1>7, <1>9
    <2> QED BY <1>10, <2>1, FirstSlot
<1>12. FutureSlots(number, staker)[1] = f[1]
    BY <1>1, <1>2, <1>3, <1>8, FirstPredicted
<1> QED BY <1>11, <1>12

\* A prediction of the handler "pos" for the next slot comes true, for every length of
\* the epochs and of the seeder intervals, any random source and any validators.
THEOREM PredictionTrue == Spec => PredictionComesTrue
<1>1. StatsInv /\ [Next]_vars =>
        [LET predicted == FutureSlots(number, staker)
         IN  (/\ Active(number) /\ gap' = BlockInterval
              /\ \E v \in At(staker, signer') : v.online
              /\ predicted # <<>>)
             => signer' = predicted[1]]_<<number>>
    <2> SUFFICES ASSUME StatsInv, [Next]_vars, number' # number, Active(number),
                        FutureSlots(number, staker) # <<>>, gap' = BlockInterval,
                        NEW v \in At(staker, signer'), v.online
                 PROVE  signer' = FutureSlots(number, staker)[1]
        BY Zenon
    <2>1. number \in Nat /\ number' = number + 1 /\ WellFormed(staker)
        BY NextBlock DEF StatsInv
    <2>2. Active(number + 1) /\ number + 1 # HayabusaActiveBlock
        BY <2>1, HayabusaAssumption DEF Active, HayabusaActiveBlock
    <2>4. PredictableSlots(number) >= 1
        BY <2>1, PredictsSome
    <2>5. ~IsEpochBlock(number + 1)
        <3>1. (number + 1) % EpochLength # 0
            BY <2>1, <2>4, IntervalAssumption, PredictableWithinEpoch DEF PredictableSlots
        <3> QED BY <2>2, <3>1 DEF IsEpochBlock
    <2>6. SignedBlock(staker)
        BY <2>2, <2>5, NextBlock
    <2>7. Proposes(staker, signer')
        <3>1. \E i \in DOMAIN CreateSlotsProposers(staker) :
                CreateSlotsProposers(staker)[i].master = signer'
            BY <2>6, Zenon DEF SignedBlock
        <3> QED BY <2>1, <3>1, OnlineProposes
    <2> QED BY <2>1, <2>4, <2>6, <2>7, PredictedSigns
<1> QED BY <1>1, StatsInvariance, PTL DEF Spec, PredictionComesTrue

-----------------------------------------------------------------------------
(* The handlers agree.                                                     *)

\* A one-to-one image has as many members.
LEMMA ImageCount ==
    ASSUME NEW S, IsFiniteSet(S), NEW x, \A i, j \in S : x[i] = x[j] => i = j,
           NEW T, T = {x[i] : i \in S}
    PROVE  IsFiniteSet(T) /\ Cardinality(T) = Cardinality(S)
<1>1. PICK f : f = [i \in S |-> x[i]]
    OBVIOUS
<1>2. f \in [S -> T]
    BY <1>1
<1>3. f \in Injection(S, T)
    BY <1>1, <1>2 DEF Injection, IsInjective
<1>4. f \in Surjection(S, T)
    BY <1>1, <1>2 DEF Surjection
<1>5. ExistsBijection(S, T)
    BY <1>3, <1>4 DEF Bijection, ExistsBijection
<1> QED BY <1>5, FS_Bijection

\* "pos" counts records where "slots" counts nodes of a list.
LEMMA SameCounts ==
    ASSUME NEW vals, WellFormed(vals),
           NEW leaderGroup, leaderGroup = {v \in ToSet(vals) : v.status = "active"},
           NEW online, online = {v \in leaderGroup : v.online},
           NEW nodes, nodes = CreateSlotsProposers(vals)
    PROVE  /\ Cardinality(leaderGroup) = Len(nodes)
           /\ IsFiniteSet(online) /\ Cardinality(online) = Cardinality(Eligible(nodes))
<1>1. PICK A : A = ActiveAt(vals)
    OBVIOUS
<1>2. /\ IsFiniteSet(A) /\ Cardinality(A) \in Nat
      /\ nodes \in Seq(PosNode) /\ Len(nodes) = Cardinality(A)
    BY <1>1, ProposerPlaces
<1>3. PICK o :
        /\ \A k \in 1 .. Cardinality(A) :
            /\ o[k] \in A
            /\ nodes[k] = [master |-> vals[o[k]].addr, active |-> vals[o[k]].online,
                           weight |-> vals[o[k]].weight]
        /\ \A i \in A : \E k \in 1 .. Cardinality(A) : o[k] = i
        /\ \A k, l \in 1 .. Cardinality(A) : o[k] = o[l] => k = l
    BY <1>1, ProposerPlaces
<1>4. \A i, j \in A : vals[i] = vals[j] => i = j
    BY <1>1 DEF WellFormed, ActiveAt
<1>5. leaderGroup = {vals[i] : i \in A}
    BY <1>1 DEF ActiveAt, ToSet
<1>6. Cardinality(leaderGroup) = Cardinality(A)
    BY <1>2, <1>4, <1>5, ImageCount
<1>7. DOMAIN nodes = 1 .. Cardinality(A)
    BY <1>2, LenProperties
<1>8. \A i \in A : vals[i].weight # 0
    BY <1>1 DEF WellFormed, ActiveAt
<1>9. Eligible(nodes) = {k \in 1 .. Cardinality(A) : vals[o[k]].online}
    BY <1>3, <1>7, <1>8 DEF Eligible
<1>10. PICK x : x = [k \in 1 .. Cardinality(A) |-> vals[o[k]]]
    OBVIOUS
<1>11. ASSUME NEW k \in Eligible(nodes), NEW l \in Eligible(nodes), x[k] = x[l] PROVE k = l
    <2>1. k \in 1 .. Cardinality(A) /\ l \in 1 .. Cardinality(A)
        BY <1>9
    <2>2. vals[o[k]] = vals[o[l]] /\ o[k] \in A /\ o[l] \in A
        BY <1>3, <1>10, <1>11, <2>1
    <2> QED BY <1>3, <1>4, <2>1, <2>2
<1>12. online = {x[k] : k \in Eligible(nodes)}
    <2>1. ASSUME NEW v \in online PROVE \E k \in Eligible(nodes) : v = x[k]
        <3>1. PICK i \in A : v = vals[i]
            BY <1>5
        <3>2. PICK k \in 1 .. Cardinality(A) : o[k] = i
            BY <1>3
        <3> QED BY <1>9, <1>10, <3>1, <3>2
    <2>2. ASSUME NEW k \in Eligible(nodes) PROVE x[k] \in online
        BY <1>3, <1>5, <1>9, <1>10
    <2> QED BY <2>1, <2>2
<1>13. IsFiniteSet(Eligible(nodes))
    BY <1>2, ShuffleIsList
<1>14. IsFiniteSet(online) /\ Cardinality(online) = Cardinality(Eligible(nodes))
    BY <1>11, <1>12, <1>13, ImageCount
<1> QED BY <1>2, <1>6, <1>14

\* The weight of one that is online is part of the online weight.
LEMMA WeightIsPart ==
    ASSUME NEW online, IsFiniteSet(online), NEW v \in online, v.weight \in 0 .. Width - 1
    PROVE  v.weight <= Cardinality({e \in online \X (1 .. Width) : e[2] <= e[1].weight})
<1>1. PICK w \in 0 .. Width - 1 : w = v.weight
    OBVIOUS
<1>2. Width \in Nat
    BY HayabusaAssumption
<1>3. PICK U : U = {e \in online \X (1 .. Width) : e[2] <= e[1].weight}
    OBVIOUS
<1>4. IsFiniteSet(U)
    <2>1. IsFiniteSet(1 .. Width)
        BY <1>2, FS_Interval
    <2>2. IsFiniteSet(online \X (1 .. Width))
        BY <2>1, FS_Product
    <2> QED BY <1>3, <2>2, FS_Subset
<1>5. PICK x : x = [j \in 1 .. w |-> <<v, j>>]
    OBVIOUS
<1>6. PICK T : T = {x[j] : j \in 1 .. w}
    OBVIOUS
<1>7. IsFiniteSet(1 .. w) /\ Cardinality(1 .. w) = w
    <2>1. /\ IsFiniteSet(1 .. w)
          /\ Cardinality(1 .. w) = IF 1 > w THEN 0 ELSE w - 1 + 1
        <3>1. 1 \in Int /\ w \in Int
            BY <1>2
        <3> QED BY <3>1, FS_Interval
    <2> QED BY <1>2, <2>1
<1>8. \A i, j \in 1 .. w : x[i] = x[j] => i = j
    BY <1>5
<1>9. Cardinality(T) = w
    BY <1>6, <1>7, <1>8, ImageCount
<1>10. T \subseteq U
    <2>1. ASSUME NEW j \in 1 .. w PROVE <<v, j>> \in U
        <3>1. j \in 1 .. Width /\ j <= w
            BY <1>2
        <3> QED BY <1>1, <1>3, <3>1
    <2> QED BY <1>5, <1>6, <2>1
<1>11. Cardinality(T) <= Cardinality(U)
    BY <1>4, <1>10, FS_Subset
<1> QED BY <1>1, <1>3, <1>9, <1>11

\* Under proof of stake "slots" and "pos" agree.
LEMMA AgreeUnderPos ==
    ASSUME StatsInv, NEW p \in CreateSlotPoints
    PROVE  /\ p.future # <<>> => SlotsWrite.future # <<>> /\ p.future[1] = SlotsWrite.future[1]
           /\ SlotsWrite.count = Overview(staker).active_validators
           /\ Len(SlotsWrite.future)
                = AtMost(Overview(staker).online_validators, FutureProposerCount)
           /\ \A w \in Overview(staker).signer_weight : w <= Overview(staker).online_weight
<1>1. Active(number) /\ p.future = FutureSlots(number, staker)
    <2>1. Active(number)
        BY Zenon DEF CreateSlotPoints
    <2>2. CreateSlotPoints = {[missed |-> m.online, offline_missed |-> m.offline,
                               future |-> FutureSlots(number, staker)] :
                                    m \in MissedSlots(number, staker, signer, gap)}
        BY <2>1, Zenon DEF CreateSlotPoints
    <2>3. PICK m : p = [missed |-> m.online, offline_missed |-> m.offline,
                        future |-> FutureSlots(number, staker)]
        BY <2>2, Zenon
    <2> QED BY <2>1, <2>3
<1>2. number \in Nat /\ WellFormed(staker) /\ Proposes(staker, signer)
    BY <1>1 DEF StatsInv
<1>3. PICK nodes : nodes = CreateSlotsProposers(staker)
    OBVIOUS
<1>4. /\ nodes \in Seq(PosNode) /\ Eligible(nodes) # {} /\ nodes # <<>>
      /\ ConvertStakerToPosNodes(staker) = nodes
    BY <1>2, <1>3, ProposersAre, SomeoneProposes, SameNodes
<1>5. PICK future : future = NextBlockProposersPoS(nodes, FutureSeed(number), number,
                                                   FutureProposerCount)
    OBVIOUS
<1>6. SlotsWrite.future = future /\ SlotsWrite.count = Len(nodes)
    BY <1>1, <1>4, <1>5 DEF SlotsWrite, SlotsPoint, CalculatePosProposers
<1>7. PICK c \in Nat \ {0} : c = FutureProposerCount
    BY DEF FutureProposerCount
<1>8. ASSUME p.future # <<>> PROVE future # <<>> /\ p.future[1] = future[1]
    <2>1. PredictableSlots(number) >= 1
        BY <1>1, <1>2, <1>8, PredictsSome
    <2>2. (number + 1) % EpochLength # 0
        BY <1>2, <2>1, IntervalAssumption, PredictableWithinEpoch DEF PredictableSlots
    <2>3. FutureSeed(number) = Seed(number)
        BY <1>2, <2>2, SeedWithinEpoch
    <2>4. p.future[1] = ShufflePosNodes(nodes, Seed(number), number)[1]
        BY <1>1, <1>2, <1>3, <1>4, <2>1, FirstPredicted
    <2>5. future # <<>> /\ future[1] = ShufflePosNodes(nodes, Seed(number), number)[1]
        BY <1>4, <1>5, <1>7, <2>3, FirstOfProposers
    <2> QED BY <2>4, <2>5
<1>9. Len(future) = AtMost(Cardinality(Eligible(nodes)), FutureProposerCount)
    <2>1. PICK f : f = ShufflePosNodes(nodes, FutureSeed(number), number)
        OBVIOUS
    <2>2. Len(f) = Cardinality(Eligible(nodes))
        BY <1>4, <2>1, ShuffleIsList
    <2>3. PICK T : f \in Seq(T)
        BY <1>4, <2>1, ShuffleIsList
    <2>4. Len(UpTo(f, c)) = AtMost(Len(f), c)
        BY <2>3, UpToProperties
    <2> QED BY <1>5, <1>7, <2>1, <2>2, <2>4 DEF NextBlockProposersPoS
<1>10. PICK leaderGroup : leaderGroup = {v \in ToSet(staker) : v.status = "active"}
    OBVIOUS
<1>11. PICK online : online = {v \in leaderGroup : v.online}
    OBVIOUS
<1>12. /\ Cardinality(leaderGroup) = Len(nodes)
       /\ IsFiniteSet(online) /\ Cardinality(online) = Cardinality(Eligible(nodes))
    BY <1>2, <1>3, <1>10, <1>11, SameCounts
<1>13. Overview(staker) =
        [active_validators |-> Cardinality(leaderGroup),
         online_validators |-> Cardinality(online),
         online_weight |-> Cardinality({e \in online \X (1 .. Width) : e[2] <= e[1].weight}),
         signer_weight |-> {v.weight : v \in {u \in leaderGroup : u.addr = signer}}]
    BY <1>10, <1>11, Zenon DEF Overview
<1>14. ASSUME NEW w \in Overview(staker).signer_weight
       PROVE  w <= Overview(staker).online_weight
    <2>1. w \in {v.weight : v \in {u \in leaderGroup : u.addr = signer}}
        BY <1>13
    <2>2. PICK v \in leaderGroup : v.addr = signer /\ w = v.weight
        BY <2>1
    <2>3. PICK i \in DOMAIN staker : v = staker[i] /\ i \in ActiveAt(staker)
        BY <1>10, <2>2 DEF ToSet, ActiveAt
    <2>4. PICK j \in ActiveAt(staker) : staker[j].addr = signer /\ staker[j].online
        BY <1>2 DEF Proposes
    <2>5. i = j
        BY <1>2, <2>2, <2>3, <2>4 DEF WellFormed, ActiveAt
    <2>6. v \in online
        BY <1>11, <2>2, <2>3, <2>4, <2>5
    <2>7. staker[i] \in Validation
        BY <1>2, ElementOfSeq, LenProperties DEF WellFormed
    <2>8. v.weight \in 0 .. Width - 1
        <3>1. v.weight \in {0} \cup Weights
            BY <2>3, <2>7 DEF Validation
        <3>2. Width \in Nat /\ \A x \in Weights : x \in 1 .. Width - 1
            BY HayabusaAssumption
        <3>3. PICK x : x \in Weights
            BY HayabusaAssumption
        <3>4. x \in 1 .. Width - 1
            BY <3>2, <3>3
        <3>5. 0 \in 0 .. Width - 1 /\ \A y \in 1 .. Width - 1 : y \in 0 .. Width - 1
            BY <3>2, <3>4
        <3> QED BY <3>1, <3>2, <3>5
    <2>9. v.weight <= Cardinality({e \in online \X (1 .. Width) : e[2] <= e[1].weight})
        BY <1>12, <2>6, <2>8, WeightIsPart
    <2> QED BY <1>13, <2>2, <2>9
<1>15. /\ Overview(staker).active_validators = Cardinality(leaderGroup)
       /\ Overview(staker).online_validators = Cardinality(online)
    BY <1>13
<1> QED BY <1>6, <1>8, <1>9, <1>12, <1>14, <1>15

\* What it means to be before another by the hashes.
LEMMA HashPair ==
    ASSUME NEW nodes, NEW seed, NEW n, NEW i, NEW j, <<i, j>> \in ByHash(nodes, seed, n)
    PROVE  \/ Hash(seed, n, nodes[i].master) < Hash(seed, n, nodes[j].master)
           \/ Hash(seed, n, nodes[i].master) = Hash(seed, n, nodes[j].master) /\ i < j
<1>1. PICK e : e = <<i, j>> /\ e \in ByHash(nodes, seed, n)
    OBVIOUS
<1>2. e[1] = i /\ e[2] = j
    BY <1>1
<1>3. \/ Hash(seed, n, nodes[e[1]].master) < Hash(seed, n, nodes[e[2]].master)
      \/ Hash(seed, n, nodes[e[1]].master) = Hash(seed, n, nodes[e[2]].master) /\ e[1] < e[2]
    BY <1>1, Zenon DEF ByHash
<1> QED BY <1>2, <1>3, Zenon

LEMMA PairHashed ==
    ASSUME NEW nodes, NEW seed, NEW n, NEW i \in DOMAIN nodes, NEW j \in DOMAIN nodes,
           \/ Hash(seed, n, nodes[i].master) < Hash(seed, n, nodes[j].master)
           \/ Hash(seed, n, nodes[i].master) = Hash(seed, n, nodes[j].master) /\ i < j
    PROVE  <<i, j>> \in ByHash(nodes, seed, n)
<1>1. PICK e : e = <<i, j>>
    OBVIOUS
<1>2. e[1] = i /\ e[2] = j /\ e \in (DOMAIN nodes) \X (DOMAIN nodes)
    BY <1>1
<1>3. \/ Hash(seed, n, nodes[e[1]].master) < Hash(seed, n, nodes[e[2]].master)
      \/ Hash(seed, n, nodes[e[1]].master) = Hash(seed, n, nodes[e[2]].master) /\ e[1] < e[2]
    BY <1>2, Zenon
<1>4. e \in ByHash(nodes, seed, n)
    BY <1>2, <1>3, Zenon DEF ByHash
<1> QED BY <1>1, <1>4

\* An order of a set orders its subsets.
LEMMA SubsetOrdered ==
    ASSUME NEW S, NEW R, StrictOrder(S, R), NEW A \in SUBSET S
    PROVE  StrictOrder(A, R)
BY DEF StrictOrder

\* The members up to a bound are the first ones in ascending order.
LEMMA FirstPlaces ==
    ASSUME NEW J \in SUBSET Int, IsFiniteSet(J), NEW m \in Int,
           NEW L, L = {i \in J : i <= m}
    PROVE  /\ IsFiniteSet(L) /\ Cardinality(L) \in Nat /\ Cardinality(J) \in Nat
           /\ Cardinality(L) <= Cardinality(J)
           /\ \A k \in 1 .. Cardinality(L) :
                InOrder(L, Ascending(L))[k] = InOrder(J, Ascending(J))[k]
<1>1. L \in SUBSET J /\ L \in SUBSET Int
    OBVIOUS
<1>2. IsFiniteSet(L) /\ Cardinality(L) <= Cardinality(J)
    BY <1>1, FS_Subset
<1>3. Cardinality(L) \in Nat /\ Cardinality(J) \in Nat
    BY <1>2, FS_CardinalityType
<1>4. StrictOrder(L, Ascending(L)) /\ StrictOrder(J, Ascending(J))
    BY <1>1, AscendingOrder
<1>5. ASSUME NEW k \in 1 .. Cardinality(L)
      PROVE  InOrder(L, Ascending(L))[k] = InOrder(J, Ascending(J))[k]
    <2>1. PICK x : x = InOrder(L, Ascending(L))[k]
        OBVIOUS
    <2>2. PICK y : y = InOrder(J, Ascending(J))[k]
        OBVIOUS
    <2>3. x \in L /\ Cardinality(Before(L, Ascending(L), x)) = k - 1
        BY <1>2, <1>4, <2>1, InOrderProperties
    <2>4. y \in J /\ Cardinality(Before(J, Ascending(J), y)) = k - 1
        <3>1. k \in 1 .. Cardinality(J)
            BY <1>2, <1>3
        <3> QED BY <1>4, <2>2, <3>1, InOrderProperties
    <2>5. Before(J, Ascending(J), x) = Before(L, Ascending(L), x)
        <3>1. x \in J /\ x \in Int /\ x <= m
            BY <1>1, <2>3
        <3>2. \A i \in J : <<i, x>> \in Ascending(J) <=> i < x
            BY <3>1 DEF Ascending
        <3>3. \A i \in L : <<i, x>> \in Ascending(L) <=> i < x
            BY <2>3 DEF Ascending
        <3>4. \A i \in J : i < x => i \in L
            BY <3>1
        <3> QED BY <1>1, <3>2, <3>3, <3>4 DEF Before
    <2>6. x \in J /\ Cardinality(Before(J, Ascending(J), x))
                        = Cardinality(Before(J, Ascending(J), y))
        BY <1>1, <2>3, <2>4, <2>5
    <2>7. x = y
        BY <1>4, <2>4, <2>6, RankInjective
    <2> QED BY <2>1, <2>2, <2>7
<1> QED BY <1>2, <1>3, <1>5

\* Every node is somewhere in the order.
LEMMA EveryPlace ==
    ASSUME NEW nodes \in Seq(AuthorityNode), NEW seed \in HashNumbers, NEW n \in HashNumbers,
           NEW o, o = InOrder(DOMAIN nodes, ByHash(nodes, seed, n)), NEW i \in DOMAIN nodes
    PROVE  \E k \in 1 .. Len(nodes) : o[k] = i
<1>1. Len(nodes) \in Nat /\ DOMAIN nodes = 1 .. Len(nodes)
    BY LenProperties
<1>2. IsFiniteSet(DOMAIN nodes) /\ Cardinality(DOMAIN nodes) = Len(nodes)
    <2>1. /\ IsFiniteSet(1 .. Len(nodes))
          /\ Cardinality(1 .. Len(nodes)) = IF 1 > Len(nodes) THEN 0 ELSE Len(nodes) - 1 + 1
        BY <1>1, FS_Interval
    <2> QED BY <1>1, <2>1
<1>3. StrictOrder(DOMAIN nodes, ByHash(nodes, seed, n))
    BY HashOrder
<1> QED BY <1>2, <1>3, InOrderList

ActiveNodes(nodes) == {i \in DOMAIN nodes : nodes[i].active}

\* The hashes order the active nodes as they do on the list of all.
LEMMA CandidateOrder ==
    ASSUME NEW nodes \in Seq(AuthorityNode), NEW seed \in HashNumbers, NEW n \in HashNumbers,
           NEW A, A = ActiveNodes(nodes), NEW N, N = Cardinality(A),
           NEW h, h = InOrder(A, ByHash(nodes, seed, n))
    PROVE  /\ IsFiniteSet(A) /\ N \in Nat
           /\ StrictOrder(A, ByHash(nodes, seed, n))
           /\ ShuffleCandidates(nodes, seed, n) = [k \in 1 .. N |-> nodes[h[k]].master]
<1>1. Len(nodes) \in Nat /\ DOMAIN nodes = 1 .. Len(nodes) /\ A \in SUBSET DOMAIN nodes
    BY LenProperties DEF ActiveNodes
<1>2. PICK R : R = ByHash(nodes, seed, n)
    OBVIOUS
<1>3. StrictOrder(DOMAIN nodes, R) /\ StrictOrder(A, R)
    BY <1>1, <1>2, HashOrder, SubsetOrdered
<1>4. PICK a : a = InOrder(A, Ascending(A))
    OBVIOUS
<1>5. PICK active : active = Sublist(nodes, A)
    OBVIOUS
<1>6. /\ IsFiniteSet(A) /\ N \in Nat
      /\ active \in Seq(AuthorityNode) /\ Len(active) = N
      /\ \A k \in 1 .. N : a[k] \in A /\ active[k] = nodes[a[k]]
    BY <1>1, <1>4, <1>5, SublistProperties
<1>7. /\ \A i \in A : \E k \in 1 .. N : a[k] = i
      /\ \A k, l \in 1 .. N : k < l => a[k] < a[l]
    BY <1>1, <1>4, SublistProperties
<1>8. DOMAIN active = 1 .. N
    BY <1>6, LenProperties
<1>9. PICK c : c = InOrder(DOMAIN active, ByHash(active, seed, n))
    OBVIOUS
<1>10. /\ DOMAIN c = 1 .. N
       /\ \A k \in 1 .. N : c[k] \in 1 .. N
       /\ \A i \in 1 .. N : \E k \in 1 .. N : c[k] = i
       /\ \A k, l \in 1 .. N : k < l => <<c[k], c[l]>> \in ByHash(active, seed, n)
    <2>1. active \in Seq(AuthorityNode)
        BY <1>6
    <2>2. DOMAIN c = 1 .. Len(active)
        BY <1>9, <2>1, ShuffleAuthority
    <2>3. \A k \in 1 .. Len(active) : c[k] \in DOMAIN active
        BY <1>9, <2>1, ShuffleAuthority
    <2>4. ASSUME NEW i \in DOMAIN active PROVE \E k \in 1 .. Len(active) : c[k] = i
        BY <1>9, <2>1, EveryPlace
    <2>5. \A k, l \in 1 .. Len(active) : k < l => <<c[k], c[l]>> \in ByHash(active, seed, n)
        BY <1>9, <2>1, ShuffleAuthority, Zenon
    <2> QED BY <1>6, <1>8, <2>2, <2>3, <2>4, <2>5
<1>11. ASSUME NEW x \in 1 .. N, NEW y \in 1 .. N, <<x, y>> \in ByHash(active, seed, n)
       PROVE  <<a[x], a[y]>> \in R
    <2>1. \/ Hash(seed, n, active[x].master) < Hash(seed, n, active[y].master)
          \/ Hash(seed, n, active[x].master) = Hash(seed, n, active[y].master) /\ x < y
        BY <1>11, HashPair
    <2>2. active[x] = nodes[a[x]] /\ active[y] = nodes[a[y]] /\ (x < y => a[x] < a[y])
        BY <1>6, <1>7
    <2>3. a[x] \in DOMAIN nodes /\ a[y] \in DOMAIN nodes
        BY <1>1, <1>6
    <2>4. \/ Hash(seed, n, nodes[a[x]].master) < Hash(seed, n, nodes[a[y]].master)
          \/ Hash(seed, n, nodes[a[x]].master) = Hash(seed, n, nodes[a[y]].master) /\ a[x] < a[y]
        BY <2>1, <2>2, Zenon
    <2> QED BY <1>2, <2>3, <2>4, PairHashed
<1>12. PICK f : f = [k \in 1 .. N |-> a[c[k]]]
    OBVIOUS
<1>13. \A k \in 1 .. N : f[k] \in A
    BY <1>6, <1>10, <1>12
<1>14. ASSUME NEW i \in A PROVE \E k \in 1 .. N : f[k] = i
    <2>1. PICK x \in 1 .. N : a[x] = i
        BY <1>7
    <2>2. PICK k \in 1 .. N : c[k] = x
        BY <1>10
    <2> QED BY <1>12, <2>1, <2>2
<1>15. \A k, l \in 1 .. N : k < l => <<f[k], f[l]>> \in R
    BY <1>10, <1>11, <1>12
<1>16. DOMAIN f = 1 .. N /\ f = [k \in 1 .. N |-> f[k]]
    BY <1>12
<1>17. h = f
    BY <1>2, <1>3, <1>6, <1>13, <1>14, <1>15, <1>16, InOrderUnique
<1>18. ShuffleCandidates(nodes, seed, n) = [k \in 1 .. N |-> active[c[k]].master]
    <2>1. GetActiveNodes(nodes) = active
        BY <1>5 DEF GetActiveNodes, ActiveNodes
    <2>2. ShuffleCandidates(nodes, seed, n) = [k \in DOMAIN c |-> active[c[k]].master]
        BY <1>9, <2>1, Zenon DEF ShuffleCandidates
    <2> QED BY <1>10, <2>2
<1>19. \A k \in 1 .. N : active[c[k]].master = nodes[h[k]].master
    BY <1>6, <1>10, <1>12, <1>17
<1> QED BY <1>2, <1>3, <1>6, <1>18, <1>19

\* No two nodes have the same master, so that who proposes is known by the master.
LEMMA ProposingMasters ==
    ASSUME NEW nodes, AuthorityListed(nodes), NEW i \in DOMAIN nodes
    PROVE  nodes[i].master \in {v.master : v \in {u \in ToSet(nodes) : u.active = TRUE}}
            <=> i \in ActiveNodes(nodes)
<1>1. nodes \in Seq(AuthorityNode) /\ \A j \in DOMAIN nodes : nodes[j].master = AuthorityNodes[j]
    BY DEF AuthorityListed
<1>2. \A j \in DOMAIN nodes : nodes[j].active \in BOOLEAN
    <2>1. \A j \in DOMAIN nodes : nodes[j] \in AuthorityNode
        BY <1>1, LenProperties, ElementOfSeq
    <2> QED BY <2>1 DEF AuthorityNode
<1>3. DOMAIN nodes = DOMAIN AuthorityNodes
    BY LenProperties, AuthorityAssumption DEF AuthorityListed
<1>4. ASSUME i \in ActiveNodes(nodes)
      PROVE  nodes[i].master \in {v.master : v \in {u \in ToSet(nodes) : u.active = TRUE}}
    <2>1. nodes[i] \in ToSet(nodes) /\ nodes[i].active = TRUE
        BY <1>2, <1>4 DEF ToSet, ActiveNodes
    <2> QED BY <2>1
<1>5. ASSUME nodes[i].master \in {v.master : v \in {u \in ToSet(nodes) : u.active = TRUE}}
      PROVE  i \in ActiveNodes(nodes)
    <2>1. PICK u \in ToSet(nodes) : u.active = TRUE /\ u.master = nodes[i].master
        BY <1>5
    <2>2. PICK j \in DOMAIN nodes : u = nodes[j]
        BY <2>1 DEF ToSet
    <2>3. AuthorityNodes[j] = AuthorityNodes[i]
        BY <1>1, <2>1, <2>2
    <2>4. i = j
        BY <1>3, <2>3, AuthorityAssumption DEF IsInjective
    <2> QED BY <2>1, <2>2, <2>4 DEF ActiveNodes
<1> QED BY <1>4, <1>5

\* Numbers in ascending order.
LEMMA PlacesAscend ==
    ASSUME NEW I \in SUBSET Int, IsFiniteSet(I), NEW N, N = Cardinality(I),
           NEW j, j = InOrder(I, Ascending(I))
    PROVE  /\ \A k \in 1 .. N : j[k] \in I
           /\ \A k, l \in 1 .. N : k < l => j[k] < j[l]
<1>1. StrictOrder(I, Ascending(I))
    BY AscendingOrder
<1>2. \A k \in 1 .. N : j[k] \in I
    BY <1>1, InOrderList
<1>3. \A k, l \in 1 .. N : k < l => <<j[k], j[l]>> \in Ascending(I)
    BY <1>1, InOrderList
<1> QED BY <1>2, <1>3 DEF Ascending

LEMMA PlaceOf ==
    ASSUME NEW I \in SUBSET Int, IsFiniteSet(I), NEW N, N = Cardinality(I),
           NEW j, j = InOrder(I, Ascending(I)), NEW i \in I
    PROVE  \E k \in 1 .. N : j[k] = i
<1>1. StrictOrder(I, Ascending(I))
    BY AscendingOrder
<1> QED BY <1>1, InOrderList

\* The places of the active nodes when the nodes are in the order o.
ActivePlaces(nodes, o) == {k \in 1 .. Len(nodes) : o[k] \in ActiveNodes(nodes)}

\* The active ones among the shuffled nodes are the shuffled active nodes.
LEMMA FilterOfShuffle ==
    ASSUME NEW nodes \in Seq(AuthorityNode), NEW seed \in HashNumbers, NEW n \in HashNumbers,
           NEW o, o = InOrder(DOMAIN nodes, ByHash(nodes, seed, n)),
           NEW J, J = ActivePlaces(nodes, o),
           NEW j, j = InOrder(J, Ascending(J))
    PROVE  /\ IsFiniteSet(J) /\ Cardinality(J) \in Nat
           /\ \A k \in 1 .. Cardinality(J) : j[k] \in J
           /\ ShuffleCandidates(nodes, seed, n)
                = [k \in 1 .. Cardinality(J) |-> nodes[o[j[k]]].master]
<1>1. Len(nodes) \in Nat /\ DOMAIN nodes = 1 .. Len(nodes)
    BY LenProperties
<1>2. IsFiniteSet(J) /\ Cardinality(J) \in Nat /\ J \in SUBSET Int
    <2>1. IsFiniteSet(1 .. Len(nodes))
        BY <1>1, FS_Interval
    <2>2. J \in SUBSET (1 .. Len(nodes)) /\ J \in SUBSET Int
        BY <1>1 DEF ActivePlaces
    <2> QED BY <2>1, <2>2, FS_Subset, FS_CardinalityType
<1>3. PICK N : N = Cardinality(J)
    OBVIOUS
<1>4. \A k \in 1 .. N : j[k] \in J
    BY <1>2, <1>3, PlacesAscend
<1>5. /\ \A i \in J : \E k \in 1 .. N : j[k] = i
      /\ \A k, l \in 1 .. N : k < l => j[k] < j[l]
    <2>1. ASSUME NEW i \in J PROVE \E k \in 1 .. N : j[k] = i
        BY <1>2, <1>3, PlaceOf
    <2>2. \A k, l \in 1 .. N : k < l => j[k] < j[l]
        BY <1>2, <1>3, PlacesAscend
    <2> QED BY <2>1, <2>2
<1>6. PICK R : R = ByHash(nodes, seed, n)
    OBVIOUS
<1>7. \A k, l \in 1 .. Len(nodes) : k < l => <<o[k], o[l]>> \in R
    BY <1>6, ShuffleAuthority
<1>8. PICK A : A = ActiveNodes(nodes)
    OBVIOUS
<1>9. PICK f : f = [k \in 1 .. N |-> o[j[k]]]
    OBVIOUS
<1>10. \A k \in 1 .. N : f[k] \in A
    BY <1>4, <1>8, <1>9 DEF ActivePlaces
<1>11. ASSUME NEW i \in A PROVE \E k \in 1 .. N : f[k] = i
    <2>1. i \in DOMAIN nodes
        BY <1>8 DEF ActiveNodes
    <2>2. PICK l \in 1 .. Len(nodes) : o[l] = i
        BY <2>1, EveryPlace
    <2>3. l \in J
        BY <1>8, <2>2 DEF ActivePlaces
    <2>4. PICK k \in 1 .. N : j[k] = l
        BY <1>5, <2>3
    <2> QED BY <1>9, <2>2, <2>4
<1>12. ASSUME NEW k \in 1 .. N, NEW l \in 1 .. N, k < l PROVE <<f[k], f[l]>> \in R
    <2>1. j[k] \in 1 .. Len(nodes) /\ j[l] \in 1 .. Len(nodes) /\ j[k] < j[l]
        BY <1>4, <1>5, <1>12 DEF ActivePlaces
    <2> QED BY <1>7, <1>9, <2>1
<1>13. PICK h : h = InOrder(A, R)
    OBVIOUS
<1>14. /\ StrictOrder(A, R)
       /\ ShuffleCandidates(nodes, seed, n) = [k \in 1 .. Cardinality(A) |-> nodes[h[k]].master]
    BY <1>6, <1>8, <1>13, CandidateOrder
<1>15. N \in Nat /\ DOMAIN f = 1 .. N /\ f = [k \in 1 .. N |-> f[k]]
    BY <1>2, <1>3, <1>9
<1>16. Cardinality(A) = N /\ h = f
    BY <1>10, <1>11, <1>12, <1>13, <1>14, <1>15, InOrderUnique
<1>17. ShuffleCandidates(nodes, seed, n) = [k \in 1 .. N |-> nodes[o[j[k]]].master]
    <2>1. \A k \in 1 .. N : nodes[h[k]].master = nodes[o[j[k]]].master
        BY <1>9, <1>16
    <2> QED BY <1>14, <1>16, <2>1
<1> QED BY <1>2, <1>3, <1>4, <1>17

\* A list that agrees with the beginning of another is that beginning.
LEMMA PrefixIs ==
    ASSUME NEW T, NEW s \in Seq(T), NEW t \in Seq(T), Len(s) <= Len(t),
           \A k \in 1 .. Len(s) : s[k] = t[k]
    PROVE  s = SubSeq(t, 1, Len(s))
<1>1. PICK m \in Nat : m = Len(s)
    BY LenProperties
<1>2. \A i \in 1 .. m : t[i] \in T
    BY <1>1, LenProperties, ElementOfSeq
<1>3. /\ SubSeq(t, 1, m) \in Seq(T)
      /\ Len(SubSeq(t, 1, m)) = IF 1 <= m THEN m - 1 + 1 ELSE 0
      /\ \A i \in 1 .. m - 1 + 1 : SubSeq(t, 1, m)[i] = t[1 + i - 1]
    BY <1>2, SubSeqProperties
<1>4. Len(SubSeq(t, 1, m)) = Len(s)
    BY <1>1, <1>3
<1>5. \A i \in 1 .. Len(s) : s[i] = SubSeq(t, 1, m)[i]
    BY <1>1, <1>3
<1> QED BY <1>1, <1>3, <1>4, <1>5, SeqEqual

LEMMA ShuffledAt ==
    ASSUME NEW nodes \in Seq(AuthorityNode), NEW seed \in HashNumbers, NEW n \in HashNumbers,
           NEW o, o = InOrder(DOMAIN nodes, ByHash(nodes, seed, n)), NEW i \in 1 .. Len(nodes)
    PROVE  ShuffleAuthorityNodes(nodes, seed, n)[i] = nodes[o[i]]
<1>1. DOMAIN o = 1 .. Len(nodes)
    BY ShuffleAuthority
<1>2. ShuffleAuthorityNodes(nodes, seed, n) = [k \in DOMAIN o |-> nodes[o[k]]]
    BY Zenon DEF ShuffleAuthorityNodes
<1> QED BY <1>1, <1>2

LEMMA UpToBound ==
    ASSUME NEW m \in Nat, NEW N \in Nat, m <= N
    PROVE  (\A i \in 1 .. N : i \in 1 .. m <=> i <= m) /\ \A i \in 1 .. m : i \in 1 .. N
OBVIOUS

Names(x) == [i \in DOMAIN x |-> x[i].master]
Listed(future, nodes) == {i \in DOMAIN future : future[i] \in Proposing(nodes)}

\* What "slots" lists of the authority nodes, without the ones that are not active, is
\* the beginning of what "authority" lists.
LEMMA ListedFirst ==
    ASSUME NEW nodes, AuthorityListed(nodes), NEW seed \in HashNumbers, NEW n \in HashNumbers,
           NEW x, x = NextBlockProposersPoA(nodes, seed, n, FutureProposerCount),
           NEW future, future = Names(x),
           NEW listed, listed = Sublist(future, Listed(future, nodes)),
           NEW ranked, ranked = ShuffleCandidates(nodes, seed, n)
    PROVE  /\ listed = SubSeq(ranked, 1, Len(listed))
           /\ Len(nodes) <= FutureProposerCount => Len(listed) = Len(ranked)
<1>1. PICK m : m = AtMost(Len(nodes), FutureProposerCount)
    OBVIOUS
<1>2. nodes \in Seq(AuthorityNode) /\ Len(nodes) \in Nat \ {0} /\ DOMAIN nodes = 1 .. Len(nodes)
    BY AuthorityNonEmpty, LenProperties
<1>3. /\ m \in Nat \ {0} /\ m <= Len(nodes)
      /\ Len(nodes) <= FutureProposerCount => m = Len(nodes)
    BY <1>1, <1>2 DEF AtMost, FutureProposerCount
<1>4. PICK o : o = InOrder(DOMAIN nodes, ByHash(nodes, seed, n))
    OBVIOUS
<1>5. \A i \in 1 .. Len(nodes) :
        o[i] \in DOMAIN nodes /\ ShuffleAuthorityNodes(nodes, seed, n)[i] = nodes[o[i]]
    <2>1. nodes \in Seq(AuthorityNode)
        BY <1>2
    <2>2. \A i \in 1 .. Len(nodes) : o[i] \in DOMAIN nodes
        BY <1>4, <2>1, ShuffleAuthority, Zenon
    <2>3. ASSUME NEW i \in 1 .. Len(nodes)
          PROVE  ShuffleAuthorityNodes(nodes, seed, n)[i] = nodes[o[i]]
        BY <1>4, <2>1, ShuffledAt
    <2> QED BY <2>2, <2>3
<1>6. x \in Seq(AuthorityNode) /\ Len(x) = m
    BY <1>1, FirstOfAuthority
<1>7. \A i \in 1 .. m : x[i] = ShuffleAuthorityNodes(nodes, seed, n)[i]
    BY <1>1, FirstOfAuthority
<1>8. DOMAIN x = 1 .. m /\ \A i \in 1 .. m : x[i] = nodes[o[i]] /\ o[i] \in DOMAIN nodes
    BY <1>3, <1>5, <1>6, <1>7, LenProperties
<1>9. future = [i \in 1 .. m |-> nodes[o[i]].master]
    BY <1>8 DEF Names
<1>10. PICK J : J = ActivePlaces(nodes, o)
    OBVIOUS
<1>11. PICK L : L = {i \in J : i <= m}
    OBVIOUS
<1>12. Listed(future, nodes) = L
    <2>1. \A i \in 1 .. m : future[i] \in Proposing(nodes) <=> o[i] \in ActiveNodes(nodes)
        BY <1>8, <1>9, ProposingMasters DEF Proposing
    <2>2. DOMAIN future = 1 .. m
        BY <1>9
    <2>3. \A i : i \in J <=> i \in 1 .. Len(nodes) /\ o[i] \in ActiveNodes(nodes)
        BY <1>10 DEF ActivePlaces
    <2>4. /\ \A i \in 1 .. Len(nodes) : i \in 1 .. m <=> i <= m
          /\ \A i \in 1 .. m : i \in 1 .. Len(nodes)
        <3>1. m \in Nat /\ Len(nodes) \in Nat /\ m <= Len(nodes)
            BY <1>2, <1>3
        <3> QED BY <3>1, UpToBound
    <2>5. \A i : i \in L <=> i \in 1 .. m /\ o[i] \in ActiveNodes(nodes)
        BY <1>11, <2>3, <2>4
    <2> QED BY <2>1, <2>2, <2>5 DEF Listed
<1>13. PICK j : j = InOrder(J, Ascending(J))
    OBVIOUS
<1>14. /\ IsFiniteSet(J) /\ Cardinality(J) \in Nat
       /\ ranked = [k \in 1 .. Cardinality(J) |-> nodes[o[j[k]]].master]
    BY <1>2, <1>4, <1>10, <1>13, FilterOfShuffle
<1>15. \A k \in 1 .. Cardinality(J) : j[k] \in J
    BY <1>2, <1>4, <1>10, <1>13, FilterOfShuffle
<1>16. J \in SUBSET Int
    BY <1>2, <1>10 DEF ActivePlaces
<1>17. PICK l : l = InOrder(L, Ascending(L))
    OBVIOUS
<1>18. /\ Cardinality(L) \in Nat /\ Cardinality(L) <= Cardinality(J)
       /\ \A k \in 1 .. Cardinality(L) : l[k] = j[k]
    <2>1. m \in Int /\ IsFiniteSet(J)
        BY <1>3, <1>14
    <2>2. Cardinality(L) \in Nat /\ Cardinality(L) <= Cardinality(J)
        BY <1>11, <1>16, <2>1, FirstPlaces
    <2>3. \A k \in 1 .. Cardinality(L) :
            InOrder(L, Ascending(L))[k] = InOrder(J, Ascending(J))[k]
        BY <1>11, <1>16, <2>1, FirstPlaces
    <2> QED BY <1>13, <1>17, <2>2, <2>3
<1>19. PICK T : T = {nodes[i].master : i \in DOMAIN nodes}
    OBVIOUS
<1>20. future \in Seq(T)
    <2>1. \A i \in 1 .. m : nodes[o[i]].master \in T
        BY <1>8, <1>19
    <2>2. future \in [1 .. m -> T]
        BY <1>9, <2>1
    <2> QED BY <1>3, <2>2, SeqDef
<1>21. ranked \in Seq(T) /\ Len(ranked) = Cardinality(J)
    <2>1. \A i \in J : o[i] \in DOMAIN nodes
        BY <1>10 DEF ActivePlaces, ActiveNodes
    <2>2. \A k \in 1 .. Cardinality(J) : nodes[o[j[k]]].master \in T
        BY <1>15, <1>19, <2>1
    <2>3. ranked \in [1 .. Cardinality(J) -> T]
        BY <1>14, <2>2
    <2> QED BY <1>14, <2>3, SeqDef, LenProperties
<1>22. listed \in Seq(T) /\ Len(listed) = Cardinality(L)
    <2>1. listed = Sublist(future, L) /\ L \in SUBSET DOMAIN future
        BY <1>12 DEF Listed
    <2> QED BY <1>20, <2>1, SublistProperties
<1>23. ASSUME NEW k \in 1 .. Cardinality(L) PROVE listed[k] = ranked[k]
    <2>1. listed = Sublist(future, L) /\ L \in SUBSET DOMAIN future
        BY <1>12 DEF Listed
    <2>2. l[k] \in L /\ listed[k] = future[l[k]]
        BY <1>17, <1>20, <2>1, SublistProperties
    <2>3. l[k] \in 1 .. m
        BY <1>9, <2>1, <2>2
    <2>4. listed[k] = nodes[o[j[k]]].master
        BY <1>9, <1>18, <2>2, <2>3
    <2>5. k \in 1 .. Cardinality(J)
        BY <1>14, <1>18
    <2> QED BY <1>14, <2>4, <2>5
<1>24. listed = SubSeq(ranked, 1, Len(listed))
    BY <1>14, <1>18, <1>21, <1>22, <1>23, PrefixIs
<1>25. ASSUME Len(nodes) <= FutureProposerCount PROVE L = J
    <2>1. \A i \in J : i \in 1 .. Len(nodes)
        BY <1>10 DEF ActivePlaces
    <2> QED BY <1>2, <1>3, <1>11, <1>25, <2>1
<1> QED BY <1>21, <1>22, <1>24, <1>25

\* The first in the order has none before it.
LEMMA FirstRank ==
    ASSUME NEW S, IsFiniteSet(S), NEW R, StrictOrder(S, R), NEW o, o = InOrder(S, R),
           1 \in 1 .. Cardinality(S)
    PROVE  o[1] \in S /\ Cardinality(Before(S, R, o[1])) = 0
BY InOrderProperties

\* The first of all, when it is active, is the first of the active ones.
LEMMA FirstCandidate ==
    ASSUME NEW nodes, AuthorityListed(nodes), NEW seed \in HashNumbers, NEW n \in HashNumbers,
           NEW first, first = ShuffleAuthorityNodes(nodes, seed, n)[1], first.active = TRUE
    PROVE  first.master = ShuffleCandidates(nodes, seed, n)[1]
<1>1. nodes \in Seq(AuthorityNode) /\ Len(nodes) \in Nat \ {0}
    BY AuthorityNonEmpty
<1>2. 1 \in 1 .. Len(nodes) /\ DOMAIN nodes = 1 .. Len(nodes)
    BY <1>1, LenProperties
<1>3. PICK R : R = ByHash(nodes, seed, n)
    OBVIOUS
<1>4. PICK o : o = InOrder(DOMAIN nodes, R)
    OBVIOUS
<1>5. first = nodes[o[1]]
    BY <1>1, <1>2, <1>3, <1>4, ShuffledAt
<1>6. StrictOrder(DOMAIN nodes, R) /\ IsFiniteSet(DOMAIN nodes)
    BY <1>1, <1>2, <1>3, HashOrder, FS_Interval
<1>7. Cardinality(DOMAIN nodes) = Len(nodes)
    <2>1. Cardinality(1 .. Len(nodes)) = IF 1 > Len(nodes) THEN 0 ELSE Len(nodes) - 1 + 1
        BY <1>1, FS_Interval
    <2> QED BY <1>1, <1>2, <2>1
<1>8. o[1] \in DOMAIN nodes /\ Cardinality(Before(DOMAIN nodes, R, o[1])) = 0
    <2>1. 1 \in 1 .. Cardinality(DOMAIN nodes)
        BY <1>2, <1>7
    <2> QED BY <1>4, <1>6, <2>1, FirstRank
<1>9. PICK A : A = ActiveNodes(nodes)
    OBVIOUS
<1>10. o[1] \in A /\ A \in SUBSET DOMAIN nodes
    BY <1>5, <1>8, <1>9 DEF ActiveNodes
<1>11. PICK h : h = InOrder(A, R)
    OBVIOUS
<1>12. /\ IsFiniteSet(A) /\ Cardinality(A) \in Nat /\ StrictOrder(A, R)
       /\ ShuffleCandidates(nodes, seed, n) = [k \in 1 .. Cardinality(A) |-> nodes[h[k]].master]
    BY <1>1, <1>3, <1>9, <1>11, CandidateOrder
<1>13. 1 \in 1 .. Cardinality(A)
    <2>1. Cardinality(A) # 0
        BY <1>10, <1>12, FS_EmptySet
    <2> QED BY <1>12, <2>1
<1>14. h[1] \in A /\ Cardinality(Before(A, R, h[1])) = 0
    BY <1>11, <1>12, <1>13, FirstRank
<1>15. Cardinality(Before(A, R, o[1])) = 0
    <2>1. IsFiniteSet(Before(DOMAIN nodes, R, o[1]))
        BY <1>6, FS_Subset DEF Before
    <2>2. Before(DOMAIN nodes, R, o[1]) = {}
        BY <1>8, <2>1, FS_EmptySet
    <2>3. Before(A, R, o[1]) = {}
        BY <1>10, <2>2 DEF Before
    <2> QED BY <2>3, FS_EmptySet
<1>16. h[1] = o[1]
    BY <1>10, <1>12, <1>14, <1>15, RankInjective
<1>17. ShuffleCandidates(nodes, seed, n)[1] = nodes[h[1]].master
    BY <1>12, <1>13
<1> QED BY <1>5, <1>16, <1>17

\* The number of active nodes is that of their masters.
LEMMA ActiveCount ==
    ASSUME NEW nodes, AuthorityListed(nodes)
    PROVE  Len(GetActiveNodes(nodes)) = Cardinality(Proposing(nodes))
<1>1. nodes \in Seq(AuthorityNode) /\ Len(nodes) \in Nat /\ DOMAIN nodes = 1 .. Len(nodes)
    BY LenProperties DEF AuthorityListed
<1>2. PICK A : A = ActiveNodes(nodes)
    OBVIOUS
<1>3. A \in SUBSET DOMAIN nodes
    BY <1>2 DEF ActiveNodes
<1>4. IsFiniteSet(A) /\ Len(Sublist(nodes, A)) = Cardinality(A)
    BY <1>1, <1>3, SublistProperties
<1>5. GetActiveNodes(nodes) = Sublist(nodes, A)
    BY <1>2 DEF GetActiveNodes, ActiveNodes
<1>6. PICK x : x = [i \in DOMAIN nodes |-> nodes[i].master]
    OBVIOUS
<1>7. \A i \in DOMAIN nodes : x[i] = AuthorityNodes[i]
    BY <1>6 DEF AuthorityListed
<1>8. \A i, j \in A : x[i] = x[j] => i = j
    <2>1. DOMAIN nodes = DOMAIN AuthorityNodes
        BY LenProperties, AuthorityAssumption DEF AuthorityListed
    <2> QED BY <1>3, <1>7, <2>1, AuthorityAssumption DEF IsInjective
<1>9. Proposing(nodes) = {x[i] : i \in A}
    <2>1. ASSUME NEW i \in A PROVE x[i] \in Proposing(nodes)
        <3>1. i \in DOMAIN nodes /\ x[i] = nodes[i].master
            BY <1>3, <1>6
        <3> QED BY <1>2, <3>1, ProposingMasters DEF Proposing
    <2>2. ASSUME NEW w \in Proposing(nodes) PROVE \E i \in A : w = x[i]
        <3>1. PICK u \in ToSet(nodes) : u.active = TRUE /\ w = u.master
            BY DEF Proposing
        <3>2. PICK i \in DOMAIN nodes : u = nodes[i]
            BY <3>1 DEF ToSet
        <3> QED BY <1>2, <1>6, <3>1, <3>2 DEF ActiveNodes
    <2> QED BY <2>1, <2>2
<1>10. Cardinality(Proposing(nodes)) = Cardinality(A)
    BY <1>4, <1>8, <1>9, ImageCount
<1> QED BY <1>4, <1>5, <1>10

\* The first of the shuffled nodes is one of the nodes.
LEMMA ShuffledNode ==
    ASSUME NEW nodes, AuthorityListed(nodes), NEW seed \in HashNumbers, NEW n \in HashNumbers
    PROVE  /\ ShuffleAuthorityNodes(nodes, seed, n)[1] \in ToSet(nodes)
           /\ ShuffleAuthorityNodes(nodes, seed, n)[1].active \in BOOLEAN
<1>1. nodes \in Seq(AuthorityNode) /\ Len(nodes) \in Nat \ {0}
    BY AuthorityNonEmpty
<1>2. 1 \in 1 .. Len(nodes)
    BY <1>1
<1>3. PICK o : o = InOrder(DOMAIN nodes, ByHash(nodes, seed, n))
    OBVIOUS
<1>4. ShuffleAuthorityNodes(nodes, seed, n)[1] = nodes[o[1]]
    BY <1>1, <1>2, <1>3, ShuffledAt
<1>5. o[1] \in DOMAIN nodes
    <2>1. nodes \in Seq(AuthorityNode)
        BY <1>1
    <2>2. \A i \in 1 .. Len(nodes) : o[i] \in DOMAIN nodes
        BY <1>3, <2>1, ShuffleAuthority, Zenon
    <2> QED BY <1>2, <2>2
<1>6. nodes[o[1]] \in AuthorityNode
    BY <1>1, <1>5, LenProperties, ElementOfSeq
<1> QED BY <1>4, <1>5, <1>6 DEF AuthorityNode, ToSet

\* Under proof of authority "slots" and "authority" agree on the nodes that are active.
LEMMA AgreeUnderPoa ==
    ASSUME StatsInv, ~Active(number), NEW slots, slots = SlotsWrite,
           NEW listed, listed = Sublist(slots.future, Listed(slots.future, authNodes)),
           NEW ranked,
           ranked = ShuffleCandidates(authNodes, FutureSeed(number), number)
    PROVE  /\ slots.expected \in Proposing(parentAuthNodes) =>
                slots.expected = ShuffleCandidates(parentAuthNodes, Seed(number), number - 1)[1]
           /\ listed = SubSeq(ranked, 1, Len(listed))
           /\ Len(authNodes) <= FutureProposerCount => Len(listed) = Len(ranked)
           /\ slots.count = Cardinality(Proposing(authNodes))
<1>1. AuthorityListed(parentAuthNodes) /\ AuthorityListed(authNodes) /\ number \in Nat
    BY DEF StatsInv
<1>2. /\ number \in HashNumbers /\ FutureSeed(number) \in HashNumbers
      /\ number - 1 \in HashNumbers /\ Seed(number) \in HashNumbers
    BY <1>1, HashedNumbers, SeedOfNext
<1>3. PICK x : x = NextBlockProposersPoA(authNodes, FutureSeed(number), number,
                                         FutureProposerCount)
    OBVIOUS
<1>4. PICK y : y = NextBlockProposersPoA(parentAuthNodes, Seed(number), number - 1,
                                         FutureProposerCount)
    OBVIOUS
<1>5. GetActiveNodes(parentAuthNodes) # <<>>
    BY <1>1, AuthorityNonEmpty
<1>6. slots = [future |-> Names(x), expected |-> y[1].master,
               count |-> Len(GetActiveNodes(authNodes))]
    <2>1. slots = CalculatePoaProposers(number, parentAuthNodes, authNodes)
        BY DEF SlotsWrite, SlotsPoint
    <2> QED BY <1>3, <1>4, <1>5, <2>1, Zenon DEF CalculatePoaProposers, Names
<1>7. /\ slots.future = Names(x) /\ slots.expected = y[1].master
      /\ slots.count = Len(GetActiveNodes(authNodes))
    BY <1>6
<1>8. /\ listed = SubSeq(ranked, 1, Len(listed))
      /\ Len(authNodes) <= FutureProposerCount => Len(listed) = Len(ranked)
    <2>1. PICK future : future = Names(x)
        OBVIOUS
    <2>2. listed = Sublist(future, Listed(future, authNodes))
        BY <1>7, <2>1
    <2>3. PICK seed \in HashNumbers : seed = FutureSeed(number)
        BY <1>2
    <2>4. /\ x = NextBlockProposersPoA(authNodes, seed, number, FutureProposerCount)
          /\ ranked = ShuffleCandidates(authNodes, seed, number)
        BY <1>3, <2>3
    <2>5. AuthorityListed(authNodes) /\ number \in HashNumbers
        BY <1>1, <1>2
    <2>6. listed = SubSeq(ranked, 1, Len(listed))
        BY <2>1, <2>2, <2>4, <2>5, ListedFirst
    <2>7. Len(authNodes) <= FutureProposerCount => Len(listed) = Len(ranked)
        BY <2>1, <2>2, <2>4, <2>5, ListedFirst
    <2> QED BY <2>6, <2>7
<1>9. slots.count = Cardinality(Proposing(authNodes))
    BY <1>1, <1>7, ActiveCount
<1>10. y[1] = ShuffleAuthorityNodes(parentAuthNodes, Seed(number), number - 1)[1]
    <2>1. 1 \in 1 .. AtMost(Len(parentAuthNodes), FutureProposerCount)
        <3>1. AtMost(Len(parentAuthNodes), FutureProposerCount) \in Nat \ {0}
            BY <1>1, <1>2, FirstOfAuthority
        <3> QED BY <3>1
    <2> QED BY <1>1, <1>2, <1>4, <2>1, FirstOfAuthority
<1>11. y[1] \in ToSet(parentAuthNodes) /\ y[1].active \in BOOLEAN
    BY <1>1, <1>2, <1>10, ShuffledNode
<1>12. CASE y[1].active = FALSE
    <2>1. PICK i \in DOMAIN parentAuthNodes : y[1] = parentAuthNodes[i]
        BY <1>11 DEF ToSet
    <2>2. i \notin ActiveNodes(parentAuthNodes)
        BY <1>12, <2>1 DEF ActiveNodes
    <2>3. y[1].master \notin Proposing(parentAuthNodes)
        BY <1>1, <2>1, <2>2, ProposingMasters DEF Proposing
    <2> QED BY <1>7, <1>8, <1>9, <2>3
<1>13. CASE y[1].active = TRUE
    <2>1. y[1].master = ShuffleCandidates(parentAuthNodes, Seed(number), number - 1)[1]
        <3>1. PICK seed \in HashNumbers : seed = Seed(number)
            BY <1>2
        <3>2. PICK n \in HashNumbers : n = number - 1
            BY <1>2
        <3>3. PICK first : first = y[1]
            OBVIOUS
        <3>4. /\ AuthorityListed(parentAuthNodes) /\ first.active = TRUE
              /\ first = ShuffleAuthorityNodes(parentAuthNodes, seed, n)[1]
            BY <1>1, <1>10, <1>13, <3>1, <3>2, <3>3
        <3>5. first.master = ShuffleCandidates(parentAuthNodes, seed, n)[1]
            BY <3>4, FirstCandidate
        <3> QED BY <3>1, <3>2, <3>3, <3>5
    <2> QED BY <1>7, <1>8, <1>9, <2>1
<1> QED BY <1>11, <1>12, <1>13

\* What two handlers compute of the same event along different ways agrees, for any
\* validators, authority nodes, hashes and random source.
THEOREM HandlersAgreed == Spec => []HandlersAgree
<1>1. StatsInv => HandlersAgree
    <2> SUFFICES ASSUME StatsInv PROVE HandlersAgree
        OBVIOUS
    <2>1. ASSUME NEW p \in CreateSlotPoints
          PROVE  LET slots == SlotsWrite
                     overview == Overview(staker)
                 IN  /\ p.future # <<>> => slots.future # <<>> /\ p.future[1] = slots.future[1]
                     /\ slots.count = overview.active_validators
                     /\ Len(slots.future)
                            = AtMost(overview.online_validators, FutureProposerCount)
                     /\ \A w \in overview.signer_weight : w <= overview.online_weight
        BY AgreeUnderPos, Zenon
    <2>2. ASSUME ~Active(number)
          PROVE  LET slots == SlotsWrite
                     listed == Sublist(slots.future, {i \in DOMAIN slots.future :
                                            slots.future[i] \in Proposing(authNodes)})
                     ranked == ShuffleCandidates(authNodes, FutureSeed(number), number)
                 IN  /\ slots.expected \in Proposing(parentAuthNodes) =>
                        slots.expected
                            = ShuffleCandidates(parentAuthNodes, Seed(number), number - 1)[1]
                     /\ listed = SubSeq(ranked, 1, Len(listed))
                     /\ Len(authNodes) <= FutureProposerCount => Len(listed) = Len(ranked)
                     /\ slots.count = Cardinality(Proposing(authNodes))
        <3>1. PICK slots : slots = SlotsWrite
            OBVIOUS
        <3>2. PICK listed : listed = Sublist(slots.future, Listed(slots.future, authNodes))
            OBVIOUS
        <3>3. PICK ranked :
                ranked = ShuffleCandidates(authNodes, FutureSeed(number), number)
            OBVIOUS
        <3>4. /\ slots.expected \in Proposing(parentAuthNodes) =>
                    slots.expected
                        = ShuffleCandidates(parentAuthNodes, Seed(number), number - 1)[1]
              /\ listed = SubSeq(ranked, 1, Len(listed))
              /\ Len(authNodes) <= FutureProposerCount => Len(listed) = Len(ranked)
              /\ slots.count = Cardinality(Proposing(authNodes))
            BY <2>2, <3>1, <3>2, <3>3, AgreeUnderPoa
        <3> QED BY <3>1, <3>2, <3>3, <3>4, Zenon DEF Listed
    <2> QED BY <2>1, <2>2, Zenon DEF HandlersAgree
<1> QED BY <1>1, StatsInvariance, PTL
==============================================================================
