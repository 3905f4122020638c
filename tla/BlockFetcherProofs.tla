------------------------- MODULE BlockFetcherProofs -------------------------
(***************************************************************************)
(* Proofs about BlockFetcher for every set of callers and numbers, every   *)
(* cache size and every setting of the retries: the singleflight group has *)
(* one execution per number, the node is never asked for a cached block,   *)
(* and a call ends in bounded time.                                        *)
(***************************************************************************)
EXTENDS BlockFetcher, ChannelLemmas

-----------------------------------------------------------------------------
(* The cache.                                                              *)

\* Dropping a number's entry caches no other number, and shortens a cache that
\* had it.
LEMMA WithoutContent ==
    ASSUME NEW R, NEW c \in Seq(Numbers \X R), NEW n
    PROVE  /\ Without(c, n) \in Seq(Numbers \X R)
           /\ Len(Without(c, n)) <= Len(c)
           /\ Cached(c, n) => Len(Without(c, n)) = Len(c) - 1
           /\ \A m : Cached(Without(c, n), m) => Cached(c, m)
<1>1. DOMAIN c = 1 .. Len(c) /\ Len(c) \in Nat
    BY LenProperties
<1>2. CASE ~Cached(c, n)
    <2>1. Without(c, n) = c
        BY <1>2 DEF Without
    <2>2. Len(c) <= Len(c)
        BY <1>1
    <2> QED BY <1>2, <2>1, <2>2, Zenon
<1>3. CASE Cached(c, n)
    <2>1. PICK p \in 1 .. Len(c) : p = Position(c, n)
        BY <1>1, <1>3 DEF Cached, Position
    <2> DEFINE w == RemoveAt(c, p)
    <2>2. Without(c, n) = w
        BY <1>3, <2>1 DEF Without
    <2>3. w \in Seq(Numbers \X R) /\ Len(w) = Len(c) - 1
        <3>1. w \in Seq(Numbers \X R)
            BY RemoveAtContent, Zenon
        <3>2. Len(w) = Len(c) - 1
            BY RemoveAtContent, Zenon
        <3> QED BY <3>1, <3>2
    <2>4. ToSet(w) \subseteq ToSet(c)
        BY RemoveAtContent, Zenon
    <2> HIDE DEF w
    <2>5. \A m : Cached(w, m) => Cached(c, m)
        BY <2>4 DEF Cached, ToSet
    <2> QED BY <1>1, <2>2, <2>3, <2>5
<1> QED BY <1>2, <1>3

\* An entry behind the others adds its own number only.
LEMMA AppendCached ==
    ASSUME NEW R, NEW c \in Seq(Numbers \X R), NEW n \in Numbers, NEW r \in R
    PROVE  /\ Append(c, <<n, r>>) \in Seq(Numbers \X R)
           /\ Len(Append(c, <<n, r>>)) = Len(c) + 1
           /\ \A m : Cached(Append(c, <<n, r>>), m) => m = n \/ Cached(c, m)
<1> DEFINE e == <<n, r>>
           a == Append(c, e)
<1>1. e \in Numbers \X R /\ e[1] = n
    OBVIOUS
<1>2. DOMAIN c = 1 .. Len(c) /\ Len(c) \in Nat
    BY LenProperties
<1> HIDE DEF e
<1>3. /\ a \in Seq(Numbers \X R) /\ Len(a) = Len(c) + 1
      /\ \A i \in 1 .. Len(c) : a[i] = c[i]
      /\ a[Len(c) + 1] = e
    BY <1>1, AppendProperties
<1>4. DOMAIN a = 1 .. Len(c) + 1
    BY <1>3, LenProperties
<1> HIDE DEF a
<1>5. ASSUME NEW m, Cached(a, m)
      PROVE  m = n \/ Cached(c, m)
    <2>1. PICK i \in 1 .. Len(c) + 1 : a[i][1] = m
        BY <1>4, <1>5 DEF Cached
    <2>2. CASE i = Len(c) + 1
        BY <1>1, <1>3, <2>1, <2>2
    <2>3. CASE i \in 1 .. Len(c)
        BY <1>2, <1>3, <2>1, <2>3 DEF Cached
    <2> QED BY <1>2, <2>2, <2>3
<1> QED BY <1>3, <1>5 DEF e, a

\* cache.Get changes the order of the entries, not what is cached.
LEMMA TouchContent ==
    ASSUME NEW R, NEW c \in Seq(Numbers \X R), NEW n \in Numbers, Cached(c, n)
    PROVE  /\ Lookup(c, n) \in R
           /\ Touch(c, n) \in Seq(Numbers \X R)
           /\ Len(Touch(c, n)) = Len(c)
           /\ \A m : Cached(Touch(c, n), m) => Cached(c, m)
<1>1. DOMAIN c = 1 .. Len(c) /\ Len(c) \in Nat
    BY LenProperties
<1>2. Lookup(c, n) \in R
    <2>1. Position(c, n) \in 1 .. Len(c)
        BY <1>1 DEF Cached, Position
    <2>2. c[Position(c, n)] \in Numbers \X R
        BY <2>1, ElementOfSeq
    <2> QED BY <2>2 DEF Lookup
<1>3. /\ Without(c, n) \in Seq(Numbers \X R) /\ Len(Without(c, n)) = Len(c) - 1
      /\ \A m : Cached(Without(c, n), m) => Cached(c, m)
    BY WithoutContent
<1>4. /\ Touch(c, n) \in Seq(Numbers \X R)
      /\ Len(Touch(c, n)) = Len(Without(c, n)) + 1
      /\ \A m : Cached(Touch(c, n), m) => m = n \/ Cached(Without(c, n), m)
    BY <1>2, <1>3, AppendCached DEF Touch
<1> QED BY <1>1, <1>2, <1>3, <1>4

\* cache.Add never exceeds the size, and adds its own number only.
LEMMA InsertContent ==
    ASSUME NEW R, NEW c \in Seq(Numbers \X R), Len(c) <= CacheSize,
           NEW n \in Numbers, NEW r \in R
    PROVE  /\ Insert(c, n, r) \in Seq(Numbers \X R)
           /\ Len(Insert(c, n, r)) <= CacheSize
           /\ \A m : Cached(Insert(c, n, r), m) => m = n \/ Cached(c, m)
<1> DEFINE a == Append(Without(c, n), <<n, r>>)
<1>1. Len(c) \in Nat /\ CacheSize \in Nat \ {0}
    BY LenProperties, CacheSizeAssumption
<1>2. /\ Without(c, n) \in Seq(Numbers \X R) /\ Len(Without(c, n)) <= Len(c)
      /\ \A m : Cached(Without(c, n), m) => Cached(c, m)
    BY WithoutContent
<1>3. /\ a \in Seq(Numbers \X R) /\ Len(a) = Len(Without(c, n)) + 1
      /\ \A m : Cached(a, m) => m = n \/ Cached(Without(c, n), m)
    BY <1>2, AppendCached
<1>4. Len(Without(c, n)) \in Nat
    BY <1>2, LenProperties
<1>5. Insert(c, n, r) = IF Len(a) > CacheSize THEN Tail(a) ELSE a
    BY DEF Insert
<1> HIDE DEF a
<1>6. CASE Len(a) > CacheSize
    <2>1. a # <<>> /\ Len(a) \in Nat
        BY <1>3, <1>4, EmptySeq
    <2>2. /\ Tail(a) \in Seq(Numbers \X R) /\ Len(Tail(a)) = Len(a) - 1
          /\ \A i \in 1 .. Len(Tail(a)) : Tail(a)[i] = a[i + 1]
        BY <1>3, <2>1, HeadTailProperties
    <2>3. DOMAIN Tail(a) = 1 .. Len(a) - 1 /\ DOMAIN a = 1 .. Len(a)
        BY <1>3, <2>2, LenProperties
    <2>4. ASSUME NEW m, Cached(Tail(a), m)
          PROVE  Cached(a, m)
        <3>1. PICK i \in 1 .. Len(a) - 1 : Tail(a)[i][1] = m
            BY <2>3, <2>4 DEF Cached
        <3>2. i + 1 \in 1 .. Len(a) /\ a[i + 1][1] = m
            BY <2>1, <2>2, <3>1
        <3> QED BY <2>3, <3>2 DEF Cached
    <2> QED BY <1>1, <1>2, <1>3, <1>4, <1>5, <1>6, <2>2, <2>4
<1>7. CASE ~(Len(a) > CacheSize)
    BY <1>1, <1>2, <1>3, <1>4, <1>5, <1>7
<1> QED BY <1>6, <1>7

-----------------------------------------------------------------------------
(* The invariant.                                                          *)

\* The longest attempt exists, and no attempt of a call is longer.
LEMMA LongestAttemptFact ==
    LongestAttempt \in Nat /\ \A d \in Durations : d \in Nat /\ d <= LongestAttempt
BY BlockFetcherAssumption DEF LongestAttempt

\* The invariant without the part about time, which is proved apart from it.
SharingInv == TypeOK /\ OneExecutionPerNumber /\ NeverRefetched /\ ExecutionsFollowGroup

\* Do joins an execution or starts the only one.
LEMMA DoKeepsSharing ==
    ASSUME SharingInv, NEW c \in Callers, NEW n \in Numbers, Do(c, n)
    PROVE  SharingInv'
<1> USE DEF SharingInv
<1>1. TypeOK'
    BY DEF Do, Goto, TypeOK, Executing
<1>2. /\ num'[c] = n /\ pc[c] = "idle"
      /\ \A d \in Callers \ {c} : pc'[d] = pc[d] /\ num'[d] = num[d]
      /\ cache' = cache
    BY DEF Do, Goto, TypeOK
<1>3. \/ n \in calls /\ calls' = calls /\ pc'[c] = "wait"
      \/ n \notin calls /\ calls' = calls \cup {n} /\ pc'[c] = "check"
    BY DEF Do, Goto, TypeOK
<1>4. "idle" \notin Executing /\ "wait" \notin Executing /\ "check" \in Executing
    BY DEF Executing
<1>5. ASSUME NEW m \in calls'
      PROVE  \E d \in Callers : pc'[d] \in Executing /\ num'[d] = m
    <2>1. CASE m \in calls
        <3>1. PICK d \in Callers : pc[d] \in Executing /\ num[d] = m
            BY <2>1 DEF ExecutionsFollowGroup
        <3>2. d # c
            BY <1>2, <1>4, <3>1
        <3> QED BY <1>2, <3>1, <3>2
    <2>2. CASE m \notin calls
        BY <1>2, <1>3, <1>4, <1>5, <2>2
    <2> QED BY <2>1, <2>2
<1>6. \A d \in Callers : pc'[d] \in Executing => num'[d] \in calls'
    BY <1>2, <1>3, <1>4 DEF ExecutionsFollowGroup
<1>7. \A w \in Callers : pc'[w] = "wait" => num'[w] \in calls'
    BY <1>2, <1>3 DEF ExecutionsFollowGroup
<1>8. ExecutionsFollowGroup'
    BY <1>5, <1>6, <1>7 DEF ExecutionsFollowGroup
<1>9. OneExecutionPerNumber'
    <2>1. ASSUME NEW d \in Callers, NEW e \in Callers,
                 pc'[d] \in Executing, pc'[e] \in Executing, num'[d] = num'[e]
          PROVE  d = e
        <3>1. CASE d # c /\ e # c
            BY <1>2, <2>1, <3>1 DEF OneExecutionPerNumber
        <3>2. CASE d = c \/ e = c
            BY <1>2, <1>3, <1>4, <2>1, <3>2 DEF ExecutionsFollowGroup
        <3> QED BY <3>1, <3>2
    <2>2. \A w \in Callers :
            pc'[w] = "wait" => \E d \in Callers : pc'[d] \in Executing /\ num'[d] = num'[w]
        BY <1>5, <1>7
    <2> QED BY <2>1, <2>2 DEF OneExecutionPerNumber
<1>10. NeverRefetched'
    BY <1>2, <1>3 DEF NeverRefetched
<1> QED BY <1>1, <1>8, <1>9, <1>10

\* While an execution goes from one of its steps to another, the group and those
\* who wait are as before.
LEMMA ExecutionGoesOn ==
    ASSUME SharingInv, NEW c \in Callers, pc[c] \in Executing,
           NEW label \in Executing, Goto(c, label), UNCHANGED <<num, calls>>
    PROVE  /\ pc' \in [Callers -> Executing \cup {"idle", "wait"}]
           /\ pc'[c] = label /\ \A d \in Callers \ {c} : pc'[d] = pc[d]
           /\ OneExecutionPerNumber' /\ ExecutionsFollowGroup'
<1> USE DEF SharingInv
<1>1. /\ pc' \in [Callers -> Executing \cup {"idle", "wait"}]
      /\ pc'[c] = label /\ \A d \in Callers \ {c} : pc'[d] = pc[d]
    BY DEF Goto, TypeOK
<1>2. /\ \A d \in Callers : pc'[d] \in Executing <=> pc[d] \in Executing
      /\ \A d \in Callers : pc'[d] = "wait" => pc[d] = "wait"
    BY <1>1 DEF Executing
<1>3. OneExecutionPerNumber'
    BY <1>2 DEF OneExecutionPerNumber
<1>4. ExecutionsFollowGroup'
    BY <1>2 DEF ExecutionsFollowGroup
<1> QED BY <1>1, <1>3, <1>4

\* A lookup that finds the block ends without an attempt, and an attempt follows
\* only on one that does not.
LEMMA CheckCacheKeepsSharing ==
    ASSUME SharingInv, NEW c \in Callers, CheckCache(c)
    PROVE  SharingInv'
<1> USE DEF SharingInv
<1>1. /\ pc[c] = "check" /\ num[c] \in Numbers /\ UNCHANGED <<num, calls, branch>>
      /\ cache \in Seq(Numbers \X Branches) /\ Len(cache) <= CacheSize
    BY DEF CheckCache, TypeOK
<1>2. "check" \in Executing /\ "done" \in Executing /\ "attempt" \in Executing
    BY DEF Executing
<1>3. CASE Cached(cache, num[c])
    <2>1. /\ Goto(c, "done") /\ UNCHANGED <<elapsed, delay>>
          /\ result' = [result EXCEPT ![c] = Lookup(cache, num[c])]
          /\ cache' = Touch(cache, num[c])
        BY <1>3 DEF CheckCache
    <2>2. Lookup(cache, num[c]) \in Branches
        BY <1>1, <1>3, TouchContent
    <2>3. cache' \in Seq(Numbers \X Branches)
        BY <1>1, <1>3, <2>1, TouchContent
    <2>4. Len(cache') = Len(cache)
        BY <1>1, <1>3, <2>1, TouchContent
    <2>5. \A m : Cached(cache', m) => Cached(cache, m)
        BY <1>1, <1>3, <2>1, TouchContent
    <2>6. /\ pc' \in [Callers -> Executing \cup {"idle", "wait"}]
          /\ pc'[c] = "done" /\ \A d \in Callers \ {c} : pc'[d] = pc[d]
          /\ OneExecutionPerNumber' /\ ExecutionsFollowGroup'
        BY <1>1, <1>2, <2>1, ExecutionGoesOn
    <2>7. TypeOK'
        BY <1>1, <2>1, <2>2, <2>3, <2>4, <2>6 DEF TypeOK
    <2>8. NeverRefetched'
        BY <1>1, <2>5, <2>6 DEF NeverRefetched
    <2> QED BY <2>6, <2>7, <2>8
<1>4. CASE ~Cached(cache, num[c])
    <2>1. /\ Goto(c, "attempt") /\ UNCHANGED <<result, cache>>
          /\ elapsed' = [elapsed EXCEPT ![c] = 0]
          /\ delay' = [delay EXCEPT ![c] = InitialDelay]
        BY <1>4 DEF CheckCache
    <2>2. /\ pc' \in [Callers -> Executing \cup {"idle", "wait"}]
          /\ pc'[c] = "attempt" /\ \A d \in Callers \ {c} : pc'[d] = pc[d]
          /\ OneExecutionPerNumber' /\ ExecutionsFollowGroup'
        BY <1>1, <1>2, <2>1, ExecutionGoesOn
    <2>3. TypeOK'
        BY <1>1, <2>1, <2>2, BlockFetcherAssumption DEF TypeOK
    <2>4. NeverRefetched'
        BY <1>1, <1>4, <2>1, <2>2 DEF NeverRefetched
    <2> QED BY <2>2, <2>3, <2>4
<1> QED BY <1>3, <1>4

\* An attempt, whatever its end, and a pause leave the cache alone.
LEMMA AttemptKeepsSharing ==
    ASSUME SharingInv, NEW c \in Callers, NEW d \in Durations,
           AttemptSucceeds(c, d) \/ AttemptFails(c, d) \/ Sleep(c)
    PROVE  SharingInv'
<1> USE DEF SharingInv
<1>1. /\ pc[c] \in {"attempt", "sleep"}
      /\ UNCHANGED <<num, calls, cache, branch>>
    BY DEF AttemptSucceeds, AttemptFails, Sleep
<1>2. /\ {"attempt", "sleep", "store", "done"} \subseteq Executing
      /\ pc[c] \in Executing
    BY <1>1 DEF Executing
<1>3. PICK label \in {"attempt", "sleep", "store", "done"} : Goto(c, label)
    BY DEF AttemptSucceeds, AttemptFails, Sleep
<1>4. /\ pc' \in [Callers -> Executing \cup {"idle", "wait"}]
      /\ pc'[c] = label /\ \A e \in Callers \ {c} : pc'[e] = pc[e]
      /\ OneExecutionPerNumber' /\ ExecutionsFollowGroup'
    BY <1>1, <1>2, <1>3, ExecutionGoesOn
<1>5. /\ elapsed' \in [Callers -> Nat] /\ delay' \in [Callers -> Nat]
      /\ result' \in [Callers -> Branches \cup {Failed}]
    <2>1. d \in Nat /\ MaxDelay \in Nat
        BY LongestAttemptFact, BlockFetcherAssumption
    <2>2. CASE AttemptSucceeds(c, d)
        BY <2>1, <2>2 DEF AttemptSucceeds, TypeOK
    <2>3. CASE AttemptFails(c, d)
        <3>1. /\ elapsed' = [elapsed EXCEPT ![c] = @ + d] /\ delay' = delay
              /\ result' = [result EXCEPT ![c] = Failed] \/ result' = result
            BY <2>3 DEF AttemptFails
        <3>2. elapsed' \in [Callers -> Nat]
            BY <2>1, <3>1 DEF TypeOK
        <3>3. result' \in [Callers -> Branches \cup {Failed}]
            BY <3>1 DEF TypeOK
        <3> QED BY <3>1, <3>2, <3>3 DEF TypeOK
    <2>4. CASE Sleep(c)
        BY <2>1, <2>4 DEF Sleep, TypeOK
    <2> QED BY <2>2, <2>3, <2>4
<1>6. TypeOK'
    BY <1>1, <1>4, <1>5 DEF TypeOK
<1>7. NeverRefetched'
    BY <1>1, <1>4 DEF NeverRefetched
<1> QED BY <1>4, <1>6, <1>7

\* The answer is stored before the execution ends, and for a number that no other
\* execution is about to ask for.
LEMMA StoreKeepsSharing ==
    ASSUME SharingInv, NEW c \in Callers, Store(c), result[c] \in Branches
    PROVE  SharingInv'
<1> USE DEF SharingInv
<1>1. /\ pc[c] = "store" /\ num[c] \in Numbers
      /\ UNCHANGED <<num, elapsed, delay, result, calls, branch>>
      /\ Goto(c, "done") /\ cache' = Insert(cache, num[c], result[c])
      /\ cache \in Seq(Numbers \X Branches) /\ Len(cache) <= CacheSize
    BY DEF Store, TypeOK
<1>2. "store" \in Executing /\ "done" \in Executing
    BY DEF Executing
<1>3. cache' \in Seq(Numbers \X Branches)
    BY <1>1, InsertContent
<1>4. Len(cache') <= CacheSize
    BY <1>1, InsertContent
<1>5. \A m : Cached(cache', m) => m = num[c] \/ Cached(cache, m)
    BY <1>1, InsertContent
<1>6. /\ pc' \in [Callers -> Executing \cup {"idle", "wait"}]
      /\ pc'[c] = "done" /\ \A d \in Callers \ {c} : pc'[d] = pc[d]
      /\ OneExecutionPerNumber' /\ ExecutionsFollowGroup'
    BY <1>1, <1>2, ExecutionGoesOn
<1>7. TypeOK'
    BY <1>1, <1>3, <1>4, <1>6 DEF TypeOK
<1>8. NeverRefetched'
    <2> SUFFICES ASSUME NEW d \in Callers, pc'[d] \in {"attempt", "sleep", "store"}
                 PROVE  ~Cached(cache', num'[d])
        BY DEF NeverRefetched
    <2>1. d # c /\ pc[d] = pc'[d] /\ num'[d] = num[d]
        BY <1>1, <1>6
    <2>2. pc[d] \in Executing
        BY <2>1 DEF Executing
    <2>3. num[d] # num[c]
        BY <1>1, <1>2, <2>1, <2>2 DEF OneExecutionPerNumber
    <2>4. ~Cached(cache, num[d])
        BY <2>1 DEF NeverRefetched
    <2> QED BY <1>5, <2>1, <2>3, <2>4
<1> QED BY <1>6, <1>7, <1>8

\* The execution ends for its caller and for all who wait for it, and for no other.
LEMMA FinishKeepsSharing ==
    ASSUME SharingInv, NEW c \in Callers, Finish(c)
    PROVE  SharingInv'
<1> USE DEF SharingInv
<1>1. /\ pc[c] = "done" /\ calls' = calls \ {num[c]} /\ UNCHANGED <<num, cache, branch>>
      /\ pc' = [w \in Callers |->
                IF w = c \/ (pc[w] = "wait" /\ num[w] = num[c]) THEN "idle" ELSE pc[w]]
    BY DEF Finish
<1>2. "done" \in Executing /\ "idle" \notin Executing /\ "wait" \notin Executing
    BY DEF Executing
<1>3. TypeOK'
    BY BlockFetcherAssumption DEF Finish, TypeOK
<1>4. \A w \in Callers : pc'[w] = "idle" \/ (w # c /\ pc'[w] = pc[w])
    BY <1>1
<1>5. \A d \in Callers : pc[d] \in Executing /\ d # c => pc'[d] = pc[d] /\ num[d] # num[c]
    BY <1>1, <1>2 DEF OneExecutionPerNumber
<1>6. ASSUME NEW m \in calls'
      PROVE  \E d \in Callers : pc'[d] \in Executing /\ num'[d] = m
    <2>1. m \in calls /\ m # num[c]
        BY <1>1, <1>6
    <2>2. PICK d \in Callers : pc[d] \in Executing /\ num[d] = m
        BY <2>1 DEF ExecutionsFollowGroup
    <2> QED BY <1>1, <1>5, <2>1, <2>2
<1>7. \A d \in Callers : pc'[d] \in Executing => num'[d] \in calls'
    BY <1>1, <1>2, <1>4, <1>5 DEF ExecutionsFollowGroup
<1>8. \A w \in Callers : pc'[w] = "wait" => num'[w] \in calls'
    BY <1>1 DEF ExecutionsFollowGroup
<1>9. ExecutionsFollowGroup'
    BY <1>6, <1>7, <1>8 DEF ExecutionsFollowGroup
<1>10. OneExecutionPerNumber'
    <2>1. ASSUME NEW d \in Callers, NEW e \in Callers,
                 pc'[d] \in Executing, pc'[e] \in Executing, num'[d] = num'[e]
          PROVE  d = e
        BY <1>1, <1>2, <1>4, <2>1 DEF OneExecutionPerNumber
    <2>2. \A w \in Callers :
            pc'[w] = "wait" => \E d \in Callers : pc'[d] \in Executing /\ num'[d] = num'[w]
        BY <1>6, <1>8
    <2> QED BY <2>1, <2>2 DEF OneExecutionPerNumber
<1>11. NeverRefetched'
    BY <1>1, <1>4 DEF NeverRefetched
<1> QED BY <1>3, <1>9, <1>10, <1>11

-----------------------------------------------------------------------------
(* Time.                                                                   *)

TimeInv == BoundedWait /\ RetryInTime

\* A caller whose own state stays as it is keeps its bounds.
LEMMA OthersKeepTime ==
    ASSUME TimeInv, NEW c \in Callers,
           pc'[c] = pc[c], elapsed'[c] = elapsed[c], delay'[c] = delay[c], result'[c] = result[c]
    PROVE  /\ delay'[c] <= MaxDelay
           /\ pc'[c] \in {"idle", "wait", "check"} => elapsed'[c] = 0
           /\ pc'[c] = "attempt" => elapsed'[c] <= MaxWait + MaxDelay
           /\ pc'[c] = "sleep" => elapsed'[c] <= MaxWait
           /\ pc'[c] = "store" => /\ elapsed'[c] <= MaxWait + MaxDelay + LongestAttempt
                                 /\ result'[c] \in Branches
           /\ pc'[c] = "done" => elapsed'[c] <= MaxWait + MaxDelay + LongestAttempt
BY DEF TimeInv, BoundedWait, RetryInTime

\* One pause after maxWaitTime at the latest starts the last attempt: every step
\* of a call keeps its clock below that.
LEMMA StepKeepsTime ==
    ASSUME TypeOK, TimeInv, NEW c \in Callers,
           Step(c) \/ \E n \in Numbers : Do(c, n)
    PROVE  TimeInv'
<1> DEFINE Fine(d) ==
        /\ delay'[d] <= MaxDelay
        /\ pc'[d] \in {"idle", "wait", "check"} => elapsed'[d] = 0
        /\ pc'[d] = "attempt" => elapsed'[d] <= MaxWait + MaxDelay
        /\ pc'[d] = "sleep" => elapsed'[d] <= MaxWait
        /\ pc'[d] = "store" => /\ elapsed'[d] <= MaxWait + MaxDelay + LongestAttempt
                              /\ result'[d] \in Branches
        /\ pc'[d] = "done" => elapsed'[d] <= MaxWait + MaxDelay + LongestAttempt
<1> SUFFICES ASSUME NEW d \in Callers PROVE Fine(d)
    BY DEF TimeInv, BoundedWait, RetryInTime
<1>1. /\ InitialDelay \in Nat /\ MaxDelay \in Nat /\ InitialDelay <= MaxDelay
      /\ MaxWait \in Nat /\ LongestAttempt \in Nat
      /\ \A t \in Durations : t \in Nat /\ t <= LongestAttempt
    BY LongestAttemptFact, BlockFetcherAssumption
<1>2. elapsed[c] \in Nat /\ delay[c] \in Nat /\ delay[c] <= MaxDelay
    BY DEF TypeOK, TimeInv, RetryInTime
<1> HIDE DEF Fine
<1>3. ASSUME NEW n \in Numbers, Do(c, n)
      PROVE  Fine(d)
    <2>1. UNCHANGED <<elapsed, delay, result>> /\ pc[c] = "idle"
        BY <1>3 DEF Do
    <2>2. CASE d = c
        <3>1. pc'[c] \in {"wait", "check"}
            BY <1>3 DEF Do, Goto, TypeOK
        <3> QED BY <2>1, <2>2, <3>1 DEF Fine, TimeInv, RetryInTime
    <2>3. CASE d # c
        <3>1. pc'[d] = pc[d]
            BY <1>3, <2>3 DEF Do, Goto, TypeOK
        <3> QED BY <2>1, <3>1, OthersKeepTime DEF Fine
    <2> QED BY <2>2, <2>3
<1>4. ASSUME CheckCache(c)
      PROVE  Fine(d)
    <2>1. CASE d = c
        <3>1. pc[c] = "check" /\ elapsed[c] = 0
            BY <1>4 DEF CheckCache, TimeInv, RetryInTime
        <3>2. elapsed'[c] = 0 /\ delay'[c] \in {delay[c], InitialDelay}
            BY <1>4, <3>1 DEF CheckCache, TypeOK
        <3>3. pc'[c] \in {"done", "attempt"}
            BY <1>4 DEF CheckCache, Goto, TypeOK
        <3> QED BY <1>1, <1>2, <2>1, <3>2, <3>3 DEF Fine
    <2>2. CASE d # c
        <3>1. /\ pc'[d] = pc[d] /\ elapsed'[d] = elapsed[d] /\ delay'[d] = delay[d]
              /\ result'[d] = result[d]
            BY <1>4, <2>2 DEF CheckCache, Goto, TypeOK
        <3> QED BY <3>1, OthersKeepTime DEF Fine
    <2> QED BY <2>1, <2>2
<1>5. ASSUME NEW t \in Durations, AttemptSucceeds(c, t)
      PROVE  Fine(d)
    <2>1. CASE d = c
        <3>1. pc[c] = "attempt" /\ elapsed[c] <= MaxWait + MaxDelay
            BY <1>5 DEF AttemptSucceeds, TimeInv, BoundedWait
        <3>2. /\ elapsed'[c] = elapsed[c] + t /\ delay'[c] = delay[c] /\ pc'[c] = "store"
              /\ result'[c] \in Branches
            BY <1>5 DEF AttemptSucceeds, Goto, TypeOK
        <3> QED BY <1>1, <1>2, <2>1, <3>1, <3>2 DEF Fine
    <2>2. CASE d # c
        <3>1. /\ pc'[d] = pc[d] /\ elapsed'[d] = elapsed[d] /\ delay'[d] = delay[d]
              /\ result'[d] = result[d]
            BY <1>5, <2>2 DEF AttemptSucceeds, Goto, TypeOK
        <3> QED BY <3>1, OthersKeepTime DEF Fine
    <2> QED BY <2>1, <2>2
<1>6. ASSUME NEW t \in Durations, AttemptFails(c, t)
      PROVE  Fine(d)
    <2>1. CASE d = c
        <3>1. pc[c] = "attempt" /\ elapsed[c] <= MaxWait + MaxDelay
            BY <1>6 DEF AttemptFails, TimeInv, BoundedWait
        <3>2. elapsed'[c] = elapsed[c] + t /\ delay'[c] = delay[c]
            BY <1>6 DEF AttemptFails, TypeOK
        <3>3. \/ pc'[c] = "done"
              \/ pc'[c] = "sleep" /\ ~(elapsed'[c] > MaxWait)
            BY <1>6 DEF AttemptFails, Goto, TypeOK
        <3> QED BY <1>1, <1>2, <2>1, <3>1, <3>2, <3>3 DEF Fine
    <2>2. CASE d # c
        <3>1. /\ pc'[d] = pc[d] /\ elapsed'[d] = elapsed[d] /\ delay'[d] = delay[d]
              /\ result'[d] = result[d]
            BY <1>6, <2>2 DEF AttemptFails, Goto, TypeOK
        <3> QED BY <3>1, OthersKeepTime DEF Fine
    <2> QED BY <2>1, <2>2
<1>7. ASSUME Sleep(c)
      PROVE  Fine(d)
    <2>1. CASE d = c
        <3>1. pc[c] = "sleep" /\ elapsed[c] <= MaxWait
            BY <1>7 DEF Sleep, TimeInv, RetryInTime
        <3>2. elapsed'[c] = elapsed[c] + delay[c] /\ pc'[c] = "attempt"
            BY <1>7 DEF Sleep, Goto, TypeOK
        <3>3. delay'[c] = IF delay[c] * 10 > MaxDelay THEN MaxDelay ELSE delay[c] * 10
            BY <1>7 DEF Sleep, TypeOK
        <3>4. delay'[c] <= MaxDelay
            BY <1>1, <1>2, <3>3
        <3> QED BY <1>1, <1>2, <2>1, <3>1, <3>2, <3>4 DEF Fine
    <2>2. CASE d # c
        <3>1. /\ pc'[d] = pc[d] /\ elapsed'[d] = elapsed[d] /\ delay'[d] = delay[d]
              /\ result'[d] = result[d]
            BY <1>7, <2>2 DEF Sleep, Goto, TypeOK
        <3> QED BY <3>1, OthersKeepTime DEF Fine
    <2> QED BY <2>1, <2>2
<1>8. ASSUME Store(c)
      PROVE  Fine(d)
    <2>1. UNCHANGED <<elapsed, delay, result>> /\ pc[c] = "store"
        BY <1>8 DEF Store
    <2>2. CASE d = c
        <3>1. pc'[c] = "done"
            BY <1>8 DEF Store, Goto, TypeOK
        <3> QED BY <2>1, <2>2, <3>1 DEF Fine, TimeInv, RetryInTime
    <2>3. CASE d # c
        <3>1. pc'[d] = pc[d]
            BY <1>8, <2>3 DEF Store, Goto, TypeOK
        <3> QED BY <2>1, <3>1, OthersKeepTime DEF Fine
    <2> QED BY <2>2, <2>3
<1>9. ASSUME Finish(c)
      PROVE  Fine(d)
    <2>1. CASE d = c
        <3>1. pc'[c] = "idle" /\ elapsed'[c] = 0 /\ delay'[c] = InitialDelay
            BY <1>9 DEF Finish, TypeOK
        <3> QED BY <1>1, <2>1, <3>1 DEF Fine
    <2>2. CASE d # c
        <3>1. /\ elapsed'[d] = elapsed[d] /\ delay'[d] = delay[d] /\ result'[d] = result[d]
              /\ pc'[d] = pc[d] \/ (pc[d] = "wait" /\ pc'[d] = "idle")
            BY <1>9, <2>2 DEF Finish, TypeOK
        <3>2. CASE pc'[d] = pc[d]
            BY <3>1, <3>2, OthersKeepTime DEF Fine
        <3>3. CASE pc[d] = "wait" /\ pc'[d] = "idle"
            BY <3>1, <3>3 DEF Fine, TimeInv, RetryInTime
        <3> QED BY <3>1, <3>2, <3>3
    <2> QED BY <2>1, <2>2
<1> QED BY <1>3, <1>4, <1>5, <1>6, <1>7, <1>8, <1>9 DEF Step
-----------------------------------------------------------------------------
(* Theorems.                                                               *)

\* The invariant holds in every reachable state of FetchBlock's callers.
THEOREM FetcherInvariance == Spec => []IndInv
<1>1. Init => IndInv
    <2> SUFFICES ASSUME Init PROVE IndInv
        OBVIOUS
    <2> USE BlockFetcherAssumption DEF Init
    <2>1. TypeOK
        <3>1. cache \in Seq(Numbers \X Branches) /\ Len(cache) <= CacheSize
            BY CacheSizeAssumption
        <3>2. branch \in Branches
            BY DEF Branches
        <3> QED BY <3>1, <3>2 DEF TypeOK
    <2>2. OneExecutionPerNumber /\ NeverRefetched /\ ExecutionsFollowGroup
        BY DEF OneExecutionPerNumber, NeverRefetched, ExecutionsFollowGroup, Executing
    <2>3. BoundedWait /\ RetryInTime
        BY DEF BoundedWait, RetryInTime
    <2> QED BY <2>1, <2>2, <2>3 DEF IndInv
<1>2. IndInv /\ [Next]_vars => IndInv'
    <2> SUFFICES ASSUME IndInv, [Next]_vars PROVE IndInv'
        OBVIOUS
    <2>1. SharingInv /\ TimeInv
        BY DEF IndInv, SharingInv, TimeInv
    <2>2. ASSUME NEW c \in Callers, Step(c) \/ \E n \in Numbers : Do(c, n)
          PROVE  IndInv'
        <3>1. TimeInv'
            BY <2>1, <2>2, StepKeepsTime DEF SharingInv
        <3>2. SharingInv'
            <4>1. CASE Store(c)
                <5>1. result[c] \in Branches
                    BY <2>1, <4>1 DEF Store, TimeInv, RetryInTime
                <5> QED BY <2>1, <4>1, <5>1, StoreKeepsSharing
            <4>2. PICK d : d \in Durations
                BY BlockFetcherAssumption
            <4>3. CASE Sleep(c)
                BY <2>1, <4>2, <4>3, AttemptKeepsSharing
            <4> QED BY <2>1, <2>2, <4>1, <4>3, DoKeepsSharing, CheckCacheKeepsSharing,
                       AttemptKeepsSharing, FinishKeepsSharing DEF Step
        <3> QED BY <3>1, <3>2 DEF SharingInv, TimeInv, IndInv
    <2>3. CASE Reorganise
        <3>1. UNCHANGED <<pc, num, elapsed, delay, result, calls, cache>>
            BY <2>3 DEF Reorganise, callerVars
        <3>2. branch' \in Branches
            BY <2>1, <2>3, BlockFetcherAssumption
            DEF Reorganise, Branches, SharingInv, TypeOK
        <3>3. TypeOK'
            BY <2>1, <3>1, <3>2 DEF SharingInv, TypeOK
        <3>4. /\ OneExecutionPerNumber' /\ NeverRefetched' /\ ExecutionsFollowGroup'
              /\ BoundedWait' /\ RetryInTime'
            BY <2>1, <3>1 DEF SharingInv, TimeInv, OneExecutionPerNumber, NeverRefetched,
                              ExecutionsFollowGroup, BoundedWait, RetryInTime, Cached
        <3> QED BY <3>3, <3>4 DEF IndInv
    <2>4. CASE UNCHANGED vars
        <3>1. UNCHANGED <<pc, num, elapsed, delay, result, calls, cache, branch>>
            BY <2>4 DEF vars, callerVars
        <3> QED BY <2>1, <3>1 DEF SharingInv, TimeInv, OneExecutionPerNumber, NeverRefetched,
                   ExecutionsFollowGroup, BoundedWait, RetryInTime, Cached, TypeOK, IndInv
    <2> QED BY <2>2, <2>3, <2>4 DEF Next
<1> QED BY <1>1, <1>2, PTL DEF Spec

\* The singleflight group of FetchBlock: one execution per number, and no caller
\* waits for an execution that is not there.
THEOREM OneExecution == Spec => []OneExecutionPerNumber
<1>1. IndInv => OneExecutionPerNumber
    BY DEF IndInv
<1> QED BY <1>1, FetcherInvariance, PTL

\* The node is never asked for a block that is in the cache (the comment "inside
\* singleflight to prevent race" in FetchBlock), whatever the cache's size.
THEOREM CacheConsulted == Spec => []NeverRefetched
<1>1. IndInv => NeverRefetched
    BY DEF IndInv
<1> QED BY <1>1, FetcherInvariance, PTL

\* RetryIncreasing ends in bounded time, whatever its three settings are.
THEOREM RetryBounded == Spec => []BoundedWait
<1>1. IndInv => BoundedWait
    BY DEF IndInv
<1> QED BY <1>1, FetcherInvariance, PTL
=============================================================================
