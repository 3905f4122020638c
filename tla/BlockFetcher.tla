---------------------------- MODULE BlockFetcher ----------------------------
(***************************************************************************)
(* pubsub/block_fetcher.go, FetchBlock: the goroutines of both syncers ask *)
(* for blocks by number.  Calls for the same number share one execution (a *)
(* singleflight group), which looks in the cache, and otherwise asks the   *)
(* node, again and again with growing pauses (RetryIncreasing of           *)
(* common/retry.go), and caches the answer.                                *)
(*                                                                         *)
(* An attempt stands for the requests for the block, its seeds, its        *)
(* validators and its authority nodes: it takes some time and succeeds or  *)
(* fails as a whole.  Time is counted in units of the first pause.  The    *)
(* answer is the branch the node is on.                                    *)
(***************************************************************************)
EXTENDS BlockCache, FiniteSets

CONSTANTS
    Callers,        \* the goroutines that call FetchBlock
    Numbers,        \* the block numbers they ask for
    InitialDelay,   \* RetryIncreasing: initialDelay
    MaxDelay,       \* RetryIncreasing: maxDelay
    MaxWait,        \* RetryIncreasing: maxWaitTime
    Durations,      \* the times an attempt may take
    MaxBranch       \* bound: how often the node changes to another branch

ASSUME BlockFetcherAssumption ==
    /\ InitialDelay \in Nat \ {0} /\ MaxDelay \in Nat /\ InitialDelay <= MaxDelay
    /\ MaxWait \in Nat /\ MaxBranch \in Nat
    /\ Numbers # {}
    /\ Durations \subseteq Nat /\ \E d \in Durations : \A e \in Durations : e <= d

VARIABLES
    pc,             \* where the caller is in FetchBlock
    num,            \* the block number it asks for
    elapsed,        \* time since its call of RetryIncreasing
    delay,          \* the next pause
    result,         \* what its execution returns
    calls,          \* sf: the numbers with an execution under way
    cache,          \* b.cache
    branch          \* the node's branch

callerVars == <<pc, num, elapsed, delay, result>>
vars == <<callerVars, calls, cache, branch>>

Branches == 0 .. MaxBranch
Failed == MaxBranch + 1     \* an error instead of an answer
LongestAttempt == CHOOSE d \in Durations : \A e \in Durations : e <= d

\* The caller executes the function passed to sf.Do.
Executing == {"check", "attempt", "sleep", "store", "done"}

TypeOK ==
    /\ pc \in [Callers -> Executing \cup {"idle", "wait"}]
    /\ num \in [Callers -> Numbers]
    /\ elapsed \in [Callers -> Nat] /\ delay \in [Callers -> Nat]
    /\ result \in [Callers -> Branches \cup {Failed}]
    /\ calls \subseteq Numbers
    /\ cache \in Seq(Numbers \X Branches) /\ Len(cache) <= CacheSize
    /\ branch \in Branches

Init ==
    /\ pc = [c \in Callers |-> "idle"]
    /\ num = [c \in Callers |-> CHOOSE n \in Numbers : TRUE]
    /\ elapsed = [c \in Callers |-> 0]
    /\ delay = [c \in Callers |-> InitialDelay]
    /\ result = [c \in Callers |-> Failed]
    /\ calls = {} /\ cache = <<>> /\ branch = 0

Goto(c, label) == pc' = [pc EXCEPT ![c] = label]

\* Variant of Do: every caller executes the function.
DoAlways(c, n) ==
    /\ pc[c] = "idle"
    /\ num' = [num EXCEPT ![c] = n]
    /\ calls' = calls \cup {n} /\ Goto(c, "check")
    /\ UNCHANGED <<elapsed, delay, result, cache, branch>>

\* sf.Do: wait for the execution for this number, or start one.
Do(c, n) ==
    /\ pc[c] = "idle"
    /\ num' = [num EXCEPT ![c] = n]
    /\ IF n \in calls
       THEN Goto(c, "wait") /\ UNCHANGED calls
       ELSE Goto(c, "check") /\ calls' = calls \cup {n}
    /\ UNCHANGED <<elapsed, delay, result, cache, branch>>

\* Variant of CheckCache: the execution does not look.
CheckCacheNever(c) ==
    /\ pc[c] = "check"
    /\ Goto(c, "attempt")
    /\ elapsed' = [elapsed EXCEPT ![c] = 0]
    /\ delay' = [delay EXCEPT ![c] = InitialDelay]
    /\ UNCHANGED <<num, result, calls, cache, branch>>

\* The execution looks in the cache, and calls RetryIncreasing if it must.
CheckCache(c) ==
    /\ pc[c] = "check"
    /\ IF Cached(cache, num[c])
       THEN /\ result' = [result EXCEPT ![c] = Lookup(cache, num[c])]
            /\ cache' = Touch(cache, num[c])
            /\ Goto(c, "done")
            /\ UNCHANGED <<elapsed, delay>>
       ELSE /\ Goto(c, "attempt")
            /\ elapsed' = [elapsed EXCEPT ![c] = 0]
            /\ delay' = [delay EXCEPT ![c] = InitialDelay]
            /\ UNCHANGED <<result, cache>>
    /\ UNCHANGED <<num, calls, branch>>

\* An attempt of duration d succeeds.
AttemptSucceeds(c, d) ==
    /\ pc[c] = "attempt"
    /\ elapsed' = [elapsed EXCEPT ![c] = @ + d]
    /\ result' = [result EXCEPT ![c] = branch]
    /\ Goto(c, "store")
    /\ UNCHANGED <<num, delay, calls, cache, branch>>

\* Variant of AttemptFails: the start time is taken anew for every attempt.
AttemptFailsAnew(c, d) ==
    /\ pc[c] = "attempt"
    /\ elapsed' = [elapsed EXCEPT ![c] = d]
    /\ IF d > MaxWait
       THEN Goto(c, "done") /\ result' = [result EXCEPT ![c] = Failed]
       ELSE Goto(c, "sleep") /\ UNCHANGED result
    /\ UNCHANGED <<num, delay, calls, cache, branch>>

\* An attempt fails: give up when the time is over, otherwise pause.
AttemptFails(c, d) ==
    /\ pc[c] = "attempt"
    /\ elapsed' = [elapsed EXCEPT ![c] = @ + d]
    /\ IF elapsed'[c] > MaxWait
       THEN Goto(c, "done") /\ result' = [result EXCEPT ![c] = Failed]
       ELSE Goto(c, "sleep") /\ UNCHANGED result
    /\ UNCHANGED <<num, delay, calls, cache, branch>>

\* Variant of Sleep: the pauses are not capped.
SleepUncapped(c) ==
    /\ pc[c] = "sleep"
    /\ elapsed' = [elapsed EXCEPT ![c] = @ + delay[c]]
    /\ delay' = [delay EXCEPT ![c] = @ * 10]
    /\ Goto(c, "attempt")
    /\ UNCHANGED <<num, result, calls, cache, branch>>

\* The pause, and the next one is ten times as long, up to maxDelay.
Sleep(c) ==
    /\ pc[c] = "sleep"
    /\ elapsed' = [elapsed EXCEPT ![c] = @ + delay[c]]
    /\ delay' = [delay EXCEPT ![c] = IF @ * 10 > MaxDelay THEN MaxDelay ELSE @ * 10]
    /\ Goto(c, "attempt")
    /\ UNCHANGED <<num, result, calls, cache, branch>>

\* The answer is cached; a failure is not.
Store(c) ==
    /\ pc[c] = "store"
    /\ cache' = Insert(cache, num[c], result[c])
    /\ Goto(c, "done")
    /\ UNCHANGED <<num, elapsed, delay, result, calls, branch>>

\* sf.Do ends the execution: this caller and all that wait return its result (and
\* the execution's local variables are gone).
Finish(c) ==
    LET returning == {c} \cup {w \in Callers : pc[w] = "wait" /\ num[w] = num[c]}
    IN  /\ pc[c] = "done"
        /\ calls' = calls \ {num[c]}
        /\ pc' = [w \in Callers |-> IF w \in returning THEN "idle" ELSE pc[w]]
        /\ elapsed' = [elapsed EXCEPT ![c] = 0]
        /\ delay' = [delay EXCEPT ![c] = InitialDelay]
        /\ result' = [result EXCEPT ![c] = Failed]
        /\ UNCHANGED <<num, cache, branch>>

Step(c) ==
    \/ CheckCache(c)
    \/ \E d \in Durations : AttemptSucceeds(c, d) \/ AttemptFails(c, d)
    \/ Sleep(c)
    \/ Store(c)
    \/ Finish(c)

\* The node changes to another branch.
Reorganise ==
    /\ branch < MaxBranch
    /\ branch' = branch + 1
    /\ UNCHANGED <<callerVars, calls, cache>>

Next ==
    \/ \E c \in Callers : Step(c) \/ \E n \in Numbers : Do(c, n)
    \/ Reorganise

\* A call goes on, but the node need never answer well.
Fairness == \A c \in Callers : WF_vars(Step(c))

Spec == Init /\ [][Next]_vars
FairSpec == Spec /\ Fairness

-----------------------------------------------------------------------------
(* Properties.                                                             *)

\* However the callers interleave, a number has one execution at a time, and
\* whoever waits for a number waits for one that is under way.
OneExecutionPerNumber ==
    /\ \A c, d \in Callers :
        {pc[c], pc[d]} \subseteq Executing /\ num[c] = num[d] => c = d
    /\ \A w \in Callers :
        pc[w] = "wait" => \E c \in Callers : pc[c] \in Executing /\ num[c] = num[w]

\* The node is never asked for a block that is in the cache: the lookup "inside
\* singleflight to prevent race" and the order of cache.Add and the end of the
\* execution leave no window for it.
NeverRefetched ==
    \A c \in Callers : pc[c] \in {"attempt", "sleep", "store"} => ~Cached(cache, num[c])

\* RetryIncreasing starts no attempt later than maxWaitTime plus one pause, so
\* that a call is over one attempt after that at the latest.
BoundedWait ==
    \A c \in Callers :
        /\ pc[c] = "attempt" => elapsed[c] <= MaxWait + MaxDelay
        /\ pc[c] = "done" => elapsed[c] <= MaxWait + MaxDelay + LongestAttempt

\* What makes the three invariants above inductive: the numbers of the group are
\* those of the executions, the clock of a caller that retries nothing stands at
\* zero, and only an answer is stored.
ExecutionsFollowGroup ==
    /\ \A c \in Callers : pc[c] \in Executing => num[c] \in calls
    /\ \A n \in calls : \E c \in Callers : pc[c] \in Executing /\ num[c] = n
    /\ \A w \in Callers : pc[w] = "wait" => num[w] \in calls

RetryInTime ==
    \A c \in Callers :
        /\ delay[c] <= MaxDelay
        /\ pc[c] \in {"idle", "wait", "check"} => elapsed[c] = 0
        /\ pc[c] = "sleep" => elapsed[c] <= MaxWait
        /\ pc[c] = "store" => /\ elapsed[c] <= MaxWait + MaxDelay + LongestAttempt
                              /\ result[c] \in Branches

IndInv ==
    /\ TypeOK
    /\ OneExecutionPerNumber
    /\ NeverRefetched
    /\ BoundedWait
    /\ ExecutionsFollowGroup
    /\ RetryInTime

\* Every call returns, with a block or an error, even if the node never gives a
\* good answer and others join and leave the execution.
CallReturns == \A c \in Callers : pc[c] # "idle" ~> pc[c] = "idle"
=============================================================================
