------------------------------ MODULE PriceAPI ------------------------------
(***************************************************************************)
(* stats/priceapi/priceapi.go: the handler that fetches the prices, at     *)
(* most once in five minutes.  One PriceAPI serves all calls of Write,     *)
(* which the workers of the pool make at the same time; a mutex is held    *)
(* over the check of the last update, two requests to the node, a delete   *)
(* in the database and the update.                                         *)
(***************************************************************************)
EXTENDS Integers, Sequences, FiniteSets

CONSTANTS
    Callers,        \* the goroutines that call Write
    Interval,       \* five minutes
    Keep,           \* twenty minutes: what the delete spares
    MaxTime         \* bound: how long the clock runs

ASSUME PriceAssumption == Interval \in Nat \ {0} /\ Keep \in Nat /\ MaxTime \in Nat

VARIABLES
    now,            \* the clock
    mu,             \* p.mu: the worker that holds it, as a set of at most one
    lastUpdate,     \* p.lastUpdate
    price,          \* price[w]: where the call of worker w is
    prices          \* times of the points in the database, oldest first

priceVars == <<now, mu, lastUpdate, price, prices>>

\* The zero time of a new PriceAPI is longer ago than the interval.
PriceInit ==
    /\ now = 0
    /\ mu = {}
    /\ lastUpdate = -Interval
    /\ price = [w \in Callers |-> "idle"]
    /\ prices = <<>>

Goto(w, state) == price' = [price EXCEPT ![w] = state]

PriceStart(w) ==
    /\ price[w] = "idle"
    /\ Goto(w, "lock")
    /\ UNCHANGED <<now, mu, lastUpdate, prices>>

\* Variant of PriceLock: there is no mutex.
PriceLockFree(w) ==
    /\ price[w] = "lock"
    /\ Goto(w, IF now - lastUpdate < Interval THEN "return" ELSE "vet")
    /\ UNCHANGED <<now, mu, lastUpdate, prices>>

\* The mutex is free: it is taken and the time since the last update checked.
PriceLock(w) ==
    /\ price[w] = "lock"
    /\ mu = {}
    /\ mu' = {w}
    /\ Goto(w, IF now - lastUpdate < Interval THEN "return" ELSE "vet")
    /\ UNCHANGED <<now, lastUpdate, prices>>

\* Variant of FetchPrice: the mutex is not released when a request fails.
FetchPriceKeepsLock(w) ==
    /\ \/ price[w] = "vet" /\ Goto(w, "vtho")
       \/ price[w] = "vtho" /\ Goto(w, "delete")
       \/ price[w] \in {"vet", "vtho"} /\ Goto(w, "idle")
    /\ UNCHANGED <<now, mu, lastUpdate, prices>>

\* The price of VET is fetched, then that of VTHO; an error ends the call.
FetchPrice(w) ==
    /\ \/ price[w] = "vet" /\ Goto(w, "vtho")
       \/ price[w] = "vtho" /\ Goto(w, "delete")
       \/ price[w] \in {"vet", "vtho"} /\ Goto(w, "return")
    /\ UNCHANGED <<now, mu, lastUpdate, prices>>

\* Older prices, the first ones, are deleted, or the delete fails and is only
\* logged.
DeleteOld(w) ==
    /\ price[w] = "delete"
    /\ \E deleted \in {0, Cardinality({i \in DOMAIN prices : prices[i] < now - Keep})} :
        prices' = SubSeq(prices, deleted + 1, Len(prices))
    /\ Goto(w, "update")
    /\ UNCHANGED <<now, mu, lastUpdate>>

\* The point of this update is returned to the pool, which writes it.
UpdatePrice(w) ==
    /\ price[w] = "update"
    /\ lastUpdate' = now
    /\ prices' = Append(prices, now)
    /\ Goto(w, "return")
    /\ UNCHANGED <<now, mu>>

\* The deferred Unlock, on every path.
PriceReturn(w) ==
    /\ price[w] = "return"
    /\ mu' = mu \ {w}
    /\ Goto(w, "idle")
    /\ UNCHANGED <<now, lastUpdate, prices>>

Tick ==
    /\ now < MaxTime
    /\ now' = now + 1
    /\ UNCHANGED <<mu, lastUpdate, price, prices>>

PriceStep(w) ==
    \/ PriceLock(w)
    \/ FetchPrice(w)
    \/ DeleteOld(w)
    \/ UpdatePrice(w)
    \/ PriceReturn(w)
-----------------------------------------------------------------------------
\* Though several workers call Write at once and the requests in it take any
\* time, two price points are never closer than the interval.
PricesApart ==
    \A i \in 1 .. Len(prices) - 1 : prices[i + 1] - prices[i] >= Interval

\* What makes it inductive: the mutex excludes others from the check of the last
\* update up to the next one, and the last point is not later than that.
Updating == {"vet", "vtho", "delete", "update"}

PriceInv ==
    /\ now \in Nat /\ lastUpdate \in Int /\ lastUpdate <= now
    /\ price \in [Callers -> Updating \cup {"idle", "lock", "return"}]
    /\ prices \in Seq(Int)
    /\ \A w \in Callers : price[w] \in Updating \cup {"return"} => mu = {w}
    /\ \A w \in Callers : price[w] \in Updating => now - lastUpdate >= Interval
    /\ prices # <<>> => prices[Len(prices)] <= lastUpdate
    /\ PricesApart
=============================================================================
