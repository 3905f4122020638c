------------------------------ MODULE Handlers ------------------------------
(***************************************************************************)
(* The handlers that keep state of their own between the calls the pool's  *)
(* workers make (the rest of pos is in StakerStats): the authority list    *)
(* and the prices.  They share nothing but the workers, so a behaviour     *)
(* shows the calls of one of them.                                         *)
(***************************************************************************)
EXTENDS AuthorityList, PriceAPI

ASSUME HandlersAssumption == Callers = Workers  \* the pool runs both

VARIABLE handler    \* the handler whose calls the behaviour shows

handlersVars == <<authVars, priceVars, handler>>

HandlersInit ==
    /\ AuthorityInit
    /\ PriceInit
    /\ handler \in {"authority", "price"}

CallStep(w) ==
    /\ UNCHANGED handler
    /\ \/ handler = "authority" /\ AuthorityStep(w) /\ UNCHANGED priceVars
       \/ handler = "price" /\ PriceStep(w) /\ UNCHANGED authVars

NewCall(w) ==
    /\ UNCHANGED handler
    /\ \/ handler = "authority" /\ (\E b \in BlockNums : WriteStart(w, b)) /\ UNCHANGED priceVars
       \/ handler = "price" /\ PriceStart(w) /\ UNCHANGED authVars

HandlersNext ==
    \/ \E w \in Workers : CallStep(w) \/ NewCall(w)
    \/ handler = "authority" /\ AbortOnMap /\ UNCHANGED <<priceVars, handler>>
    \/ handler = "price" /\ Tick /\ UNCHANGED <<authVars, handler>>

\* A call goes on: its requests return, with an answer or an error, and Go's
\* mutex does not pass over a goroutine that waits for it for ever.
Fairness ==
    \A w \in Workers :
        /\ WF_handlersVars(CallStep(w))
        /\ SF_handlersVars(PriceLock(w) /\ UNCHANGED <<authVars, handler>>)

HandlersSpec == HandlersInit /\ [][HandlersNext]_handlersVars
FairSpec == HandlersSpec /\ Fairness
-----------------------------------------------------------------------------
\* Every call of a handler returns, on every path of requests that fail and
\* whoever holds the mutex, as the pool and the subscriber assume of it; but for a
\* call of List.Write that was given a Prev with the time of the block (see
\* DetailedSlotsBounded), and such a call does not keep others from returning.
HandlerReturns ==
    \A w \in Workers :
        (auth[w] # "idle" \/ price[w] # "idle") ~>
            (aborted \/ auth[w] = "endless" \/ (auth[w] = "idle" /\ price[w] = "idle"))
=============================================================================
