------------------------------ MODULE MCStats ------------------------------
(***************************************************************************)
(* The statistics.  A behaviour shows either the chain, block by block,    *)
(* with what the handlers pos, slots and authority make of its proposers,  *)
(* or the workers' calls of the handlers that keep state: the two share no *)
(* variable, and the one that is not shown stays in its first state.       *)
(***************************************************************************)
EXTENDS Handlers, StakerStats

CONSTANTS v1, v2, v3, a1, a2

VARIABLE shown

MCAuthorityNodes == <<a1, a2>>

\* Distinct, irregular draws.
MCDraw(seed, n, i) == 1 + ((7 * seed + 5 * n * n + 3 * i * (n + 1)) % 11)
\* Either node comes first, by the parity of the number.
MCHash(seed, n, a) == IF a = a1 THEN 1 ELSE 2 * (n % 2)

ChainShown ==
    /\ shown = "chain" /\ Init
    /\ HandlersInit /\ handler = "price" /\ kind = [b \in BlockNums |-> "quiet"]
CallsShown == shown = "calls" /\ HandlersInit /\ Init

StatsInit == ChainShown \/ CallsShown

StatsNext ==
    \/ shown = "chain" /\ Next /\ UNCHANGED <<handlersVars, shown>>
    \/ shown = "calls" /\ HandlersNext /\ UNCHANGED <<vars, shown>>

\* The fairness of Handlers, whose calls are enabled only where they are shown.
StatsSpec == StatsInit /\ [][StatsNext]_<<handlersVars, vars, shown>>
FairStatsSpec == StatsSpec /\ Fairness
=============================================================================
