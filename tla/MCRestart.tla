----------------------------- MODULE MCRestart -----------------------------
(***************************************************************************)
(* One start, with 3-bit integers in place of uint32 and every combination *)
(* of flags, chain and database, the values next to the wrap-around        *)
(* included; or up to three starts over one database, on a chain of a few  *)
(* blocks.  A behaviour shows one of the two, which share no variable.     *)
(***************************************************************************)
EXTENDS Startup, Restart

VARIABLE shown

OneStartShown ==
    /\ shown = "start" /\ StartupInit
    /\ Init /\ best = 1 /\ final = 0
LivesShown ==
    /\ shown = "lives" /\ Init
    /\ StartupInit /\ blocks = 0 /\ endBlock = 0 /\ finalized = 0

StartsInit == OneStartShown \/ LivesShown

StartsNext ==
    \/ shown = "start" /\ StartupNext /\ UNCHANGED <<vars, shown>>
    \/ shown = "lives" /\ Next /\ UNCHANGED <<startupVars, shown>>

StartsSpec == StartsInit /\ [][StartsNext]_<<startupVars, vars, shown>>
=============================================================================
