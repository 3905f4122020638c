----------------------------- MODULE BlockTree -----------------------------
(***************************************************************************)
(* The blocks a thor node knows, as the code in src/ uses them: each block *)
(* but the genesis block names its parent and has a number one above its   *)
(* parent's, and the node's answer to a request by number is the ancestor  *)
(* of its best block at that height.                                       *)
(***************************************************************************)
EXTENDS Naturals

CONSTANTS
    Blocks,         \* the block identifiers
    Genesis,        \* the genesis block
    Parent,         \* Parent[b]: the ParentID of block b
    Num             \* Num[b]: the Number of block b

ASSUME TreeAssumption ==
    /\ Genesis \in Blocks
    /\ Parent \in [Blocks \ {Genesis} -> Blocks]
    /\ Num \in [Blocks -> Nat]
    /\ Num[Genesis] = 0
    /\ \A b \in Blocks \ {Genesis} : Num[b] = Num[Parent[b]] + 1

\* The block and its ancestors.
Ancestors[b \in Blocks] == IF b = Genesis THEN {b} ELSE {b} \cup Ancestors[Parent[b]]

\* A block of height n exists on the branch of b.
HasHeight(b, n) == n <= Num[b]

\* The block of height n on the branch of b.
AtHeight(b, n) == CHOOSE a \in Ancestors[b] : Num[a] = n
=============================================================================
