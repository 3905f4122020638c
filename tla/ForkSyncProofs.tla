--------------------------- MODULE ForkSyncProofs ---------------------------
(***************************************************************************)
(* Proofs about ForkHandler and ForkSync for every tree of blocks, every   *)
(* cache and channel size and any number of reorganisations.  First the    *)
(* tree of blocks: an induction from the genesis block upwards, and what   *)
(* the recursive definition of Ancestors amounts to.  Then ForkHandler.    *)
(* Then ForkSync: it is one of the environments ForkHandler is proved in,  *)
(* and what the forward syncer follows, sends and records.                 *)
(***************************************************************************)
EXTENDS ForkSync, ChannelLemmas, WellFoundedInduction

-----------------------------------------------------------------------------
(* The tree.                                                               *)

\* A set of numbers has a least element.
LEMMA LeastNumber ==
  ASSUME NEW T \in SUBSET Nat, T # {}
  PROVE  \E m \in T : \A n \in T : m <= n
<1>1. PICK R : R = OpToRel(<, Nat)
  BY Zenon
<1>2. IsWellFoundedOn(R, Nat)
  BY <1>1, NatLessThanWellFounded, Zenon
<1>3. \A x, y \in Nat : x < y => <<x, y>> \in R
  BY <1>1 DEF OpToRel
<1>4. PICK m \in T : \A n \in T : ~ (<<n, m>> \in R)
  BY <1>2, WFMin
<1>5. ASSUME NEW n \in T PROVE m <= n
  <2>1. m \in Nat /\ n \in Nat /\ ~ (n < m)
    BY <1>3, <1>4
  <2> QED
    BY <2>1
<1> QED
  BY <1>5

\* Induction: a set of blocks that contains the genesis block, and with a block's
\* parent the block, contains every block.
LEMMA TreeInduction ==
  ASSUME NEW T, Genesis \in T,
         \A b \in Blocks \ {Genesis} : Parent[b] \in T => b \in T
  PROVE  Blocks \subseteq T
<1> SUFFICES ASSUME Blocks \ T # {} PROVE FALSE
  OBVIOUS
<1> DEFINE Bad == {Num[b] : b \in Blocks \ T}
<1>1. Bad \in SUBSET Nat /\ Bad # {}
  BY TreeAssumption
<1> HIDE DEF Bad
<1>2. PICK m \in Bad : \A n \in Bad : m <= n
  BY <1>1, LeastNumber
<1>3. PICK b \in Blocks \ T : Num[b] = m
  BY <1>2 DEF Bad
<1>4. b \in Blocks \ {Genesis} /\ Parent[b] \in Blocks \ T
  BY <1>3, TreeAssumption
<1>5. Num[Parent[b]] \in Bad
  BY <1>4 DEF Bad
<1>6. m <= Num[Parent[b]]
  BY <1>2, <1>5
<1> QED
  BY <1>3, <1>4, <1>6, TreeAssumption

\* The blocks that every set contains that contains b and the parents of its
\* members: the ancestors of b without recursion.
Reached(b) ==
    {a \in Blocks : \A S \in SUBSET Blocks :
        b \in S /\ (\A x \in S : x # Genesis => Parent[x] \in S) => a \in S}

LEMMA ReachedGenesis == Reached(Genesis) = {Genesis}
<1>1. Genesis \in Reached(Genesis)
  BY TreeAssumption DEF Reached
<1>2. ASSUME NEW a \in Reached(Genesis) PROVE a = Genesis
  <2>1. {Genesis} \in SUBSET Blocks
    BY TreeAssumption
  <2> QED
    BY <1>2, <2>1 DEF Reached
<1> QED
  BY <1>1, <1>2

LEMMA ReachedParent ==
  ASSUME NEW b \in Blocks, b # Genesis
  PROVE  Reached(b) = {b} \cup Reached(Parent[b])
<1>0. Parent[b] \in Blocks
  BY TreeAssumption
<1>1. b \in Reached(b)
  BY DEF Reached
<1>2. Reached(Parent[b]) \subseteq Reached(b)
  BY DEF Reached
<1>3. ASSUME NEW a \in Reached(b), a # b PROVE a \in Reached(Parent[b])
  <2> DEFINE S == {b} \cup Reached(Parent[b])
  <2>1. S \in SUBSET Blocks
    BY DEF Reached
  <2>2. Parent[b] \in S
    BY <1>0 DEF Reached
  <2>3. \A x \in Reached(Parent[b]) : x # Genesis => Parent[x] \in Reached(Parent[b])
    BY TreeAssumption DEF Reached
  <2>4. \A x \in S : x # Genesis => Parent[x] \in S
    BY <2>2, <2>3
  <2>5. a \in S
    BY <2>1, <2>4, <1>3 DEF Reached
  <2> QED
    BY <2>5, <1>3
<1> QED
  BY <1>1, <1>2, <1>3

\* The recursive definition has a solution, so that its equation holds.
LEMMA AncestorsDef ==
  Ancestors = [b \in Blocks |-> IF b = Genesis THEN {b} ELSE {b} \cup Ancestors[Parent[b]]]
<1> DEFINE Eq(f) == f = [b \in Blocks |-> IF b = Genesis THEN {b} ELSE {b} \cup f[Parent[b]]]
<1>1. PICK r : r = [b \in Blocks |-> Reached(b)]
  OBVIOUS
<1>2. ASSUME NEW b \in Blocks
      PROVE  r[b] = IF b = Genesis THEN {b} ELSE {b} \cup r[Parent[b]]
  BY <1>1, ReachedGenesis, ReachedParent, TreeAssumption
<1>3. Eq(r)
  BY <1>1, <1>2
<1>4. Ancestors = CHOOSE f : Eq(f)
  BY DEF Ancestors
<1> HIDE DEF Eq
<1>5. Eq(Ancestors)
  BY <1>3, <1>4
<1> QED
  BY <1>5 DEF Eq

LEMMA AncestorsEq ==
  /\ Ancestors[Genesis] = {Genesis}
  /\ \A b \in Blocks \ {Genesis} : Ancestors[b] = {b} \cup Ancestors[Parent[b]]
<1> QED
  BY AncestorsDef, TreeAssumption

\* Ancestors are blocks, a block is its own ancestor, and an ancestor's ancestors
\* are ancestors.
LEMMA AncestorsAreBlocks == \A b \in Blocks : Ancestors[b] \subseteq Blocks
<1> DEFINE T == {b \in Blocks : Ancestors[b] \subseteq Blocks}
<1>1. Genesis \in T
  BY AncestorsEq, TreeAssumption
<1>2. ASSUME NEW b \in Blocks \ {Genesis}, Parent[b] \in T PROVE b \in T
  BY <1>2, AncestorsEq
<1> HIDE DEF T
<1>3. Blocks \subseteq T
  BY <1>1, <1>2, TreeInduction
<1> QED
  BY <1>3 DEF T

LEMMA AncestorsReflexive == \A b \in Blocks : b \in Ancestors[b]
BY AncestorsEq

LEMMA AncestorsTransitive ==
  ASSUME NEW b \in Blocks, NEW a \in Ancestors[b]
  PROVE  Ancestors[a] \subseteq Ancestors[b]
<1> DEFINE T == {x \in Blocks : \A y \in Ancestors[x] : Ancestors[y] \subseteq Ancestors[x]}
<1>1. Genesis \in T
  BY AncestorsEq, TreeAssumption
<1>2. ASSUME NEW x \in Blocks \ {Genesis}, Parent[x] \in T PROVE x \in T
  BY <1>2, AncestorsEq
<1> HIDE DEF T
<1>3. Blocks \subseteq T
  BY <1>1, <1>2, TreeInduction
<1> QED
  BY <1>3 DEF T

\* A block has one ancestor at each height up to its own, and none above.
LEMMA AncestorsByHeight ==
  ASSUME NEW b \in Blocks
  PROVE  /\ \A a \in Ancestors[b] : Num[a] <= Num[b] /\ (Num[a] = Num[b] => a = b)
         /\ \A n \in 0 .. Num[b] : \E a \in Ancestors[b] : Num[a] = n
         /\ \A a, c \in Ancestors[b] : Num[a] = Num[c] => a = c
<1> DEFINE Up(x) == \A a \in Ancestors[x] : Num[a] <= Num[x] /\ (Num[a] = Num[x] => a = x)
           All(x) == \A n \in 0 .. Num[x] : \E a \in Ancestors[x] : Num[a] = n
           One(x) == \A a, c \in Ancestors[x] : Num[a] = Num[c] => a = c
           T == {x \in Blocks : Up(x) /\ All(x) /\ One(x)}
<1>1. Genesis \in T
  BY AncestorsEq, TreeAssumption
<1>2. ASSUME NEW x \in Blocks \ {Genesis}, Parent[x] \in T PROVE x \in T
  <2>0. /\ Parent[x] \in Blocks /\ Num[x] = Num[Parent[x]] + 1
        /\ Num[x] \in Nat /\ Num[Parent[x]] \in Nat
        /\ Ancestors[x] = {x} \cup Ancestors[Parent[x]]
    BY AncestorsEq, TreeAssumption
  <2>1. \A a \in Ancestors[Parent[x]] : Num[a] \in Nat
    BY <2>0, AncestorsAreBlocks, TreeAssumption
  <2>2. Up(x)
    BY <1>2, <2>0, <2>1
  <2>3. All(x)
    BY <1>2, <2>0
  <2>4. One(x)
    BY <1>2, <2>0, <2>1
  <2> QED
    BY <2>2, <2>3, <2>4
<1> HIDE DEF T
<1>3. Blocks \subseteq T
  BY <1>1, <1>2, TreeInduction
<1> QED
  BY <1>3 DEF T

\* Two ancestors of a block are on one branch.
LEMMA AncestorsLinear ==
  ASSUME NEW b \in Blocks, NEW a \in Ancestors[b], NEW c \in Ancestors[b], Num[a] <= Num[c]
  PROVE  a \in Ancestors[c]
<1>1. a \in Blocks /\ c \in Blocks
  BY AncestorsAreBlocks
<1>2. Num[a] \in 0 .. Num[c]
  BY <1>1, TreeAssumption
<1>3. PICK d \in Ancestors[c] : Num[d] = Num[a]
  BY <1>1, <1>2, AncestorsByHeight
<1>4. d \in Ancestors[b]
  BY <1>3, AncestorsTransitive
<1>5. d = a
  BY <1>3, <1>4, AncestorsByHeight
<1> QED
  BY <1>3, <1>5

\* The node's answer to a request by number.
LEMMA AtHeightIs ==
  ASSUME NEW b \in Blocks, NEW n \in Nat, HasHeight(b, n)
  PROVE  /\ AtHeight(b, n) \in Ancestors[b]
         /\ AtHeight(b, n) \in Blocks
         /\ Num[AtHeight(b, n)] = n
<1>1. n \in 0 .. Num[b]
  BY TreeAssumption DEF HasHeight
<1>2. \E a \in Ancestors[b] : Num[a] = n
  BY <1>1, AncestorsByHeight
<1>3. AtHeight(b, n) \in Ancestors[b] /\ Num[AtHeight(b, n)] = n
  BY <1>2 DEF AtHeight
<1> QED
  BY <1>3, AncestorsAreBlocks

-----------------------------------------------------------------------------
(* The search.                                                             *)

\* Two blocks of the same height that differ have parents, of the same height.
LEMMA RivalsHaveParents ==
  ASSUME NEW a \in Blocks, NEW b \in Blocks, Num[a] = Num[b], a # b
  PROVE  /\ a # Genesis /\ b # Genesis
         /\ Parent[a] \in Blocks /\ Parent[b] \in Blocks
         /\ Num[a] = Num[Parent[a]] + 1
         /\ Num[Parent[a]] = Num[Parent[b]]
         /\ Num[Parent[a]] \in Nat
BY TreeAssumption

\* An ancestor below a block is one of its parent.
LEMMA ProperAncestor ==
  ASSUME NEW b \in Blocks, b # Genesis, NEW a \in Ancestors[b], a # b
  PROVE  a \in Ancestors[Parent[b]]
BY AncestorsEq

LEMMA LastOf ==
  ASSUME NEW s \in Seq(Blocks), s # <<>>
  PROVE  Last(s) \in Blocks /\ Last(s) \in ToSet(s) /\ Len(s) \in Nat \ {0}
BY DEF Last, ToSet

\* What the loop of getSideChain knows at its head.
LEMMA AtLoopHead ==
  ASSUME EventHeld, Searching, sub = "walk"
  PROVE  /\ fork.block \in Blocks /\ fork.side \in Blocks /\ bestChainBlock \in Blocks
         /\ Last(sideChain) \in Blocks /\ Last(sideChain) \in ToSet(sideChain)
         /\ Last(sideChain) # Genesis /\ bestChainBlock # Genesis
         /\ SideParent \in Blocks /\ BestParent \in Blocks
         /\ Num[Last(sideChain)] = Num[SideParent] + 1
         /\ Num[SideParent] = Num[BestParent]
         /\ Num[SideParent] \in Nat
         /\ Last(sideChain) \in Ancestors[fork.side]
         /\ SideParent \in Ancestors[fork.side]
         /\ Num[Last(sideChain)] <= Num[fork.side]
<1>1. /\ fork.block \in Blocks /\ fork.side \in Blocks /\ bestChainBlock \in Blocks
      /\ sideChain \in Seq(Blocks) /\ sideChain # <<>>
      /\ Num[Last(sideChain)] = Num[bestChainBlock] /\ Last(sideChain) # bestChainBlock
      /\ Ancestors[fork.side] = ToSet(sideChain) \cup Ancestors[Last(sideChain)]
  BY DEF EventHeld, Searching
<1>2. Last(sideChain) \in Blocks /\ Last(sideChain) \in ToSet(sideChain)
  BY <1>1, LastOf
<1>3. /\ Last(sideChain) # Genesis /\ bestChainBlock # Genesis
      /\ SideParent \in Blocks /\ BestParent \in Blocks
      /\ Num[Last(sideChain)] = Num[SideParent] + 1
      /\ Num[SideParent] = Num[BestParent]
      /\ Num[SideParent] \in Nat
  BY <1>1, <1>2, RivalsHaveParents DEF SideParent, BestParent
<1>4. Last(sideChain) \in Ancestors[fork.side]
  BY <1>1, <1>2
<1>5. SideParent \in Ancestors[fork.side]
  BY <1>1, <1>2, <1>3, AncestorsEq, AncestorsReflexive DEF SideParent
<1>6. Num[Last(sideChain)] <= Num[fork.side]
  BY <1>1, <1>4, AncestorsByHeight
<1> QED
  BY <1>1, <1>2, <1>3, <1>4, <1>5, <1>6

LEMMA ReturnKeepsInv ==
  ASSUME EventHeld, Return, tip' = tip
  PROVE  ResolveInv'
BY DEF Return, ResolveInv, EventHeld, Searching

LEMMA AskKeepsInv ==
  ASSUME ResolveInv, Ask, tip' = tip
  PROVE  ResolveInv'
<1> USE DEF ResolveInv
<1>0. CASE Return
  BY <1>0, ReturnKeepsInv
<1>1. CASE ~Return
  <2> DEFINE n == Num[fork.side]
             best == AtHeight(tip, n)
  <2>1. /\ fork.block \in Blocks /\ fork.side \in Blocks /\ tip \in Blocks
        /\ fork.block \in Ancestors[tip] /\ n \in Nat
    BY TreeAssumption DEF EventHeld, Ask
  <2>2. /\ HasHeight(tip, n) /\ best # fork.side
        /\ sub' = "walk" /\ bestChainBlock' = best
        /\ sideChain' = <<fork.side>> /\ fork' = fork
    BY <1>1 DEF Ask
  <2>3. best \in Ancestors[tip] /\ best \in Blocks /\ Num[best] = n
    BY <2>1, <2>2, AtHeightIs
  <2> HIDE DEF best
  <2>4. EventHeld'
    BY <2>1, <2>2 DEF EventHeld, Ask
  <2>5. /\ <<fork.side>> \in Seq(Blocks) \ {<<>>} /\ Last(<<fork.side>>) = fork.side
        /\ ToSet(<<fork.side>>) = {fork.side} /\ Len(<<fork.side>>) = 1
        /\ <<fork.side>>[1] = fork.side
    BY <2>1 DEF Last, ToSet
  <2>6. fork.side \in Ancestors[fork.side]
    BY <2>1, AncestorsReflexive
  <2>7. \/ Num[fork.side] <= Num[fork.block]
        \/ Num[fork.block] < Num[fork.side] /\ fork.block \in Ancestors[best]
    <3>1. CASE Num[fork.block] < Num[fork.side]
      <4>1. Num[fork.block] <= Num[best]
        BY <3>1, <2>1, <2>3, TreeAssumption
      <4> QED
        BY <3>1, <4>1, <2>1, <2>3, AncestorsLinear
    <3> QED
      BY <3>1, <2>1, TreeAssumption
  <2>8. Searching'
    BY <2>1, <2>2, <2>3, <2>5, <2>6, <2>7 DEF Searching
  <2> QED
    BY <2>4, <2>8
<1> QED
  BY <1>0, <1>1
LEMMA StepKeepsInv ==
  ASSUME ResolveInv, StepToParents, tip' = tip
  PROVE  ResolveInv'
<1> USE DEF ResolveInv
<1> DEFINE last == Last(sideChain)
<1>1. /\ sub = "walk" /\ sub' = "walk" /\ fork' = fork
      /\ sideChain' = Append(sideChain, SideParent) /\ bestChainBlock' = BestParent
      /\ SideParent # BestParent /\ Num[SideParent] # Num[fork.block]
  BY DEF StepToParents, Met, PastFinality
<1>2. /\ fork.block \in Blocks /\ fork.side \in Blocks /\ bestChainBlock \in Blocks
      /\ last \in Blocks /\ last \in ToSet(sideChain)
      /\ last # Genesis /\ bestChainBlock # Genesis
      /\ SideParent \in Blocks /\ BestParent \in Blocks
      /\ Num[last] = Num[SideParent] + 1
      /\ Num[SideParent] = Num[BestParent] /\ Num[SideParent] \in Nat
  BY <1>1, AtLoopHead
<1>3. /\ sideChain \in Seq(Blocks) /\ sideChain # <<>>
      /\ sideChain[1] = fork.side
      /\ \A i \in 1 .. Len(sideChain) - 1 : sideChain[i + 1] = Parent[sideChain[i]]
      /\ \A b \in ToSet(sideChain) : last \in Ancestors[b]
      /\ Ancestors[fork.side] = ToSet(sideChain) \cup Ancestors[last]
      /\ Num[last] = Num[bestChainBlock]
      /\ \/ Num[fork.side] <= Num[fork.block]
         \/ Num[fork.block] < Num[last] /\ fork.block \in Ancestors[bestChainBlock]
  BY <1>1 DEF Searching
<1>4. /\ sideChain' \in Seq(Blocks) /\ Len(sideChain') = Len(sideChain) + 1
      /\ ToSet(sideChain') = ToSet(sideChain) \cup {SideParent}
  BY <1>1, <1>2, <1>3, SendContent
<1>5. /\ \A i \in 1 .. Len(sideChain) : sideChain'[i] = sideChain[i]
      /\ sideChain'[Len(sideChain) + 1] = SideParent
      /\ Len(sideChain) \in Nat \ {0}
  BY <1>1, <1>2, <1>3, AppendProperties
<1>6. Last(sideChain)' = SideParent /\ sideChain' # <<>> /\ sideChain'[1] = fork.side
  BY <1>3, <1>4, <1>5 DEF Last
<1>7. SideParent = Parent[last] /\ last = sideChain[Len(sideChain)]
  BY DEF SideParent, Last
<1>8. ASSUME NEW i \in 1 .. Len(sideChain') - 1
      PROVE  sideChain'[i + 1] = Parent[sideChain'[i]]
  <2>1. CASE i = Len(sideChain)
    BY <2>1, <1>5, <1>7
  <2>2. CASE i # Len(sideChain)
    <3>1. i \in 1 .. Len(sideChain) - 1 /\ i + 1 \in 1 .. Len(sideChain) /\ i \in 1 .. Len(sideChain)
      BY <2>2, <1>4, <1>5
    <3> QED
      BY <3>1, <1>3, <1>5
  <2> QED
    BY <2>1, <2>2
<1>9. Ancestors[last] = {last} \cup Ancestors[SideParent]
  BY <1>2, <1>7, AncestorsEq
<1>10. SideParent \in Ancestors[SideParent]
  BY <1>2, AncestorsReflexive
<1>11. ASSUME NEW b \in ToSet(sideChain') PROVE SideParent \in Ancestors[b]
  <2>1. CASE b = SideParent
    BY <2>1, <1>10
  <2>2. CASE b \in ToSet(sideChain)
    <3>1. last \in Ancestors[b] /\ b \in Blocks
      BY <2>2, <1>3 DEF ToSet
    <3> QED
      BY <3>1, <1>9, <1>10, AncestorsTransitive
  <2> QED
    BY <2>1, <2>2, <1>4
<1>12. Ancestors[fork.side] = ToSet(sideChain') \cup Ancestors[SideParent]
  BY <1>2, <1>3, <1>4, <1>9, <1>10
<1>13. \/ Num[fork.side] <= Num[fork.block]
       \/ Num[fork.block] < Num[SideParent] /\ fork.block \in Ancestors[BestParent]
  <2>1. CASE Num[fork.block] < Num[last] /\ fork.block \in Ancestors[bestChainBlock]
    <3>1. Num[fork.block] < Num[SideParent]
      BY <2>1, <1>1, <1>2, TreeAssumption
    <3>2. fork.block # bestChainBlock
      BY <2>1, <1>2, <1>3, TreeAssumption
    <3>3. fork.block \in Ancestors[BestParent]
      BY <2>1, <3>2, <1>2, ProperAncestor DEF BestParent
    <3> QED
      BY <3>1, <3>3
  <2> QED
    BY <2>1, <1>3
<1>14. Searching'
  BY <1>1, <1>2, <1>4, <1>6, <1>8, <1>11, <1>12, <1>13 DEF Searching
<1>15. EventHeld'
  BY <1>1 DEF EventHeld
<1> QED
  BY <1>14, <1>15

LEMMA ResolveStepKeepsInv ==
  ASSUME ResolveInv, ResolveStep, tip' = tip
  PROVE  ResolveInv'
<1>0. EventHeld
  BY DEF ResolveInv
<1>1. CASE Delete
  BY <1>1 DEF Delete, ResolveInv, EventHeld, Searching
<1>2. CASE Ask
  BY <1>2, AskKeepsInv
<1>3. CASE Return
  BY <1>0, <1>3, ReturnKeepsInv
<1>4. CASE StepToParents
  BY <1>4, StepKeepsInv
<1> QED
  BY <1>1, <1>2, <1>3, <1>4 DEF ResolveStep, FindAncestor, ReachFinalized, ResolveFails

LEMMA AnyForkKeepsInv ==
  ASSUME ResolveInv, AnyFork
  PROVE  ResolveInv'
<1>1. PICK f \in Ancestors[tip], s \in Blocks, b \in Blocks : Resolve(ForkEvent(f, b, s))
  BY DEF AnyFork
<1>2. f \in Blocks /\ tip' = tip
  BY AncestorsAreBlocks DEF ResolveInv, EventHeld, AnyFork
<1> QED
  BY <1>1, <1>2 DEF Resolve, ForkEvent, ResolveInv, EventHeld, Searching

\* The node moves, but not below a finalized block.
LEMMA NodeMovesKeepsInv ==
  ASSUME ResolveInv, NodeMoves
  PROVE  ResolveInv'
BY DEF NodeMoves, resolveVars, searchVars, ResolveInv, EventHeld, Searching

\* ResolveInv is an invariant of the handler under any events and any node.
THEOREM ResolveInvariance == ResolveSpec => []ResolveInv
<1>1. AnyNode => ResolveInv
  BY DEF AnyNode, ResolveInit, ResolveInv, EventHeld, Searching
<1>2. ResolveInv /\ [ResolveNext]_<<tip, resolveVars>> => ResolveInv'
  <2> SUFFICES ASSUME ResolveInv, [ResolveNext]_<<tip, resolveVars>> PROVE ResolveInv'
    OBVIOUS
  <2>1. CASE UNCHANGED <<tip, resolveVars>>
    BY <2>1 DEF resolveVars, searchVars, ResolveInv, EventHeld, Searching
  <2> QED
    BY <2>1, AnyForkKeepsInv, NodeMovesKeepsInv, ResolveStepKeepsInv DEF ResolveNext
<1> QED
  BY <1>1, <1>2, PTL DEF ResolveSpec

LEMMA ExactFromInv ==
  ASSUME ResolveInv
  PROVE  SideChainExact
<1> SUFFICES ASSUME sub = "walk", Met PROVE
        /\ bestChainBlock \in Ancestors[tip] =>
               ToSet(sideChain) = Ancestors[fork.side] \ Ancestors[tip]
        /\ sideChain[1] = fork.side
        /\ \A i \in 1 .. Len(sideChain) - 1 : sideChain[i + 1] = Parent[sideChain[i]]
  BY DEF SideChainExact
<1> DEFINE last == Last(sideChain)
<1>1. /\ tip \in Blocks /\ bestChainBlock \in Blocks /\ sideChain \in Seq(Blocks)
      /\ sideChain[1] = fork.side
      /\ \A i \in 1 .. Len(sideChain) - 1 : sideChain[i + 1] = Parent[sideChain[i]]
      /\ \A b \in ToSet(sideChain) : last \in Ancestors[b]
      /\ Ancestors[fork.side] = ToSet(sideChain) \cup Ancestors[last]
      /\ Num[last] = Num[bestChainBlock] /\ last # bestChainBlock
  BY DEF ResolveInv, EventHeld, Searching
<1>2. /\ last \in Blocks /\ last \in ToSet(sideChain)
      /\ last # Genesis /\ bestChainBlock # Genesis /\ BestParent \in Blocks
  BY AtLoopHead DEF ResolveInv
<1>3. Ancestors[last] = {last} \cup Ancestors[BestParent]
  BY <1>2, AncestorsEq DEF Met, SideParent
<1>4. ASSUME bestChainBlock \in Ancestors[tip]
      PROVE  ToSet(sideChain) = Ancestors[fork.side] \ Ancestors[tip]
  <2>1. BestParent \in Ancestors[bestChainBlock]
    BY <1>1, <1>2, AncestorsEq, AncestorsReflexive DEF BestParent
  <2>2. Ancestors[bestChainBlock] \subseteq Ancestors[tip]
    BY <1>1, <1>4, AncestorsTransitive
  <2>3. Ancestors[BestParent] \subseteq Ancestors[tip]
    BY <1>1, <2>1, <2>2, AncestorsTransitive
  <2>4. last \notin Ancestors[tip]
    BY <1>1, <1>4, AncestorsByHeight
  <2>5. ASSUME NEW b \in ToSet(sideChain) PROVE b \notin Ancestors[tip]
    <3>1. last \in Ancestors[b]
      BY <1>1
    <3> QED
      BY <3>1, <2>4, <1>1, AncestorsTransitive
  <2> QED
    BY <1>1, <1>2, <1>3, <2>3, <2>5
<1> QED
  BY <1>1, <1>4

LEMMA FinalityFromInv ==
  ASSUME ResolveInv
  PROVE  FailsOnlyPastFinality
<1> DEFINE passed == /\ Num[fork.block] < Num[fork.side]
                     /\ fork.block \notin Ancestors[fork.side]
           last == Last(sideChain)
<1> SUFFICES ASSUME sub = "walk"
             PROVE  /\ PastFinality => passed
                    /\ Met => ~passed
                    /\ bestChainBlock # Genesis /\ Last(sideChain) # Genesis
  BY DEF FailsOnlyPastFinality
<1>1. /\ bestChainBlock \in Blocks
      /\ Ancestors[fork.side] = ToSet(sideChain) \cup Ancestors[last]
      /\ Num[last] = Num[bestChainBlock]
      /\ \/ Num[fork.side] <= Num[fork.block]
         \/ Num[fork.block] < Num[last] /\ fork.block \in Ancestors[bestChainBlock]
  BY DEF ResolveInv, Searching
<1>2. /\ fork.block \in Blocks /\ fork.side \in Blocks
      /\ last \in Blocks /\ last # Genesis /\ bestChainBlock # Genesis
      /\ SideParent \in Blocks /\ BestParent \in Blocks
      /\ Num[last] = Num[SideParent] + 1
      /\ Num[SideParent] = Num[BestParent] /\ Num[SideParent] \in Nat
      /\ SideParent \in Ancestors[fork.side]
      /\ Num[last] <= Num[fork.side]
  BY AtLoopHead DEF ResolveInv
<1>3. Num[fork.block] \in Nat /\ Num[fork.side] \in Nat
  BY <1>2, TreeAssumption
<1>4. ASSUME Num[fork.block] < Num[fork.side]
      PROVE  fork.block \in Ancestors[BestParent]
  <2>1. Num[fork.block] < Num[last] /\ fork.block \in Ancestors[bestChainBlock]
    BY <1>1, <1>3, <1>4
  <2>2. fork.block # bestChainBlock
    <3>1. Num[fork.block] < Num[bestChainBlock]
      BY <2>1, <1>1
    <3> QED
      BY <3>1, <1>3
  <2> QED
    BY <2>1, <2>2, <1>1, <1>2, ProperAncestor DEF BestParent
<1>5. ASSUME PastFinality PROVE passed
  <2>1. SideParent # BestParent /\ Num[SideParent] = Num[fork.block]
    BY <1>5 DEF PastFinality, Met
  <2>2. Num[fork.block] < Num[fork.side]
    BY <2>1, <1>2, <1>3
  <2>3. fork.block = BestParent
    <3>1. fork.block \in Ancestors[BestParent] /\ Num[fork.block] = Num[BestParent]
      BY <2>1, <2>2, <1>4, <1>2
    <3> QED
      BY <3>1, <1>2, AncestorsByHeight
  <2>4. fork.block \notin Ancestors[fork.side]
    BY <2>1, <2>3, <1>2, AncestorsByHeight
  <2> QED
    BY <2>2, <2>4
<1>6. ASSUME Met, passed PROVE FALSE
  <2>1. fork.block \in Ancestors[SideParent]
    BY <1>4, <1>6 DEF Met
  <2> QED
    BY <2>1, <1>2, <1>6, AncestorsTransitive
<1> QED
  BY <1>2, <1>5, <1>6

\* getSideChain collects exactly the forked blocks, on every tree, for every event
\* and every behaviour of the node.
THEOREM SideChainFound == ResolveSpec => []SideChainExact
<1>1. ResolveInv => SideChainExact
  BY ExactFromInv
<1> QED
  BY <1>1, ResolveInvariance, PTL

\* It fails exactly when finality has passed the fork point, and never looks below
\* the genesis block.
THEOREM SearchFails == ResolveSpec => []FailsOnlyPastFinality
<1>1. ResolveInv => FailsOnlyPastFinality
  BY FinalityFromInv
<1> QED
  BY <1>1, ResolveInvariance, PTL

-----------------------------------------------------------------------------
(* Sets of entries and events.                                             *)

\* A sequence over a set is one over a larger set.
LEMMA SeqMonotone ==
  ASSUME NEW S, NEW T, S \subseteq T, NEW s \in Seq(S)
  PROVE  s \in Seq(T)
<1>1. Len(s) \in Nat /\ s \in [1 .. Len(s) -> S]
  BY LenProperties
<1>2. s \in [1 .. Len(s) -> T]
  BY <1>1
<1> QED
  BY <1>1, <1>2, SeqDef

\* cache.Get and cache.Add leave entries that were there, and the one they are about.
LEMMA CacheContent ==
  ASSUME NEW E, NEW c \in Seq(E), NEW n, NEW r, <<n, r>> \in E
  PROVE  /\ Append(Without(c, n), <<n, r>>) \in Seq(E)
         /\ Insert(c, n, r) \in Seq(E)
<1>1. Without(c, n) \in Seq(E)
  <2>1. CASE ~Cached(c, n)
    BY <2>1 DEF Without
  <2>2. CASE Cached(c, n)
    <3>1. PICK p \in 1 .. Len(c) : p = Position(c, n)
      BY <2>2, LenProperties DEF Cached, Position
    <3>2. RemoveAt(c, p) \in Seq(E)
      BY RemoveAtContent, Zenon
    <3> QED
      BY <2>2, <3>1, <3>2 DEF Without
  <2> QED
    BY <2>1, <2>2
<1>2. PICK e : e = <<n, r>>
  OBVIOUS
<1>3. PICK a : a = Append(Without(c, n), e)
  OBVIOUS
<1>4. a \in Seq(E) /\ Len(a) = Len(Without(c, n)) + 1
  BY <1>1, <1>2, <1>3, SendContent
<1>5. a # <<>>
  BY <1>1, <1>4, LenProperties
<1>6. Tail(a) \in Seq(E)
  BY <1>4, <1>5, ReceiveContent
<1> QED
  BY <1>2, <1>3, <1>4, <1>6 DEF Insert

\* A cached number's result is an entry.
LEMMA LookupIs ==
  ASSUME NEW c \in Seq(Answers), NEW n, Cached(c, n)
  PROVE  <<n, Lookup(c, n)>> \in Answers
<1>1. PICK p \in DOMAIN c : p = Position(c, n) /\ c[p][1] = n
  BY DEF Cached, Position
<1>2. c[p] \in Answers
  BY <1>1, LenProperties, ElementOfSeq
<1>3. c[p] = <<n, Lookup(c, n)>>
  BY <1>1, <1>2 DEF Lookup, Answers
<1> QED
  BY <1>2, <1>3

\* The node's answer is one.
LEMMA AnswerIs ==
  ASSUME NodeInv, NEW n \in Nat, HasHeight(tip, n)
  PROVE  /\ <<n, AtHeight(tip, n)>> \in Answers
         /\ AtHeight(tip, n) \in Blocks /\ Num[AtHeight(tip, n)] = n
<1>1. /\ AtHeight(tip, n) \in Ancestors[tip]
      /\ AtHeight(tip, n) \in Blocks /\ Num[AtHeight(tip, n)] = n
  BY AtHeightIs DEF NodeInv
<1> QED
  BY <1>1 DEF Answers

LEMMA FetchBlockIs ==
  ASSUME NodeInv, cache \in Seq(Answers), NEW n \in Nat, NEW r, FetchBlock(n, r)
  PROVE  <<n, r>> \in Answers /\ cache' \in Seq(Answers)
<1>1. CASE Cached(cache, n)
  <2>1. r = Lookup(cache, n) /\ cache' = Append(Without(cache, n), <<n, r>>)
    BY <1>1 DEF FetchBlock, Touch
  <2>2. <<n, r>> \in Answers
    BY <1>1, <2>1, LookupIs
  <2> QED
    BY <2>1, <2>2, CacheContent
<1>2. CASE ~Cached(cache, n)
  <2>1. HasHeight(tip, n) /\ r = AtHeight(tip, n) /\ cache' = Insert(cache, n, r)
    BY <1>2 DEF FetchBlock
  <2>2. <<n, r>> \in Answers
    BY <2>1, AnswerIs
  <2> QED
    BY <2>1, <2>2, CacheContent
<1> QED
  BY <1>1, <1>2
-----------------------------------------------------------------------------
(* The invariant.                                                          *)

LEMMA GenesisIsAncestor == \A b \in Blocks : Genesis \in Ancestors[b]
<1> SUFFICES ASSUME NEW b \in Blocks PROVE Genesis \in Ancestors[b]
  OBVIOUS
<1>1. 0 \in 0 .. Num[b]
  BY TreeAssumption
<1>2. PICK a \in Ancestors[b] : Num[a] = 0
  BY <1>1, AncestorsByHeight
<1>3. a \in Blocks
  BY AncestorsAreBlocks
<1>4. a = Genesis
  BY <1>2, <1>3, TreeAssumption
<1> QED
  BY <1>4

\* The node's own steps: what could be answered, sent or final still can.
LEMMA NodeStep ==
  ASSUME NodeInv, NodeNext
  PROVE  /\ NodeInv'
         /\ Ancestors[nodeFinalized] \subseteq Ancestors[nodeFinalized']
         /\ Answers \subseteq Answers'
         /\ BlockEvents \subseteq BlockEvents'
         /\ ForkEvents \subseteq ForkEvents'
<1>0. /\ tip \in Blocks /\ nodeFinalized \in Ancestors[tip] /\ nodeFinalized \in Blocks
      /\ reorgs \in Nat
  BY AncestorsAreBlocks DEF NodeInv
<1>1. PICK b \in Blocks : NewBlock(b) \/ Reorganise(b) \/ Finalize(b)
  BY DEF NodeNext
<1>2. /\ tip' \in Blocks /\ nodeFinalized' \in Ancestors[tip'] /\ reorgs' \in Nat
      /\ Ancestors[nodeFinalized] \subseteq Ancestors[nodeFinalized']
      /\ reorgs' = 0 => reorgs = 0 /\ Ancestors[tip] \subseteq Ancestors[tip']
      /\ reorgs > 0 => reorgs' > 0
  <2>1. CASE NewBlock(b)
    <3>1. b # Genesis /\ Parent[b] = tip /\ tip' = b /\ nodeFinalized' = nodeFinalized /\ reorgs' = reorgs
      BY <2>1 DEF NewBlock
    <3>2. Ancestors[b] = {b} \cup Ancestors[tip]
      BY <3>1, AncestorsEq
    <3> QED
      BY <1>0, <3>1, <3>2
  <2>2. CASE Reorganise(b)
    BY <1>0, <2>2 DEF Reorganise
  <2>3. CASE Finalize(b)
    <3>1. /\ b \in Ancestors[tip] /\ nodeFinalized \in Ancestors[b]
          /\ nodeFinalized' = b /\ tip' = tip /\ reorgs' = reorgs
      BY <2>3 DEF Finalize
    <3>2. Ancestors[nodeFinalized] \subseteq Ancestors[b]
      BY <3>1, AncestorsTransitive
    <3> QED
      BY <1>0, <3>1, <3>2
  <2> QED
    BY <1>1, <2>1, <2>2, <2>3
<1>3. Answers \subseteq Answers'
  BY <1>2 DEF Answers
<1>4. BlockEvents \subseteq BlockEvents'
  BY <1>2 DEF BlockEvents
<1>5. ForkEvents \subseteq ForkEvents'
  BY <1>2 DEF ForkEvents
<1> QED
  BY <1>2, <1>3, <1>4, <1>5 DEF NodeInv

LEMMA NodeKeepsInv ==
  ASSUME SyncInv, NodeNext
  PROVE  SyncInv'
<1>1. /\ NodeInv'
      /\ Ancestors[nodeFinalized] \subseteq Ancestors[nodeFinalized']
      /\ Answers \subseteq Answers'
      /\ BlockEvents \cup ForkEvents \subseteq (BlockEvents \cup ForkEvents)'
      /\ ForkEvents \subseteq ForkEvents'
  BY NodeStep DEF SyncInv
<1>2. UNCHANGED <<fwdVars, blockChan, subVars>>
  BY DEF NodeNext, NewBlock, Reorganise, Finalize
<1>3. cache' \in Seq(Answers')
  BY <1>1, <1>2, SeqMonotone DEF SyncInv, ForwardInv, fwdVars
<1>4. ForwardInv'
  BY <1>1, <1>2, <1>3 DEF SyncInv, ForwardInv, fwdVars
<1>5. blockChan' \in Seq((BlockEvents \cup ForkEvents)')
  BY <1>1, <1>2, SeqMonotone DEF SyncInv, EventInv
<1>6. EventInv'
  BY <1>1, <1>2, <1>5 DEF SyncInv, EventInv, subVars, resolveVars
<1> QED
  BY <1>1, <1>4, <1>6 DEF SyncInv

\* What does not move the node moves none of the sets.
LEMMA NodeStays ==
  ASSUME UNCHANGED nodeVars
  PROVE  /\ NodeInv => NodeInv'
         /\ Answers' = Answers
         /\ BlockEvents' = BlockEvents
         /\ ForkEvents' = ForkEvents
         /\ nodeFinalized' = nodeFinalized
BY DEF nodeVars, NodeInv, Answers, BlockEvents, ForkEvents

LEMMA ForwardKeepsOwnInv ==
  ASSUME SyncInv, ForwardNext
  PROVE  ForwardInv'
<1>0. NodeInv /\ ForwardInv /\ UNCHANGED nodeVars
  BY DEF SyncInv, ForwardNext, ForwardLoop, FetchNext, FetchNotFound, DatabaseAhead, ProcessCurrent,
         ProcessPrev, SendEvent, ForwardRetry, FetchFinalized, SendFork
<1>1. Answers' = Answers /\ nodeFinalized' = nodeFinalized
  BY <1>0, NodeStays
<1>2. /\ prev \in Blocks /\ Num[prev] \in Nat /\ Num[prev] + 1 \in Nat
      /\ tip \in Blocks /\ nodeFinalized \in Blocks
      /\ Ancestors[nodeFinalized] \subseteq Blocks
  BY <1>0, AncestorsAreBlocks, TreeAssumption DEF NodeInv, ForwardInv
<1>3. CASE ForwardLoop
  BY <1>0, <1>1, <1>3 DEF ForwardLoop, ForwardInv
<1>4. CASE FetchNext
  <2>1. /\ next' = AtHeight(tip, Num[prev] + 1)
        /\ fwd' = IF Parent[next'] # prev THEN "finalized" ELSE "process"
        /\ HasHeight(tip, Num[prev] + 1)
        /\ UNCHANGED <<cache, prev, current, parent, finalized>>
    BY <1>4 DEF FetchNext
  <2>2. next' \in Blocks /\ Num[next'] = Num[prev] + 1
    BY <1>0, <1>2, <2>1, AnswerIs
  <2>3. next' # Genesis
    BY <1>2, <2>2, TreeAssumption
  <2> QED
    BY <1>0, <1>1, <2>1, <2>2, <2>3 DEF ForwardInv
<1>5. CASE FetchNotFound
  BY <1>0, <1>1, <1>5 DEF FetchNotFound, ForwardInv
<1>6. CASE DatabaseAhead
  BY <1>0, <1>1, <1>6 DEF DatabaseAhead, Continue, ForwardInv
<1>7. CASE ProcessCurrent
  <2>1. <<Num[prev] + 1, current'>> \in Answers /\ cache' \in Seq(Answers)
    BY <1>0, <1>2, <1>7, FetchBlockIs DEF ProcessCurrent, ForwardInv
  <2> QED
    BY <1>0, <1>1, <1>7, <2>1 DEF ProcessCurrent, ForwardInv
<1>8. CASE ProcessPrev
  <2>1. cache' \in Seq(Answers) /\ (parent' = None \/ <<Num[prev], parent'>> \in Answers)
    <3>1. CASE Num[prev] + 1 > 1
      BY <1>0, <1>2, <1>8, <3>1, FetchBlockIs DEF ProcessPrev, ForwardInv
    <3>2. CASE ~(Num[prev] + 1 > 1)
      BY <1>0, <1>8, <3>2 DEF ProcessPrev, ForwardInv
    <3> QED
      BY <3>1, <3>2
  <2> QED
    BY <1>0, <1>1, <1>8, <2>1 DEF ProcessPrev, ForwardInv
<1>9. CASE SendEvent
  BY <1>0, <1>1, <1>9 DEF SendEvent, Continue, ForwardInv
<1>10. CASE ForwardRetry
  BY <1>0, <1>1, <1>10 DEF ForwardRetry, Continue, ForwardInv
<1>11. CASE FetchFinalized
  <2>1. nodeFinalized \in Ancestors[nodeFinalized]
    BY <1>2, AncestorsReflexive
  <2> QED
    BY <1>0, <1>1, <1>11, <2>1 DEF FetchFinalized, ForwardInv
<1>12. CASE SendFork
  BY <1>0, <1>1, <1>2, <1>12 DEF SendFork, Continue, ForwardInv
<1> QED
  BY <1>3, <1>4, <1>5, <1>6, <1>7, <1>8, <1>9, <1>10, <1>11, <1>12 DEF ForwardNext
\* The event the forward syncer sends is of the kind EventInv describes: current and
\* parent have the right numbers, and are of one branch if there is only one.
LEMMA SentEventIs ==
  ASSUME SyncInv, fwd = "send"
  PROVE  BlockEvent(current, parent) \in BlockEvents
<1>1. /\ tip \in Blocks /\ reorgs \in Nat /\ prev \in Blocks /\ Num[prev] \in Nat
  BY TreeAssumption DEF SyncInv, NodeInv, ForwardInv
<1>2. /\ current \in Blocks /\ Num[current] = Num[prev] + 1
      /\ reorgs = 0 => current \in Ancestors[tip]
  BY DEF SyncInv, ForwardInv, Answers
<1>3. CASE parent = None
  BY <1>2, <1>3 DEF BlockEvents, BlockEvent, Event
<1>4. CASE parent # None
  <2>1. /\ parent \in Blocks /\ Num[parent] = Num[prev]
        /\ reorgs = 0 => parent \in Ancestors[tip]
    BY <1>4 DEF SyncInv, ForwardInv, Answers
  <2>2. current # Genesis /\ Parent[current] \in Blocks /\ Num[Parent[current]] = Num[parent]
    BY <1>1, <1>2, <2>1, TreeAssumption
  <2>3. ASSUME reorgs = 0 PROVE Parent[current] = parent
    <3>1. Parent[current] \in Ancestors[current]
      BY <1>2, <2>2, AncestorsEq, AncestorsReflexive
    <3>2. Parent[current] \in Ancestors[tip]
      BY <1>1, <1>2, <2>3, <3>1, AncestorsTransitive
    <3> QED
      BY <1>1, <2>1, <2>2, <2>3, <3>2, AncestorsByHeight
  <2>4. Parent[current] = parent \/ reorgs > 0
    BY <1>1, <2>3
  <2>5. Num[parent] + 1 = Num[current]
    BY <1>2, <2>1
  <2> QED
    BY <1>2, <2>1, <2>4, <2>5 DEF BlockEvents, BlockEvent, Event
<1> QED
  BY <1>3, <1>4

LEMMA ForwardKeepsEvents ==
  ASSUME SyncInv, ForwardNext
  PROVE  EventInv'
<1>0. EventInv /\ UNCHANGED nodeVars /\ UNCHANGED subVars
  BY DEF SyncInv, ForwardNext, ForwardLoop, FetchNext, FetchNotFound, DatabaseAhead, ProcessCurrent,
         ProcessPrev, SendEvent, ForwardRetry, FetchFinalized, SendFork
<1>1. BlockEvents' = BlockEvents /\ ForkEvents' = ForkEvents
  BY <1>0, NodeStays
<1>2. sub' = sub /\ fork' = fork
  BY <1>0 DEF subVars, resolveVars
<1>3. CASE SendEvent
  <2>1. blockChan' = Append(blockChan, BlockEvent(current, parent)) /\ fwd = "send"
    BY <1>3 DEF SendEvent
  <2>2. BlockEvent(current, parent) \in BlockEvents \cup ForkEvents
    BY <2>1, SentEventIs
  <2>3. blockChan' \in Seq(BlockEvents \cup ForkEvents)
    BY <1>0, <2>1, <2>2, SendContent DEF EventInv
  <2> QED
    BY <1>0, <1>1, <1>2, <2>3 DEF EventInv
<1>4. CASE SendFork
  <2>1. blockChan' = Append(blockChan, ForkEvent(finalized, next, prev)) /\ fwd = "sendFork"
    BY <1>4 DEF SendFork
  <2>2. /\ next \in Blocks /\ prev \in Blocks /\ Num[next] = Num[prev] + 1
        /\ finalized \in Ancestors[nodeFinalized] /\ nodeFinalized \in Blocks
    BY <2>1, AncestorsAreBlocks DEF SyncInv, NodeInv, ForwardInv
  <2>3. ForkEvent(finalized, next, prev) \in BlockEvents \cup ForkEvents
    BY <2>2, AncestorsAreBlocks DEF ForkEvents, ForkEvent, Event
  <2>4. blockChan' \in Seq(BlockEvents \cup ForkEvents)
    BY <1>0, <2>1, <2>3, SendContent DEF EventInv
  <2> QED
    BY <1>0, <1>1, <1>2, <2>4 DEF EventInv
<1>5. CASE UNCHANGED blockChan
  BY <1>0, <1>1, <1>2, <1>5 DEF EventInv
<1> QED
  BY <1>3, <1>4, <1>5 DEF ForwardNext, ForwardLoop, FetchNext, FetchNotFound, DatabaseAhead, ProcessCurrent,
         ProcessPrev, ForwardRetry, FetchFinalized

LEMMA SubscribeKeepsInv ==
  ASSUME SyncInv, SubscribeNext
  PROVE  SyncInv'
<1>0. EventInv /\ UNCHANGED nodeVars /\ UNCHANGED fwdVars
  BY DEF SyncInv, SubscribeNext, ReceiveBlock, ReceiveFork, ResolveDelete, ResolveSearch, ResolveRecord,
         StorePoints
<1>1. /\ NodeInv' /\ Answers' = Answers /\ nodeFinalized' = nodeFinalized
      /\ BlockEvents' = BlockEvents /\ ForkEvents' = ForkEvents
  BY <1>0, NodeStays DEF SyncInv
<1>2. ForwardInv'
  BY <1>0, <1>1 DEF SyncInv, ForwardInv, fwdVars
<1>3. CASE ReceiveBlock
  <2>1. blockChan' \in Seq(BlockEvents \cup ForkEvents)
    BY <1>0, <1>3, ReceiveContent DEF ReceiveBlock, EventInv
  <2>2. EventInv'
    BY <1>0, <1>1, <1>3, <2>1 DEF ReceiveBlock, EventInv, resolveVars
  <2> QED
    BY <1>1, <1>2, <2>2 DEF SyncInv
<1>4. CASE ReceiveFork
  <2>1. /\ blockChan' \in Seq(BlockEvents \cup ForkEvents)
        /\ Head(blockChan) \in BlockEvents \cup ForkEvents
    BY <1>0, <1>4, ReceiveContent DEF ReceiveFork, EventInv
  <2>2. fork' \in ForkEvents
    BY <1>4, <2>1 DEF ReceiveFork, Resolve, BlockEvents
  <2>3. EventInv'
    BY <1>1, <2>1, <2>2 DEF EventInv
  <2> QED
    BY <1>1, <1>2, <2>3 DEF SyncInv
<1>5. CASE UNCHANGED blockChan /\ (sub' # "select" => sub # "select" /\ fork' = fork)
  <2>1. EventInv'
    BY <1>0, <1>1, <1>5 DEF EventInv
  <2> QED
    BY <1>1, <1>2, <2>1 DEF SyncInv
<1>6. CASE ResolveDelete
  BY <1>5, <1>6 DEF ResolveDelete, Delete
<1>7. CASE ResolveSearch
  BY <1>5, <1>7 DEF ResolveSearch, Ask, StepToParents, ReachFinalized, ResolveFails, Return
<1>8. CASE ResolveRecord
  BY <1>5, <1>8 DEF ResolveRecord, FindAncestor, Return
<1>9. CASE \E b \in Blocks : StorePoints(b)
  BY <1>5, <1>9 DEF StorePoints, resolveVars
<1> QED
  BY <1>3, <1>4, <1>6, <1>7, <1>8, <1>9 DEF SubscribeNext

\* SyncInv is an invariant of ForkSync.
THEOREM SyncInvariance == Spec => []SyncInv
<1>1. Init => SyncInv
  <2> SUFFICES ASSUME Init PROVE SyncInv
    OBVIOUS
  <2>1. NodeInv
    BY ForkSyncAssumption, GenesisIsAncestor DEF Init, NodeInv
  <2>2. \A S : <<>> \in Seq(S)
    BY EmptySeq
  <2>3. ForwardInv
    BY <2>2, ForkSyncAssumption DEF Init, ForwardInv
  <2>4. EventInv
    BY <2>2 DEF Init, ResolveInit, EventInv
  <2> QED
    BY <2>1, <2>3, <2>4 DEF SyncInv
<1>2. SyncInv /\ [Next]_vars => SyncInv'
  <2> SUFFICES ASSUME SyncInv, [Next]_vars PROVE SyncInv'
    OBVIOUS
  <2>1. CASE NodeNext
    BY <2>1, NodeKeepsInv
  <2>2. CASE ForwardNext
    <3>1. NodeInv'
      BY <2>2, NodeStays DEF SyncInv, ForwardNext, ForwardLoop, FetchNext, FetchNotFound, DatabaseAhead,
         ProcessCurrent, ProcessPrev, SendEvent, ForwardRetry, FetchFinalized, SendFork
    <3> QED
      BY <2>2, <3>1, ForwardKeepsOwnInv, ForwardKeepsEvents DEF SyncInv
  <2>3. CASE SubscribeNext
    BY <2>3, SubscribeKeepsInv
  <2>4. CASE UNCHANGED vars
    <3>1. UNCHANGED nodeVars /\ UNCHANGED fwdVars /\ UNCHANGED blockChan /\ UNCHANGED subVars
      BY <2>4 DEF vars
    <3>2. /\ NodeInv' /\ Answers' = Answers /\ nodeFinalized' = nodeFinalized
          /\ BlockEvents' = BlockEvents /\ ForkEvents' = ForkEvents
      BY <3>1, NodeStays DEF SyncInv
    <3>3. ForwardInv'
      BY <3>1, <3>2 DEF SyncInv, ForwardInv, fwdVars
    <3>4. EventInv'
      BY <3>1, <3>2 DEF SyncInv, EventInv, subVars, resolveVars
    <3> QED
      BY <3>2, <3>3, <3>4 DEF SyncInv
  <2> QED
    BY <2>1, <2>2, <2>3, <2>4 DEF Next, Exited
<1> QED
  BY <1>1, <1>2, PTL DEF Spec

-----------------------------------------------------------------------------
(* The results.                                                            *)

\* Every step of ForkSync is one of ForkHandler or leaves its variables alone.
LEMMA StepRefinesHandler ==
  ASSUME SyncInv, [Next]_vars
  PROVE  [ResolveNext]_<<tip, resolveVars>>
<1>0. /\ tip \in Blocks /\ nodeFinalized \in Blocks
      /\ Ancestors[nodeFinalized] \subseteq Ancestors[tip]
  BY AncestorsAreBlocks, AncestorsTransitive DEF SyncInv, NodeInv
<1>1. CASE NodeNext
  <2>1. /\ NodeInv' /\ Ancestors[nodeFinalized] \subseteq Ancestors[nodeFinalized']
    BY <1>1, NodeStep DEF SyncInv
  <2>2. tip' \in Blocks /\ Ancestors[nodeFinalized'] \subseteq Ancestors[tip']
    BY <2>1, AncestorsTransitive DEF NodeInv
  <2>3. sub # "select" => fork.block \in Ancestors[tip']
    BY <2>1, <2>2 DEF SyncInv, EventInv, ForkEvents
  <2>4. UNCHANGED resolveVars
    BY <1>1 DEF NodeNext, NewBlock, Reorganise, Finalize, subVars
  <2> QED
    BY <2>2, <2>3, <2>4 DEF ResolveNext, NodeMoves
<1>2. CASE ForwardNext
  BY <1>2 DEF ForwardNext, ForwardLoop, FetchNext, FetchNotFound, DatabaseAhead, ProcessCurrent,
         ProcessPrev, SendEvent, ForwardRetry, FetchFinalized, SendFork, nodeVars, subVars
<1>3. CASE ReceiveFork
  <2>1. Head(blockChan) \in BlockEvents \cup ForkEvents
    BY <1>3, ReceiveContent DEF ReceiveFork, SyncInv, EventInv
  <2>2. PICK e : e = Head(blockChan)
    OBVIOUS
  <2>3. e \in ForkEvents
    BY <1>3, <2>1, <2>2 DEF ReceiveFork, BlockEvents
  <2>4. e = ForkEvent(e.block, e.best, e.side)
    BY <2>3 DEF ForkEvents, ForkEvent, Event
  <2>5. /\ e.block \in Ancestors[tip] /\ e.side \in Blocks /\ e.best \in Blocks
        /\ Num[e.best] = Num[e.side] + 1
    BY <1>0, <2>3 DEF ForkEvents
  <2>6. Resolve(ForkEvent(e.block, e.best, e.side)) /\ UNCHANGED tip
    BY <1>3, <2>2, <2>4 DEF ReceiveFork, nodeVars
  <2> QED
    BY <2>5, <2>6 DEF ResolveNext, AnyFork
<1>4. CASE ResolveDelete \/ ResolveSearch \/ ResolveRecord
  BY <1>4 DEF ResolveDelete, ResolveSearch, ResolveRecord, ResolveNext, ResolveStep, nodeVars
<1>5. CASE ReceiveBlock \/ (\E b \in Blocks : StorePoints(b))
  BY <1>5 DEF ReceiveBlock, StorePoints, nodeVars
<1>6. CASE UNCHANGED vars
  BY <1>6 DEF vars, nodeVars, subVars
<1> QED
  BY <1>1, <1>2, <1>3, <1>4, <1>5, <1>6 DEF Next, SubscribeNext, Exited

\* The events the forward syncer sends and the way the node moves are among those
\* ForkHandler is proved for.
THEOREM HandlerRefined == Spec => ResolveSpec
<1>1. Init => AnyNode
  BY ForkSyncAssumption DEF Init, AnyNode
<1>2. SyncInv /\ [Next]_vars => [ResolveNext]_<<tip, resolveVars>>
  BY StepRefinesHandler
<1> QED
  BY <1>1, <1>2, SyncInvariance, PTL DEF Spec, ResolveSpec

\* What getSideChain finds, and when it fails, in the process.
THEOREM ForksFound == Spec => [](SideChainExact /\ FailsOnlyPastFinality)
BY HandlerRefined, SideChainFound, SearchFails, PTL

\* A block event pairs a block with another than its parent only after a
\* reorganisation.
THEOREM EventsLinked == Spec => []UnlinkedOnlyByReorg
<1>1. SyncInv => UnlinkedOnlyByReorg
  <2> SUFFICES ASSUME SyncInv, NEW i \in DOMAIN blockChan, blockChan[i].prev # None
               PROVE  /\ Num[blockChan[i].prev] + 1 = Num[blockChan[i].block]
                      /\ Parent[blockChan[i].block] = blockChan[i].prev \/ reorgs > 0
    BY DEF UnlinkedOnlyByReorg
  <2>1. blockChan[i] \in BlockEvents \cup ForkEvents
    BY LenProperties, ElementOfSeq DEF SyncInv, EventInv
  <2> QED
    BY <2>1 DEF BlockEvents, ForkEvents
<1> QED
  BY <1>1, SyncInvariance, PTL

\* The forward syncer moves to a child of the block it remembers, or to a finalized
\* block.
THEOREM BranchFollowed == Spec => FollowsOneBranch
<1>1. SyncInv /\ [Next]_vars =>
        [prev' # prev => \/ prev' # Genesis /\ Parent[prev'] = prev
                         \/ prev' \in Ancestors[nodeFinalized]]_vars
  <2> SUFFICES ASSUME SyncInv, [Next]_vars, prev' # prev
               PROVE  \/ prev' # Genesis /\ Parent[prev'] = prev
                      \/ prev' \in Ancestors[nodeFinalized]
    OBVIOUS
  <2>1. CASE SendEvent
    BY <2>1 DEF SendEvent, SyncInv, ForwardInv
  <2>2. CASE SendFork
    BY <2>2 DEF SendFork, SyncInv, ForwardInv
  <2>3. CASE UNCHANGED prev
    BY <2>3
  <2> QED
    BY <2>1, <2>2, <2>3 DEF Next, Exited, vars, fwdVars, NodeNext, NewBlock, Reorganise, Finalize,
       ForwardNext, ForwardLoop, FetchNext, FetchNotFound, DatabaseAhead, ProcessCurrent, ProcessPrev,
       ForwardRetry, FetchFinalized, SubscribeNext, ReceiveBlock, ReceiveFork, ResolveDelete,
       ResolveSearch, ResolveRecord, StorePoints
<1> QED
  BY <1>1, SyncInvariance, PTL DEF Spec, FollowsOneBranch

\* No finalized block is recorded as forked while the node stays on the branch the
\* search compares with.
THEOREM ForkedRecorded == Spec => OnlyForkedRecorded
<1>1. SyncInv /\ SideChainExact /\ [Next]_vars =>
        [(bestChainBlock \in Ancestors[tip]) =>
            forkPoints' \cap Ancestors[nodeFinalized] \subseteq forkPoints]_vars
  <2> SUFFICES ASSUME SyncInv, SideChainExact, [Next]_vars, bestChainBlock \in Ancestors[tip]
               PROVE  forkPoints' \cap Ancestors[nodeFinalized] \subseteq forkPoints
    OBVIOUS
  <2>1. CASE ResolveRecord
    <3>1. /\ forkPoints' = forkPoints \cup ToSet(sideChain)
          /\ ToSet(sideChain) = Ancestors[fork.side] \ Ancestors[tip]
      BY <2>1 DEF ResolveRecord, FindAncestor, WriteForkedBlock, SideChainExact
    <3>2. Ancestors[nodeFinalized] \subseteq Ancestors[tip]
      BY AncestorsTransitive DEF SyncInv, NodeInv
    <3> QED
      BY <3>1, <3>2
  <2>2. CASE UNCHANGED forkPoints
    BY <2>2
  <2> QED
    BY <2>1, <2>2 DEF Next, Exited, vars, subVars, NodeNext, NewBlock, Reorganise, Finalize,
       ForwardNext, ForwardLoop, FetchNext, FetchNotFound, DatabaseAhead, ProcessCurrent, ProcessPrev,
       SendEvent, SendFork, ForwardRetry, FetchFinalized, SubscribeNext, ReceiveBlock, ReceiveFork,
       ResolveDelete, ResolveSearch, StorePoints
<1> QED
  BY <1>1, SyncInvariance, HandlerRefined, SideChainFound, PTL DEF Spec, OnlyForkedRecorded
=============================================================================
