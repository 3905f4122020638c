---------------------------- MODULE ForkHandler ----------------------------
(***************************************************************************)
(* pubsub/fork_handler.go: Resolve, and in it getSideChain, the search for *)
(* the blocks of a side chain, from the block the forward syncer held back *)
(* to the common ancestor with the node's branch, one request at a time.   *)
(* The node may change its best block between any two of them.             *)
(*                                                                         *)
(* By itself the module resolves every fork event there could be, on a     *)
(* node that moves as it likes above the finalized block of the event.     *)
(* ForkSync has the node, the forward syncer and the database, with what   *)
(* Delete and FindAncestor do to it.                                       *)
(***************************************************************************)
EXTENDS BlockTree, Sequences, SequencesExt

None == "none"      \* no block

VARIABLES
    tip,            \* node: best block
    sub,            \* where Subscribe is: "select", or Resolve: "delete", "ask", "walk"
    fork,           \* Resolve: the fork event being resolved
    bestChainBlock, \* getSideChain: bestChainBlock
    sideChain       \* getSideChain: sideChain

searchVars == <<bestChainBlock, sideChain>>
resolveVars == <<sub, fork, searchVars>>

\* A fork event: Finalized, Best and SideChain.
ForkEvent(f, b, s) == [kind |-> "fork", block |-> f, prev |-> None, best |-> b, side |-> s]
NoFork == ForkEvent(Genesis, Genesis, Genesis)

ResolveInit ==
    /\ sub = "select" /\ fork = NoFork
    /\ bestChainBlock = Genesis /\ sideChain = <<>>

\* Subscribe receives a fork event: Resolve starts.
Resolve(e) ==
    /\ sub = "select"
    /\ sub' = "delete"
    /\ fork' = e
    /\ UNCHANGED searchVars

\* Resolve returns, and what it held is gone.
Return ==
    /\ sub' = "select" /\ fork' = NoFork
    /\ bestChainBlock' = Genesis /\ sideChain' = <<>>

\* The points later than the finalized block are deleted.
Delete ==
    /\ sub = "delete"
    /\ sub' = "ask"
    /\ UNCHANGED <<fork, searchVars>>

\* The node's block at the height of the side chain is requested by number: an
\* error, or the held block itself, which is on the node's branch again, ends the
\* search.
Ask ==
    /\ sub = "ask"
    /\ LET n == Num[fork.side] IN
       IF n > Num[fork.best] \/ ~HasHeight(tip, n) \/ AtHeight(tip, n) = fork.side
       THEN Return
       ELSE /\ sub' = "walk"
            /\ bestChainBlock' = AtHeight(tip, n)
            /\ sideChain' = <<fork.side>>
            /\ UNCHANGED fork

\* The parents of the two branches, requested by identifier.
BestParent == Parent[bestChainBlock]
SideParent == Parent[Last(sideChain)]

\* They are the common ancestor.
Met == SideParent = BestParent

\* Variant of PastFinality: the common ancestor may be at that height.
PastFinalityFirst == Num[SideParent] = Num[fork.block]

\* They are not, and the side chain has reached the height of the finalized block.
PastFinality == ~Met /\ Num[SideParent] = Num[fork.block]

\* The common ancestor is found: the side chain is complete.
FindAncestor == sub = "walk" /\ Met /\ Return

\* The search ends in an error, which is only logged.
ReachFinalized == sub = "walk" /\ PastFinality /\ Return

\* Variant of StepToParents: the block reached on the node's branch is collected.
StepCollectsBest ==
    /\ sub = "walk" /\ ~Met /\ ~PastFinality
    /\ sideChain' = Append(sideChain, BestParent)
    /\ bestChainBlock' = BestParent
    /\ UNCHANGED <<sub, fork>>

\* Both branches go one block down.
StepToParents ==
    /\ sub = "walk" /\ ~Met /\ ~PastFinality
    /\ sideChain' = Append(sideChain, SideParent)
    /\ bestChainBlock' = BestParent
    /\ UNCHANGED <<sub, fork>>

\* A request of Resolve fails, to the database or to the node: it returns.
ResolveFails == sub # "select" /\ Return

ResolveStep == Delete \/ Ask \/ FindAncestor \/ ReachFinalized \/ StepToParents \/ ResolveFails

-----------------------------------------------------------------------------
(* Any event, on any node.                                                 *)

\* The forward syncer has found that the block after side is best, which is not
\* its child; the finalized block is on the node's branch.
AnyFork ==
    /\ \E f \in Ancestors[tip], s \in Blocks, b \in Blocks :
           Num[b] = Num[s] + 1 /\ Resolve(ForkEvent(f, b, s))
    /\ UNCHANGED tip

\* The node never leaves a finalized block.
NodeMoves ==
    /\ tip' \in Blocks
    /\ sub # "select" => fork.block \in Ancestors[tip']
    /\ UNCHANGED resolveVars

ResolveNext == AnyFork \/ NodeMoves \/ (ResolveStep /\ UNCHANGED tip)

\* The node is on any block, and no fork is being resolved.
AnyNode == tip \in Blocks /\ ResolveInit

ResolveSpec == AnyNode /\ [][ResolveNext]_<<tip, resolveVars>>

-----------------------------------------------------------------------------
(* Properties.                                                             *)

\* When the search succeeds and the node is still on the branch it has been
\* compared with, it has collected exactly the blocks of the held block's branch
\* that are not on the node's branch, from the held block downwards, each the
\* parent of the one before.
SideChainExact ==
    sub = "walk" /\ Met =>
        /\ bestChainBlock \in Ancestors[tip] =>
               ToSet(sideChain) = Ancestors[fork.side] \ Ancestors[tip]
        /\ sideChain[1] = fork.side
        /\ \A i \in 1 .. Len(sideChain) - 1 : sideChain[i + 1] = Parent[sideChain[i]]

\* The search fails exactly when finality has passed the fork point, which is when
\* the finalized block is below the held block and not an ancestor of it.  It never
\* asks for the parent of the genesis block.
FailsOnlyPastFinality ==
    sub = "walk" =>
        LET passed == /\ Num[fork.block] < Num[fork.side]
                      /\ fork.block \notin Ancestors[fork.side]
        IN  /\ PastFinality => passed
            /\ Met => ~passed
            /\ bestChainBlock # Genesis /\ Last(sideChain) # Genesis

-----------------------------------------------------------------------------
(* What makes them inductive.                                              *)

\* The event is one the forward syncer could send, and the node is still above the
\* finalized block.
EventHeld ==
    /\ tip \in Blocks
    /\ sub \in {"select", "delete", "ask", "walk"}
    /\ sub # "select" =>
           /\ fork \in [kind : {"fork"}, block : Blocks, prev : {None}, best : Blocks, side : Blocks]
           /\ fork.block \in Ancestors[tip]

\* The chain collected so far goes from the held block to its last element, which
\* has a rival of the same height; finality is below both, or not below the held
\* block.
Searching ==
    sub = "walk" =>
        LET last == Last(sideChain) IN
        /\ bestChainBlock \in Blocks /\ sideChain \in Seq(Blocks) \ {<<>>}
        /\ sideChain[1] = fork.side
        /\ \A i \in 1 .. Len(sideChain) - 1 : sideChain[i + 1] = Parent[sideChain[i]]
        /\ \A b \in ToSet(sideChain) : last \in Ancestors[b]
        /\ Ancestors[fork.side] = ToSet(sideChain) \cup Ancestors[last]
        /\ Num[last] = Num[bestChainBlock] /\ last # bestChainBlock
        /\ \/ Num[fork.side] <= Num[fork.block]
           \/ Num[fork.block] < Num[last] /\ fork.block \in Ancestors[bestChainBlock]

ResolveInv == EventHeld /\ Searching
=============================================================================
