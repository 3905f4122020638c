----------------------------- MODULE MCForkSync -----------------------------
(***************************************************************************)
(* ForkSync on a chain g - a1 - a2 with a branch b1 - b2 - b3 off g.       *)
(***************************************************************************)
EXTENDS ForkSync

MCBlocks == {"g", "a1", "a2", "b1", "b2", "b3"}
MCParent == [a1 |-> "g", a2 |-> "a1", b1 |-> "g", b2 |-> "b1", b3 |-> "b2"]
MCNum == [g |-> 0, a1 |-> 1, a2 |-> 2, b1 |-> 1, b2 |-> 2, b3 |-> 3]
=============================================================================
