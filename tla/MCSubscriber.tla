---------------------------- MODULE MCSubscriber ----------------------------
(* The subscriber and its pool on a small instance. *)
EXTENDS Subscriber

\* A fork between two blocks: every task of a block event, none of the fork.
MCTasks == (Events \ ForkEvents) \X Handlers
=============================================================================
