------------------------------ MODULE Consumer ------------------------------
(***************************************************************************)
(* What pubsub/subscriber.go promises to the rest of the process, without  *)
(* its worker pool: Subscribe receives events as long as the context is    *)
(* not cancelled and the channel not closed and drained, then leaves, and  *)
(* its handlers write to the database until it has returned, never after.  *)
(* Subscriber implements this specification; Thorflux composes it with the *)
(* publisher and the command.                                              *)
(***************************************************************************)
EXTENDS Naturals, Sequences

CONSTANTS
    Writes,         \* what the handlers may hand to db.WritePoints
    Events,         \* the block events that can be published
    ChanSize        \* capacity of blockChan

VARIABLES
    blockChan,      \* content of the channel of block events
    chanClosed,     \* the publisher closed it
    ctxDone,        \* the command's context has been cancelled
    consumer,       \* Subscribe: "receiving", "leaving", "returned"
    written         \* what was handed to the database

consumerVars == <<consumer, written>>
vars == <<blockChan, chanClosed, ctxDone, consumerVars>>

ConsumerInit ==
    /\ consumer = "receiving"
    /\ written = {}

Receive ==
    /\ consumer = "receiving"
    /\ blockChan # <<>>
    /\ blockChan' = Tail(blockChan)
    /\ UNCHANGED <<consumerVars, chanClosed, ctxDone>>

\* Variant of Leave: an empty channel is taken for a closed one.
LeaveWhenEmpty ==
    /\ consumer = "receiving"
    /\ ctxDone \/ blockChan = <<>>
    /\ consumer' = "leaving"
    /\ UNCHANGED <<written, blockChan, chanClosed, ctxDone>>

Leave ==
    /\ consumer = "receiving"
    /\ ctxDone \/ (chanClosed /\ blockChan = <<>>)
    /\ consumer' = "leaving"
    /\ UNCHANGED <<written, blockChan, chanClosed, ctxDone>>

Return ==
    /\ consumer = "leaving"
    /\ consumer' = "returned"
    /\ UNCHANGED <<written, blockChan, chanClosed, ctxDone>>

\* A handler, of an event received at any time before, has its points written.
Write(p) ==
    /\ consumer # "returned"
    /\ written' = written \cup {p}
    /\ UNCHANGED <<consumer, blockChan, chanClosed, ctxDone>>

ConsumerStep == Receive \/ Leave \/ Return

\* The publisher and the command.
Environment ==
    /\ \/ /\ ~chanClosed /\ Len(blockChan) < ChanSize
          /\ \E e \in Events : blockChan' = Append(blockChan, e)
          /\ UNCHANGED <<chanClosed, ctxDone>>
       \/ ~chanClosed /\ chanClosed' = TRUE /\ UNCHANGED <<blockChan, ctxDone>>
       \/ ~ctxDone /\ ctxDone' = TRUE /\ UNCHANGED <<blockChan, chanClosed>>
    /\ UNCHANGED consumerVars

Init ==
    /\ ConsumerInit
    /\ blockChan = <<>> /\ chanClosed = FALSE /\ ctxDone = FALSE

Next ==
    \/ ConsumerStep
    \/ \E p \in Writes : Write(p)
    \/ Environment

Spec == Init /\ [][Next]_vars

\* The consumer never stops receiving while there is something to receive, and
\* returns once it has left its loop.
Fairness == WF_vars(ConsumerStep)
=============================================================================
