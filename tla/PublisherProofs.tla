-------------------------- MODULE PublisherProofs --------------------------
(***************************************************************************)
(* Proofs about Publisher, for any number of workers, any channel          *)
(* capacities, any window and any behaviour of the node.  IndInv is shown  *)
(* to be inductive; the invariants the runs check follow from it, and      *)
(* ForwardInOrder is inductive on top of it.                               *)
(***************************************************************************)
EXTENDS Publisher, ChannelLemmas

USE DEF chanVars, backVars, fwdVars, linkVars, nodeVars

-----------------------------------------------------------------------------
(* Heights and the channel of events.                                      *)

\* The window lies between the lowest height and the head of the backward syncer.
LEMMA WindowBounds ==
    /\ FirstNum \in Nat /\ FirstNum >= 1 /\ FirstNum <= MaxNum /\ MaxNum \in Nat
    /\ Lowest \in Nat /\ Lowest <= FirstNum
    /\ \A n : n \in Window <=> n \in Nat /\ n <= FirstNum /\ n > Lowest /\ n > 0
<1>1. FirstNum \in Nat /\ FirstNum >= 1 /\ FirstNum <= MaxNum /\ MaxNum \in Nat /\ BackSync \in Nat
    BY PublisherHeightsAssumption, WidthAssumption DEF UInt
<1>2. Lowest \in Nat /\ Lowest <= FirstNum
    BY <1>1 DEF Lowest, MinBlock, Sub32
<1>3. ASSUME NEW n
      PROVE n \in Window <=> n \in Nat /\ n <= FirstNum /\ n > Lowest /\ n > 0
    <2>1. FirstNum \in 0 .. Width - 1 /\ Width \in Nat
        BY PublisherHeightsAssumption, WidthAssumption DEF UInt
    <2> QED BY <1>1, <1>2, <2>1 DEF Window, Generated, UInt
<1> QED BY <1>1, <1>2, <1>3

\* Sending a backward event that is not in the channel keeps them distinct.
LEMMA SendBackOnce ==
    ASSUME NEW s \in Seq(Event), NEW e \in Event, BackOnce(s),
           e[1] = "back" => e \notin ToSet(s)
    PROVE  BackOnce(Append(s, e))
<1> DEFINE a == Append(s, e)
<1>1. /\ a \in Seq(Event) /\ Len(a) = Len(s) + 1
      /\ \A i \in 1 .. Len(s) : a[i] = s[i]
      /\ a[Len(s) + 1] = e
    BY AppendProperties
<1>2. DOMAIN a = 1 .. Len(s) + 1 /\ DOMAIN s = 1 .. Len(s) /\ Len(s) \in Nat
    BY <1>1
<1>3. \A i \in 1 .. Len(s) : e[1] = "back" => a[i] # e
    BY <1>1, <1>2 DEF ToSet
<1> SUFFICES ASSUME NEW i \in 1 .. Len(s) + 1, NEW j \in 1 .. Len(s) + 1,
                    a[i] = a[j], a[i][1] = "back"
             PROVE  i = j
    BY <1>2 DEF BackOnce
<1>4. CASE i = Len(s) + 1 /\ j = Len(s) + 1
    BY <1>4
<1>5. CASE i = Len(s) + 1 /\ j \in 1 .. Len(s)
    BY <1>5, <1>1, <1>3
<1>6. CASE j = Len(s) + 1 /\ i \in 1 .. Len(s)
    BY <1>6, <1>1, <1>3
<1>7. CASE i \in 1 .. Len(s) /\ j \in 1 .. Len(s)
    BY <1>7, <1>1, <1>2 DEF BackOnce
<1> QED BY <1>2, <1>4, <1>5, <1>6, <1>7

\* Receiving keeps them distinct, and takes a backward event away.
LEMMA ReceiveBackOnce ==
    ASSUME NEW s \in Seq(Event), s # <<>>, BackOnce(s)
    PROVE  /\ BackOnce(Tail(s))
           /\ Head(s)[1] = "back" => Head(s) \notin ToSet(Tail(s))
<1> DEFINE t == Tail(s)
<1>1. /\ t \in Seq(Event) /\ Len(t) = Len(s) - 1
      /\ \A i \in 1 .. Len(t) : t[i] = s[i + 1]
    BY HeadTailProperties
<1>2. Len(s) \in Nat /\ Len(s) >= 1 /\ Head(s) = s[1]
    <2>1. Len(s) \in Nat /\ Len(s) # 0
        BY EmptySeq
    <2> QED BY <2>1
<1>3. DOMAIN s = 1 .. Len(s) /\ DOMAIN t = 1 .. Len(s) - 1
    BY <1>1
<1>4. ASSUME NEW i \in 1 .. Len(s) - 1
      PROVE  i + 1 \in 1 .. Len(s) /\ t[i] = s[i + 1] /\ i + 1 # 1
    BY <1>1, <1>2
<1>5. BackOnce(t)
    <2> SUFFICES ASSUME NEW i \in 1 .. Len(s) - 1, NEW j \in 1 .. Len(s) - 1,
                        t[i] = t[j], t[i][1] = "back"
                 PROVE  i = j
        BY <1>3 DEF BackOnce
    <2>1. i + 1 = j + 1
        BY <1>3, <1>4 DEF BackOnce
    <2> QED BY <2>1
<1>6. ASSUME Head(s)[1] = "back" PROVE Head(s) \notin ToSet(t)
    <2> SUFFICES ASSUME NEW i \in 1 .. Len(s) - 1
                 PROVE  t[i] # Head(s)
        BY <1>3 DEF ToSet
    <2>1. 1 \in 1 .. Len(s)
        BY <1>2
    <2> QED BY <2>1, <1>2, <1>3, <1>4, <1>6 DEF BackOnce
<1> QED BY <1>5, <1>6

\* A worker's height is among those at workers when it processes or sends it.
LEMMA AtWorkersMember ==
    \A n : n \in AtWorkers <=> \E v \in BackWorkers : worker[v] \in {"process", "send"} /\ height[v] = n
BY DEF AtWorkers

\* The same in the next state.
LEMMA AtWorkersMemberNext ==
    \A n : n \in AtWorkers' <=> \E v \in BackWorkers : worker'[v] \in {"process", "send"} /\ height'[v] = n
BY DEF AtWorkers

-----------------------------------------------------------------------------
(* The inductive invariant.                                                *)

\* NewPublisher and Run's start establish the invariant.
LEMMA InitInv == Init => IndInv
<1> SUFFICES ASSUME Init PROVE IndInv
    OBVIOUS
<1> USE DEF Init, PublisherInit
<1>1. TypeOK
    <2>1. <<>> \in Seq(Window) /\ <<>> \in Seq(Event) /\ Len(<<>>) = 0
        BY EmptySeq
    <2>2. 0 <= WorkChanSize /\ 0 <= ChanSize
        BY PublisherSizesAssumption
    <2>3. /\ FirstNum \in 0 .. FirstNum /\ FirstNum \in Heights /\ FirstNum - 1 \in Heights
          /\ 0 \in Heights /\ 0 \in 0 .. MaxForks
        BY WindowBounds, PublisherHeightsAssumption DEF Heights
    <2>4. /\ blockChan \in Seq(Event) /\ Len(blockChan) <= ChanSize
          /\ workChan \in Seq(Window) /\ Len(workChan) <= WorkChanSize
        BY <2>1, <2>2
    <2> QED BY <2>3, <2>4 DEF TypeOK, FwdStates
<1>2. /\ ToGenerate = Window /\ ToSet(workChan) = {} /\ AtWorkers = {} /\ InChan = {}
    <2>1. ToGenerate = Window
        BY WindowBounds DEF ToGenerate
    <2> QED BY <2>1, EmptyContent, AtWorkersMember DEF InChan
<1>3. NoSendAfterClose /\ NoHeightLost
    BY <1>2 DEF NoSendAfterClose, NoHeightLost
<1>4. NoHeightTwice
    BY <1>2, EmptyContent DEF NoHeightTwice, BackOnce
<1>5. SyncersFollowRun
    BY DEF SyncersFollowRun
<1> QED BY <1>1, <1>3, <1>4, <1>5 DEF IndInv

\* The generator sends a height, ends, or returns.
LEMMA GeneratorInv ==
    ASSUME IndInv, GeneratorStep,
           UNCHANGED <<fwdVars, linkVars, ctxDone, nodeVars, delivered>>
    PROVE  IndInv'
<1> USE DEF IndInv
<1>1. CASE GenerateHeight
    <2> USE <1>1 DEF GenerateHeight
    <2>1. /\ workChan \in Seq(Window) /\ blockNum \in 0 .. FirstNum /\ blockNum \in Window
          /\ Len(workChan) \in Nat
        BY WindowBounds DEF TypeOK, InLoop
    <2>2. /\ workChan' \in Seq(Window) /\ Len(workChan') = Len(workChan) + 1
          /\ ToSet(workChan') = ToSet(workChan) \cup {blockNum}
        BY <2>1, SendContent
    <2>3. blockNum \in ToGenerate /\ ToGenerate' = ToGenerate \ {blockNum}
        BY <2>1, WindowBounds DEF ToGenerate
    <2>4. IsInjective(workChan')
        BY <2>1, <2>3, SendInjective DEF NoHeightTwice
    <2>5. AtWorkers' = AtWorkers /\ InChan' = InChan
        BY DEF AtWorkers, InChan
    <2>6. TypeOK'
        <3>1. Len(workChan') <= WorkChanSize
            BY <2>1, <2>2, PublisherSizesAssumption
        <3>2. blockNum' \in 0 .. FirstNum
            BY <2>1, WindowBounds
        <3> QED BY <2>2, <3>1, <3>2 DEF TypeOK
    <2>7. NoHeightLost'
        BY <2>2, <2>3, <2>5 DEF NoHeightLost
    <2>8. NoHeightTwice'
        BY <2>2, <2>3, <2>4, <2>5 DEF NoHeightTwice
    <2>9. SyncersFollowRun'
        BY DEF SyncersFollowRun, InLoop
    <2> QED BY <2>6, <2>7, <2>8, <2>9 DEF NoSendAfterClose
<1>2. CASE GenerateEnd \/ BackwardReturn
    <2> USE <1>2 DEF GenerateEnd, BackwardReturn
    <2>1. ToGenerate' = ToGenerate /\ AtWorkers' = AtWorkers /\ InChan' = InChan
        BY DEF ToGenerate, AtWorkers, InChan
    <2>2. TypeOK'
        BY DEF TypeOK
    <2>3. NoHeightLost' /\ NoHeightTwice'
        BY <2>1 DEF NoHeightLost, NoHeightTwice
    <2>4. SyncersFollowRun'
        BY DEF SyncersFollowRun, InLoop
    <2> QED BY <2>2, <2>3, <2>4 DEF NoSendAfterClose
<1> QED BY <1>1, <1>2 DEF GeneratorStep

\* A backward worker takes a height.
LEMMA TakeHeightInv ==
    ASSUME IndInv, NEW w \in BackWorkers, TakeHeight(w),
           UNCHANGED <<fwdVars, linkVars, ctxDone, nodeVars, delivered>>
    PROVE  IndInv'
<1> USE DEF IndInv, TakeHeight
<1> DEFINE h == Head(workChan)
<1>1. /\ workChan \in Seq(Window) /\ Len(workChan) <= WorkChanSize /\ Len(workChan) \in Nat
      /\ worker \in [BackWorkers -> {"select", "process", "send", "exited"}]
      /\ height \in [BackWorkers -> Heights]
    BY DEF TypeOK
<1>2. /\ h \in Window /\ workChan' \in Seq(Window) /\ Len(workChan') = Len(workChan) - 1
      /\ ToSet(workChan) = ToSet(workChan') \cup {h}
    BY <1>1, ReceiveContent
<1>3. IsInjective(workChan') /\ h \notin ToSet(workChan')
    BY <1>1, ReceiveInjective DEF NoHeightTwice
<1>4. \A v \in BackWorkers : /\ worker'[v] = IF v = w THEN "process" ELSE worker[v]
                             /\ height'[v] = IF v = w THEN h ELSE height[v]
    BY <1>1
<1>5. AtWorkers' = AtWorkers \cup {h}
    <2>1. ASSUME NEW n PROVE n \in AtWorkers' <=> n \in AtWorkers \cup {h}
        BY <1>4, AtWorkersMember, AtWorkersMemberNext
    <2> QED BY <2>1
<1>6. ToGenerate' = ToGenerate /\ InChan' = InChan
    BY DEF ToGenerate, InChan
<1>7. TypeOK'
    <2>1. Len(workChan') <= WorkChanSize
        BY <1>1, <1>2, PublisherSizesAssumption
    <2>2. h \in Heights
        BY <1>2, WindowBounds DEF Heights
    <2>3. worker' \in [BackWorkers -> {"select", "process", "send", "exited"}] /\ height' \in [BackWorkers -> Heights]
        BY <1>1, <2>2
    <2> QED BY <1>2, <2>1, <2>3 DEF TypeOK
<1>8. NoHeightLost'
    BY <1>2, <1>5, <1>6 DEF NoHeightLost
<1>9. NoHeightTwice'
    <2>1. \A v \in BackWorkers : worker[v] \in {"process", "send"} => height[v] # h
        BY <1>2, AtWorkersMember DEF NoHeightTwice
    <2>2. \A u, v \in BackWorkers :
            u # v /\ {worker'[u], worker'[v]} \subseteq {"process", "send"} => height'[u] # height'[v]
        BY <1>4, <2>1 DEF NoHeightTwice
    <2>3. BackOnce(blockChan')
        BY DEF NoHeightTwice
    <2> QED BY <1>2, <1>3, <1>5, <1>6, <2>2, <2>3 DEF NoHeightTwice
<1>10. SyncersFollowRun'
    BY <1>2, <1>4 DEF SyncersFollowRun, InLoop
<1> QED BY <1>7, <1>8, <1>9, <1>10 DEF NoSendAfterClose

\* A backward worker returns; only a cancellation makes it drop a height.
LEMMA WorkerExitInv ==
    ASSUME IndInv, NEW w \in BackWorkers, WorkerExit(w),
           UNCHANGED <<fwdVars, linkVars, ctxDone, nodeVars, delivered>>
    PROVE  IndInv'
<1> USE DEF IndInv, WorkerExit
<1>1. worker \in [BackWorkers -> {"select", "process", "send", "exited"}]
    BY DEF TypeOK
<1>2. \A v \in BackWorkers : worker'[v] = IF v = w THEN "exited" ELSE worker[v]
    BY <1>1
<1>3. AtWorkers' \subseteq AtWorkers /\ (~ctxDone => AtWorkers' = AtWorkers)
    <2>1. ASSUME NEW n PROVE n \in AtWorkers' => n \in AtWorkers
        BY <1>2, AtWorkersMember, AtWorkersMemberNext
    <2>2. ASSUME ~ctxDone, NEW n PROVE n \in AtWorkers => n \in AtWorkers'
        BY <1>2, <2>2, AtWorkersMember, AtWorkersMemberNext
    <2> QED BY <2>1, <2>2
<1>4. ToGenerate' = ToGenerate /\ InChan' = InChan
    BY DEF ToGenerate, InChan
<1>5. TypeOK'
    <2>1. worker' \in [BackWorkers -> {"select", "process", "send", "exited"}]
        BY <1>1
    <2> QED BY <2>1 DEF TypeOK
<1>6. NoHeightLost'
    BY <1>3, <1>4 DEF NoHeightLost
<1>7. NoHeightTwice'
    <2>1. \A u, v \in BackWorkers :
            u # v /\ {worker'[u], worker'[v]} \subseteq {"process", "send"} => height'[u] # height'[v]
        BY <1>2 DEF NoHeightTwice
    <2> QED BY <1>3, <1>4, <2>1 DEF NoHeightTwice
<1>8. SyncersFollowRun'
    BY <1>2 DEF SyncersFollowRun, InLoop
<1> QED BY <1>5, <1>6, <1>7, <1>8 DEF NoSendAfterClose

\* ProcessBlock succeeds or fails.
LEMMA ProcessHeightInv ==
    ASSUME IndInv, NEW w \in BackWorkers, ProcessHeight(w),
           UNCHANGED <<fwdVars, linkVars, ctxDone, nodeVars, delivered>>
    PROVE  IndInv'
<1> USE DEF IndInv, ProcessHeight
<1>1. worker \in [BackWorkers -> {"select", "process", "send", "exited"}] /\ height[w] \in Window
    BY DEF TypeOK, SyncersFollowRun
<1>2. ToGenerate' = ToGenerate /\ InChan' = InChan
    BY DEF ToGenerate, InChan
<1>3. CASE worker' = [worker EXCEPT ![w] = "send"] /\ UNCHANGED failed
    <2>1. \A v \in BackWorkers : worker'[v] = IF v = w THEN "send" ELSE worker[v]
        BY <1>1, <1>3
    <2>2. AtWorkers' = AtWorkers
        <3>1. ASSUME NEW n PROVE n \in AtWorkers' <=> n \in AtWorkers
            BY <2>1, AtWorkersMember, AtWorkersMemberNext
        <3> QED BY <3>1
    <2>3. TypeOK'
        <3>1. worker' \in [BackWorkers -> {"select", "process", "send", "exited"}]
            BY <1>1, <1>3
        <3> QED BY <1>3, <3>1 DEF TypeOK
    <2>4. NoHeightLost'
        BY <1>2, <1>3, <2>2 DEF NoHeightLost
    <2>5. NoHeightTwice'
        <3>1. \A u, v \in BackWorkers :
                u # v /\ {worker'[u], worker'[v]} \subseteq {"process", "send"} => height'[u] # height'[v]
            BY <2>1 DEF NoHeightTwice
        <3> QED BY <1>2, <1>3, <2>2, <3>1 DEF NoHeightTwice
    <2>6. SyncersFollowRun'
        BY <2>1 DEF SyncersFollowRun, InLoop
    <2> QED BY <2>3, <2>4, <2>5, <2>6 DEF NoSendAfterClose
<1>4. CASE worker' = [worker EXCEPT ![w] = "select"] /\ failed' = failed \cup {height[w]}
    <2>1. \A v \in BackWorkers : worker'[v] = IF v = w THEN "select" ELSE worker[v]
        BY <1>1, <1>4
    <2>2. AtWorkers' = AtWorkers \ {height[w]} /\ height[w] \in AtWorkers
        <3>1. ASSUME NEW n PROVE n \in AtWorkers' <=> n \in AtWorkers \ {height[w]}
            BY <2>1, AtWorkersMember, AtWorkersMemberNext DEF NoHeightTwice
        <3> QED BY <3>1, AtWorkersMember
    <2>3. TypeOK'
        <3>1. worker' \in [BackWorkers -> {"select", "process", "send", "exited"}]
            BY <1>1, <1>4
        <3> QED BY <1>1, <1>4, <3>1 DEF TypeOK
    <2>4. NoHeightLost'
        BY <1>2, <1>4, <2>2 DEF NoHeightLost
    <2>5. NoHeightTwice'
        <3>1. \A u, v \in BackWorkers :
                u # v /\ {worker'[u], worker'[v]} \subseteq {"process", "send"} => height'[u] # height'[v]
            BY <2>1 DEF NoHeightTwice
        <3> QED BY <1>2, <1>4, <2>2, <3>1 DEF NoHeightTwice
    <2>6. SyncersFollowRun'
        BY <2>1 DEF SyncersFollowRun, InLoop
    <2> QED BY <2>3, <2>4, <2>5, <2>6 DEF NoSendAfterClose
<1> QED BY <1>3, <1>4

\* A syncer that has not returned sends on an open channel with room.
LEMMA SendOpen ==
    ASSUME IndInv, NEW e \in Event, SendBlock(e), ~chanClosed
    PROVE  /\ blockChan' = Append(blockChan, e)
           /\ blockChan' \in Seq(Event) /\ Len(blockChan') <= ChanSize
           /\ ToSet(blockChan') = ToSet(blockChan) \cup {e}
           /\ UNCHANGED <<chanClosed, sendPanic>>
<1>1. /\ blockChan \in Seq(Event) /\ Len(blockChan) < ChanSize
      /\ blockChan' = Append(blockChan, e) /\ UNCHANGED <<chanClosed, sendPanic>>
    BY DEF IndInv, TypeOK, SendBlock
<1>2. /\ blockChan' \in Seq(Event) /\ Len(blockChan') = Len(blockChan) + 1
      /\ ToSet(blockChan') = ToSet(blockChan) \cup {e}
    BY <1>1, SendContent
<1>3. Len(blockChan) \in Nat
    BY <1>1
<1> QED BY <1>1, <1>2, <1>3, PublisherSizesAssumption

\* A backward worker sends its event.
LEMMA SendHeightInv ==
    ASSUME IndInv, NEW w \in BackWorkers, SendHeight(w),
           UNCHANGED <<fwdVars, linkVars, ctxDone, nodeVars, delivered>>
    PROVE  IndInv'
<1> USE DEF IndInv
<1> DEFINE n == height[w]
           e == <<"back", n>>
<1>1. /\ worker \in [BackWorkers -> {"select", "process", "send", "exited"}]
      /\ n \in Window /\ worker[w] = "send" /\ ~chanClosed
    BY DEF TypeOK, SyncersFollowRun, SendHeight
<1>2. e \in Event
    BY <1>1, WindowBounds DEF Event, Heights
<1>3. /\ blockChan' = Append(blockChan, e) /\ UNCHANGED <<chanClosed, sendPanic>>
      /\ blockChan' \in Seq(Event) /\ Len(blockChan') <= ChanSize
      /\ ToSet(blockChan') = ToSet(blockChan) \cup {e}
    BY <1>1, <1>2, SendOpen DEF SendHeight
<1>4. /\ worker' = [worker EXCEPT ![w] = "select"]
      /\ UNCHANGED <<gen, blockNum, workChan, workClosed, height, failed>>
    BY DEF SendHeight
<1>5. \A v \in BackWorkers : worker'[v] = IF v = w THEN "select" ELSE worker[v]
    BY <1>1, <1>4
<1>6. AtWorkers' = AtWorkers \ {n} /\ n \in AtWorkers
    <2>1. ASSUME NEW m PROVE m \in AtWorkers' <=> m \in AtWorkers \ {n}
        BY <1>1, <1>4, <1>5, AtWorkersMember, AtWorkersMemberNext DEF NoHeightTwice
    <2> QED BY <1>1, <2>1, AtWorkersMember
<1>7. InChan' = InChan \cup {n} /\ n \notin InChan
    <2>1. InChan' = InChan \cup {n}
        BY <1>1, <1>3 DEF InChan
    <2> QED BY <1>6, <2>1 DEF NoHeightTwice
<1>8. ToGenerate' = ToGenerate
    BY <1>4 DEF ToGenerate
<1>9. TypeOK'
    <2>1. worker' \in [BackWorkers -> {"select", "process", "send", "exited"}]
        BY <1>1, <1>4
    <2> QED BY <1>3, <1>4, <2>1 DEF TypeOK
<1>10. NoHeightLost'
    BY <1>4, <1>6, <1>7, <1>8 DEF NoHeightLost
<1>11. NoHeightTwice'
    <2>1. \A u, v \in BackWorkers :
            u # v /\ {worker'[u], worker'[v]} \subseteq {"process", "send"} => height'[u] # height'[v]
        BY <1>4, <1>5 DEF NoHeightTwice
    <2>2. BackOnce(blockChan')
        <3>1. e \notin ToSet(blockChan)
            BY <1>1, <1>7 DEF InChan
        <3>2. blockChan \in Seq(Event) /\ BackOnce(blockChan)
            BY DEF TypeOK, NoHeightTwice
        <3> QED BY <1>2, <1>3, <3>1, <3>2, SendBackOnce
    <2> QED BY <1>4, <1>6, <1>7, <1>8, <2>1, <2>2 DEF NoHeightTwice
<1>12. SyncersFollowRun'
    BY <1>1, <1>3, <1>4, <1>5 DEF SyncersFollowRun, InLoop
<1> QED BY <1>3, <1>9, <1>10, <1>11, <1>12 DEF NoSendAfterClose

\* The forward syncer's steps leave the backward heights alone, sends included.
LEMMA ForwardInv ==
    ASSUME IndInv, ForwardStep, UNCHANGED <<backVars, ctxDone, nodeVars, delivered>>
    PROVE  IndInv'
<1> USE DEF IndInv
<1>1. ToGenerate' = ToGenerate /\ AtWorkers' = AtWorkers
    BY DEF ToGenerate, AtWorkers
<1>2. CASE SendFork \/ SendForward
    <2> DEFINE e == IF fwd = "sendFork" THEN <<"fork", finalized>> ELSE <<"forward", prev + 1>>
    <2>1. ~chanClosed /\ prev \in Heights /\ finalized \in Heights /\ prev \in Nat
        BY <1>2, WindowBounds DEF SyncersFollowRun, SendFork, SendForward, TypeOK, Heights
    <2>2. fwd = "send" => prev + 1 \in Heights
        BY <2>1, WindowBounds DEF SyncersFollowRun, Heights
    <2>3. e \in Event /\ e[1] # "back" /\ SendBlock(e)
        BY <1>2, <2>1, <2>2 DEF Event, SendFork, SendForward
    <2>4. /\ blockChan' = Append(blockChan, e) /\ UNCHANGED <<chanClosed, sendPanic>>
          /\ blockChan' \in Seq(Event) /\ Len(blockChan') <= ChanSize
          /\ ToSet(blockChan') = ToSet(blockChan) \cup {e}
        BY <2>1, <2>3, SendOpen
    <2>5. InChan' = InChan
        BY <2>3, <2>4 DEF InChan
    <2>6. BackOnce(blockChan')
        BY <2>3, <2>4, SendBackOnce DEF TypeOK, NoHeightTwice
    <2>7. fwd' = "loop" /\ prev' \in Heights /\ finalized' = finalized /\ prevLinked' \in BOOLEAN /\ nextLinked' = nextLinked
        BY <1>2, <2>1, <2>2 DEF SendFork, SendForward, TypeOK
    <2>8. TypeOK'
        BY <2>4, <2>7 DEF TypeOK, FwdStates
    <2>9. NoHeightLost' /\ NoHeightTwice'
        BY <1>1, <2>5, <2>6 DEF NoHeightLost, NoHeightTwice
    <2>10. SyncersFollowRun'
        BY <2>1, <2>4, <2>7 DEF SyncersFollowRun, InLoop
    <2> QED BY <2>4, <2>8, <2>9, <2>10 DEF NoSendAfterClose
<1>3. CASE \/ ForwardLoop \/ FetchLinked \/ FetchForked \/ FetchNotFound \/ ForwardRetry
           \/ DatabaseAhead \/ FetchFinalized \/ FinalizedFails \/ RetryFinalized
           \/ ProcessForward \/ SendForwardCancelled
    <2> USE DEF ForwardLoop, FetchLinked, FetchForked, FetchNotFound, ForwardRetry,
                DatabaseAhead, FetchFinalized, FinalizedFails, RetryFinalized,
                ProcessForward, SendForwardCancelled
    <2>1. UNCHANGED <<chanVars, prev>> /\ InChan' = InChan /\ fwd # "returned"
        BY <1>3 DEF InChan
    <2>2. TypeOK'
        <3>1. fwd' \in FwdStates /\ finalized' \in Heights
            BY <1>3 DEF TypeOK, FwdStates
        <3>2. prevLinked' \in BOOLEAN /\ nextLinked' \in BOOLEAN
            BY <1>3 DEF TypeOK
        <3> QED BY <2>1, <3>1, <3>2 DEF TypeOK
    <2>3. NoHeightLost' /\ NoHeightTwice'
        BY <1>1, <2>1 DEF NoHeightLost, NoHeightTwice
    <2>4. fwd' \in {"process", "send"} => prev < MaxNum
        BY <1>3, WindowBounds DEF SyncersFollowRun, TypeOK, Heights
    <2>5. SyncersFollowRun'
        BY <2>1, <2>4 DEF SyncersFollowRun, InLoop
    <2> QED BY <2>1, <2>2, <2>3, <2>5 DEF NoSendAfterClose
<1> QED BY <1>2, <1>3 DEF ForwardStep

\* Run closes the channel after both syncers returned.
LEMMA RunCloseInv ==
    ASSUME IndInv, RunClose, UNCHANGED <<ctxDone, nodeVars, delivered>>
    PROVE  IndInv'
<1> USE DEF IndInv, RunClose
<1>1. ToGenerate' = ToGenerate /\ AtWorkers' = AtWorkers /\ InChan' = InChan
    BY DEF ToGenerate, AtWorkers, InChan
<1>2. TypeOK'
    BY DEF TypeOK
<1>3. NoHeightLost' /\ NoHeightTwice'
    BY <1>1 DEF NoHeightLost, NoHeightTwice
<1> QED BY <1>2, <1>3 DEF NoSendAfterClose, SyncersFollowRun, InLoop

\* The subscriber receives an event.
LEMMA ConsumeInv ==
    ASSUME IndInv, Consume
    PROVE  IndInv'
<1> USE DEF IndInv
<1> DEFINE e == Head(blockChan)
<1>1. /\ blockChan \in Seq(Event) /\ Len(blockChan) <= ChanSize /\ Len(blockChan) \in Nat
      /\ blockChan # <<>> /\ blockChan' = Tail(blockChan)
      /\ UNCHANGED <<ctxDone, chanClosed, sendPanic, backVars, fwdVars, linkVars, nodeVars>>
    BY DEF TypeOK, Consume
<1>2. /\ e \in Event /\ e \in ToSet(blockChan)
      /\ blockChan' \in Seq(Event) /\ Len(blockChan') = Len(blockChan) - 1
      /\ ToSet(blockChan) = ToSet(blockChan') \cup {e}
    BY <1>1, ReceiveContent
<1>3. BackOnce(blockChan') /\ (e[1] = "back" => e \notin ToSet(blockChan'))
    BY <1>1, ReceiveBackOnce DEF NoHeightTwice
<1>4. ToGenerate' = ToGenerate /\ AtWorkers' = AtWorkers
    BY <1>1 DEF ToGenerate, AtWorkers
<1>5. e = <<e[1], e[2]>> /\ (e[1] = "back" => e[2] \in Window)
    BY <1>2 DEF Event
<1>6. /\ e[1] = "back" => /\ InChan' = InChan \ {e[2]} /\ e[2] \in InChan
                          /\ delivered' = delivered \cup {e[2]}
      /\ e[1] # "back" => InChan' = InChan /\ delivered' = delivered
    <2>1. CASE e[1] = "back"
        <3>1. e = <<"back", e[2]>> /\ e[2] \in Window
            BY <2>1, <1>5
        <3>2. ASSUME NEW n \in Window
              PROVE  <<"back", n>> \in ToSet(blockChan') <=>
                     <<"back", n>> \in ToSet(blockChan) /\ n # e[2]
            <4>1. CASE n = e[2]
                BY <4>1, <3>1, <2>1, <1>3
            <4>2. CASE n # e[2]
                <5>1. <<"back", n>> # e
                    BY <4>2, <3>1
                <5> QED BY <4>2, <5>1, <1>2
            <4> QED BY <4>1, <4>2
        <3>3. InChan' = InChan \ {e[2]} /\ e[2] \in InChan
            BY <3>1, <3>2, <1>2 DEF InChan
        <3> QED BY <2>1, <3>3 DEF Consume
    <2>2. CASE e[1] # "back"
        <3>1. \A n : <<"back", n>> # e
            BY <2>2
        <3>2. InChan' = InChan
            BY <3>1, <1>2 DEF InChan
        <3> QED BY <2>2, <3>2 DEF Consume
    <2> QED BY <2>1, <2>2
<1>7. TypeOK'
    <2>1. Len(blockChan') <= ChanSize
        BY <1>1, <1>2, PublisherSizesAssumption
    <2>2. delivered' \in SUBSET Window
        BY <1>5, <1>6 DEF TypeOK
    <2> QED BY <1>1, <1>2, <2>1, <2>2 DEF TypeOK
<1>8. NoHeightLost'
    BY <1>1, <1>4, <1>6 DEF NoHeightLost
<1>9. NoHeightTwice'
    BY <1>1, <1>3, <1>4, <1>6 DEF NoHeightTwice
<1> QED BY <1>1, <1>7, <1>8, <1>9 DEF NoSendAfterClose, SyncersFollowRun, InLoop

\* The node's steps and a cancellation concern no height.
LEMMA EnvironmentInv ==
    ASSUME IndInv,
           \/ NodeNext /\ UNCHANGED <<ctxDone, chanVars, backVars, fwdVars, delivered>>
           \/ Cancel
    PROVE  IndInv'
<1> USE DEF IndInv
<1>1. UNCHANGED <<chanVars, backVars, fwdVars, delivered>> /\ ctxDone' \in BOOLEAN /\ (ctxDone => ctxDone')
    BY DEF Cancel, TypeOK
<1>2. /\ nodeBest' \in Heights /\ nodeFinalized' \in Heights /\ forks' \in 0 .. MaxForks
      /\ prevLinked' \in BOOLEAN /\ nextLinked' \in BOOLEAN
    <2>1. CASE NewBlock \/ Finalize
        BY <2>1, WindowBounds DEF NewBlock, Finalize, TypeOK, Heights
    <2>2. ASSUME NEW n \in Heights, NEW c \in Heights, Reorganise(n, c)
          PROVE  /\ nodeBest' \in Heights /\ nodeFinalized' \in Heights /\ forks' \in 0 .. MaxForks
                 /\ prevLinked' \in BOOLEAN /\ nextLinked' \in BOOLEAN
        <3>1. nodeBest' \in Heights /\ nodeFinalized' \in Heights /\ forks' \in 0 .. MaxForks
            BY <2>2, PublisherHeightsAssumption DEF Reorganise, TypeOK
        <3>2. prevLinked \in BOOLEAN /\ nextLinked \in BOOLEAN
            BY DEF TypeOK
        <3>3. prevLinked' \in BOOLEAN
            BY <2>2, <3>2 DEF Reorganise
        <3>4. nextLinked' \in BOOLEAN
            BY <2>2, <3>2, <3>3 DEF Reorganise
        <3> QED BY <3>1, <3>3, <3>4
    <2>3. CASE Cancel
        BY <2>3 DEF Cancel, TypeOK
    <2> QED BY <2>1, <2>2, <2>3 DEF NodeNext
<1>3. ToGenerate' = ToGenerate /\ AtWorkers' = AtWorkers /\ InChan' = InChan
    BY <1>1 DEF ToGenerate, AtWorkers, InChan
<1>4. TypeOK'
    BY <1>1, <1>2 DEF TypeOK
<1>5. NoHeightLost' /\ NoHeightTwice'
    BY <1>1, <1>3 DEF NoHeightLost, NoHeightTwice
<1> QED BY <1>1, <1>4, <1>5 DEF NoSendAfterClose, SyncersFollowRun, InLoop

\* Every step preserves the invariant.
LEMMA NextInv == IndInv /\ [Next]_vars => IndInv'
<1> SUFFICES ASSUME IndInv, [Next]_vars PROVE IndInv'
    OBVIOUS
<1>1. CASE PublisherNext /\ UNCHANGED <<ctxDone, nodeVars, delivered>>
    BY <1>1, GeneratorInv, TakeHeightInv, WorkerExitInv, ProcessHeightInv, SendHeightInv,
       ForwardInv, RunCloseInv
    DEF PublisherNext, BackWorkerStep
<1>2. CASE \/ NodeNext /\ UNCHANGED <<ctxDone, chanVars, backVars, fwdVars, delivered>>
           \/ Cancel
    BY <1>2, EnvironmentInv
<1>3. CASE Consume
    BY <1>3, ConsumeInv
<1>4. CASE UNCHANGED vars
    <2>1. ToGenerate' = ToGenerate /\ AtWorkers' = AtWorkers /\ InChan' = InChan
        BY <1>4 DEF ToGenerate, AtWorkers, InChan, vars
    <2>2. TypeOK'
        BY <1>4 DEF IndInv, TypeOK, vars
    <2>3. NoHeightLost' /\ NoHeightTwice'
        BY <1>4, <2>1 DEF IndInv, NoHeightLost, NoHeightTwice, vars
    <2> QED BY <1>4, <2>2, <2>3 DEF IndInv, NoSendAfterClose, SyncersFollowRun, InLoop, vars
<1> QED BY <1>1, <1>2, <1>3, <1>4 DEF Next, Terminated

\* The inductive invariant holds in every reachable state of the publisher.
THEOREM Invariance == Spec => []IndInv
<1>1. Init => IndInv
    BY InitInv
<1>2. IndInv /\ [Next]_vars => IndInv'
    BY NextInv
<1> QED BY <1>1, <1>2, PTL DEF Spec

\* Every variable keeps its type, and no channel exceeds its capacity.
THEOREM TypeCorrect == Spec => []TypeOK
<1>1. IndInv => TypeOK
    BY DEF IndInv
<1> QED BY <1>1, Invariance, PTL

\* No syncer ever sends on the channel Run closed.
THEOREM CloseSafe == Spec => []NoSendAfterClose
<1>1. IndInv => NoSendAfterClose
    BY DEF IndInv
<1> QED BY <1>1, Invariance, PTL

\* The backward syncer loses no height while it is not cancelled.
THEOREM HeightsKept == Spec => []NoHeightLost
<1>1. IndInv => NoHeightLost
    BY DEF IndInv
<1> QED BY <1>1, Invariance, PTL

\* It neither fetches nor delivers a height twice.
THEOREM HeightsOnce == Spec => []NoHeightTwice
<1>1. IndInv => NoHeightTwice
    BY DEF IndInv
<1> QED BY <1>1, Invariance, PTL

\* A channel closed without a cancellation has carried every height of the
\* window that could be processed.
THEOREM CloseComplete == Spec => []ClosedMeansComplete
<1>1. IndInv => ClosedMeansComplete
    <2> SUFFICES ASSUME IndInv, chanClosed, ~ctxDone
                 PROVE  Window = InChan \cup delivered \cup failed
        BY DEF ClosedMeansComplete
    <2>1. /\ gen = "returned" /\ ~InLoop /\ \A w \in BackWorkers : worker[w] = "exited"
        BY DEF IndInv, SyncersFollowRun
    <2>2. AtWorkers = {}
        BY <2>1, AtWorkersMember
    <2>3. ToSet(workChan) = {}
        <3>1. workChan = <<>>
            BY <2>1, BackWorkersAssumption DEF IndInv, SyncersFollowRun
        <3> QED BY <3>1, EmptyContent
    <2>4. ToGenerate = {}
        BY <2>1, WindowBounds DEF ToGenerate, InLoop, IndInv, TypeOK
    <2> QED BY <2>2, <2>3, <2>4 DEF IndInv, NoHeightLost
<1> QED BY <1>1, Invariance, PTL

-----------------------------------------------------------------------------
(* The order of the forward syncer's events.                               *)

\* A sequence and what an append makes of it, position by position.
LEMMA AppendPositions ==
    ASSUME NEW s \in Seq(Event), NEW e \in Event
    PROVE  /\ Len(s) \in Nat /\ DOMAIN s = 1 .. Len(s)
           /\ DOMAIN Append(s, e) = 1 .. Len(s) + 1
           /\ \A i \in 1 .. Len(s) : Append(s, e)[i] = s[i]
           /\ Append(s, e)[Len(s) + 1] = e
BY AppendProperties

\* A backward event between the forward ones does not disturb their order.
LEMMA SendBackKeepsOrder ==
    ASSUME NEW s \in Seq(Event), NEW e \in Event, NEW n, e[1] = "back",
           Follow(s), EndsAt(s, n)
    PROVE  Follow(Append(s, e)) /\ EndsAt(Append(s, e), n)
<1> PICK a : a = Append(s, e)
    OBVIOUS
<1> PICK m : m = Len(s)
    OBVIOUS
<1>1. /\ m \in Nat /\ DOMAIN s = 1 .. m /\ DOMAIN a = 1 .. m + 1
      /\ \A i \in 1 .. m : a[i] = s[i]
      /\ a[m + 1] = e
    BY AppendPositions
<1>2. Follow(a)
    <2> SUFFICES ASSUME NEW i \in 1 .. m + 1, NEW j \in 1 .. m + 1,
                        i < j, a[i][1] # "back", a[j][1] = "forward",
                        \A k \in 1 .. m + 1 : i < k /\ k < j => a[k][1] = "back"
                 PROVE  a[j][2] = a[i][2] + 1
        BY <1>1 DEF Follow
    <2>1. i \in 1 .. m /\ j \in 1 .. m
        BY <1>1
    <2>2. \A k \in 1 .. m : i < k /\ k < j => s[k][1] = "back"
        BY <1>1
    <2> QED BY <1>1, <2>1, <2>2 DEF Follow
<1>3. EndsAt(a, n)
    <2> SUFFICES ASSUME NEW i \in 1 .. m + 1, a[i][1] # "back",
                        \A k \in 1 .. m + 1 : i < k => a[k][1] = "back"
                 PROVE  a[i][2] = n
        BY <1>1 DEF EndsAt
    <2>1. i \in 1 .. m
        BY <1>1
    <2>2. \A k \in 1 .. m : i < k => s[k][1] = "back"
        BY <1>1
    <2> QED BY <1>1, <2>1, <2>2 DEF EndsAt
<1> QED BY <1>2, <1>3

\* A fork event, or the block event that follows the last event, keeps the order.
LEMMA SendAheadKeepsOrder ==
    ASSUME NEW s \in Seq(Event), NEW e \in Event, NEW n, e[1] # "back",
           Follow(s), EndsAt(s, n), e[1] = "forward" => e[2] = n + 1
    PROVE  Follow(Append(s, e)) /\ EndsAt(Append(s, e), e[2])
<1> PICK a : a = Append(s, e)
    OBVIOUS
<1> PICK m : m = Len(s)
    OBVIOUS
<1>1. /\ m \in Nat /\ DOMAIN s = 1 .. m /\ DOMAIN a = 1 .. m + 1
      /\ \A i \in 1 .. m : a[i] = s[i]
      /\ a[m + 1] = e
    BY AppendPositions
<1>2. Follow(a)
    <2> SUFFICES ASSUME NEW i \in DOMAIN a, NEW j \in DOMAIN a,
                        i < j, a[i][1] # "back", a[j][1] = "forward",
                        \A k \in DOMAIN a : i < k /\ k < j => a[k][1] = "back"
                 PROVE  a[j][2] = a[i][2] + 1
        BY DEF Follow
    <2>0. i \in 1 .. m + 1 /\ j \in 1 .. m + 1
        BY <1>1
    <2>1. i \in 1 .. m
        BY <1>1, <2>0
    <2>2. CASE j = m + 1
        <3>1. \A k \in 1 .. m : i < k => s[k][1] = "back"
            BY <1>1, <2>0, <2>2
        <3>2. s[i][2] = n
            BY <1>1, <2>0, <2>1, <3>1 DEF EndsAt
        <3> QED BY <1>1, <2>0, <2>1, <2>2, <3>2
    <2>3. CASE j \in 1 .. m
        <3>1. \A k \in 1 .. m : i < k /\ k < j => s[k][1] = "back"
            BY <1>1, <2>0
        <3> QED BY <1>1, <2>0, <2>1, <2>3, <3>1 DEF Follow
    <2> QED BY <1>1, <2>0, <2>2, <2>3
<1>3. EndsAt(a, e[2])
    <2> SUFFICES ASSUME NEW i \in 1 .. m + 1, a[i][1] # "back",
                        \A k \in 1 .. m + 1 : i < k => a[k][1] = "back"
                 PROVE  a[i][2] = e[2]
        BY <1>1 DEF EndsAt
    <2>1. m + 1 \in 1 .. m + 1 /\ ~(i < m + 1)
        BY <1>1
    <2>2. i = m + 1
        BY <1>1, <2>1
    <2> QED BY <1>1, <2>2
<1> QED BY <1>2, <1>3

\* Receiving the first event keeps the order of the others.
LEMMA ReceiveKeepsOrder ==
    ASSUME NEW s \in Seq(Event), s # <<>>, NEW n, Follow(s), EndsAt(s, n)
    PROVE  Follow(Tail(s)) /\ EndsAt(Tail(s), n)
<1> PICK t : t = Tail(s)
    OBVIOUS
<1> PICK m : m = Len(t)
    OBVIOUS
<1>1. /\ m \in Nat /\ Len(s) = m + 1 /\ DOMAIN s = 1 .. m + 1 /\ DOMAIN t = 1 .. m
      /\ \A i \in 1 .. m : t[i] = s[i + 1]
    <2>1. /\ t \in Seq(Event) /\ Len(t) = Len(s) - 1
          /\ \A i \in 1 .. Len(t) : t[i] = s[i + 1]
        BY HeadTailProperties
    <2>2. Len(s) \in Nat /\ Len(t) \in Nat /\ DOMAIN s = 1 .. Len(s) /\ DOMAIN t = 1 .. Len(t)
        BY <2>1
    <2>3. Len(s) = m + 1
        BY <2>1, <2>2
    <2> QED BY <2>1, <2>2, <2>3
<1>2. ASSUME NEW k \in 1 .. m + 1, k > 1
      PROVE  k - 1 \in 1 .. m /\ t[k - 1] = s[k]
    BY <1>1, <1>2
<1>3. Follow(t)
    <2> SUFFICES ASSUME NEW i \in DOMAIN t, NEW j \in DOMAIN t,
                        i < j, t[i][1] # "back", t[j][1] = "forward",
                        \A k \in DOMAIN t : i < k /\ k < j => t[k][1] = "back"
                 PROVE  t[j][2] = t[i][2] + 1
        BY DEF Follow
    <2>0. i \in 1 .. m /\ j \in 1 .. m
        BY <1>1
    <2>1. i + 1 \in 1 .. m + 1 /\ j + 1 \in 1 .. m + 1 /\ i + 1 < j + 1
        BY <1>1, <2>0
    <2>2. ASSUME NEW k \in 1 .. m + 1, i + 1 < k, k < j + 1
          PROVE  s[k][1] = "back"
        <3>1. k > 1 /\ i < k - 1 /\ k - 1 < j
            BY <1>1, <2>0, <2>2
        <3> QED BY <1>2, <3>1
    <2> QED BY <1>1, <2>0, <2>1, <2>2 DEF Follow
<1>4. EndsAt(t, n)
    <2> SUFFICES ASSUME NEW i \in 1 .. m, t[i][1] # "back",
                        \A k \in 1 .. m : i < k => t[k][1] = "back"
                 PROVE  t[i][2] = n
        BY <1>1 DEF EndsAt
    <2>1. i + 1 \in 1 .. m + 1
        BY <1>1
    <2>2. ASSUME NEW k \in 1 .. m + 1, i + 1 < k
          PROVE  s[k][1] = "back"
        <3>1. k > 1 /\ i < k - 1
            BY <1>1, <2>2
        <3> QED BY <1>2, <3>1
    <2> QED BY <1>1, <2>1, <2>2 DEF EndsAt
<1> QED BY <1>3, <1>4

\* Every step keeps the order: the two sends of the forward syncer extend it, the
\* backward workers' sends and the subscriber leave it as it is.
LEMMA OrderStep == IndInv /\ ForwardInOrder /\ [Next]_vars => ForwardInOrder'
<1> SUFFICES ASSUME IndInv, ForwardInOrder, [Next]_vars PROVE ForwardInOrder'
    OBVIOUS
<1>1. /\ blockChan \in Seq(Event) /\ prev \in Heights /\ finalized \in Heights /\ MaxNum \in Nat
      /\ Follow(blockChan) /\ EndsAt(blockChan, prev)
    BY WindowBounds DEF IndInv, TypeOK, ForwardInOrder
<1>2. CASE UNCHANGED <<blockChan, prev>>
    BY <1>2 DEF ForwardInOrder
<1>3. ASSUME NEW w \in BackWorkers, SendHeight(w), UNCHANGED fwdVars
      PROVE  ForwardInOrder'
    <2>1. /\ worker[w] = "send" /\ SendBlock(<<"back", height[w]>>) /\ ~chanClosed
          /\ height[w] \in Window
        BY <1>3 DEF SendHeight, IndInv, SyncersFollowRun
    <2>2. <<"back", height[w]>> \in Event /\ blockChan' = Append(blockChan, <<"back", height[w]>>)
        BY <2>1 DEF Event, SendBlock
    <2>3. Follow(blockChan')
        BY <1>1, <2>2, SendBackKeepsOrder
    <2>4. EndsAt(blockChan', prev)
        BY <1>1, <2>2, SendBackKeepsOrder
    <2> QED BY <1>3, <2>3, <2>4 DEF ForwardInOrder
<1>4. CASE SendFork \/ SendForward
    <2>1. PICK e \in Event : /\ blockChan' = Append(blockChan, e) /\ e[1] # "back" /\ e[2] = prev'
                             /\ e[1] = "forward" => e[2] = prev + 1
        <3>1. CASE SendFork
            <4>1. <<"fork", finalized>> \in Event
                BY <1>1 DEF Event
            <4>2. ~chanClosed
                BY <3>1 DEF SendFork, IndInv, SyncersFollowRun
            <4> QED BY <3>1, <4>1, <4>2 DEF SendFork, SendBlock
        <3>2. CASE SendForward
            <4>1. prev + 1 \in Heights /\ ~chanClosed
                BY <1>1, <3>2 DEF SendForward, IndInv, SyncersFollowRun, Heights
            <4>2. <<"forward", prev + 1>> \in Event
                BY <4>1 DEF Event
            <4> QED BY <3>2, <4>1, <4>2 DEF SendForward, SendBlock
        <3> QED BY <1>4, <3>1, <3>2
    <2>2. Follow(blockChan')
        BY <1>1, <2>1, SendAheadKeepsOrder
    <2>3. EndsAt(blockChan', e[2])
        BY <1>1, <2>1, SendAheadKeepsOrder
    <2> QED BY <2>1, <2>2, <2>3 DEF ForwardInOrder
<1>5. CASE Consume
    <2>1. blockChan # <<>> /\ blockChan' = Tail(blockChan) /\ prev' = prev
        BY <1>5 DEF Consume
    <2>2. Follow(blockChan')
        BY <1>1, <2>1, ReceiveKeepsOrder
    <2>3. EndsAt(blockChan', prev)
        BY <1>1, <2>1, ReceiveKeepsOrder
    <2> QED BY <2>1, <2>2, <2>3 DEF ForwardInOrder
<1>6. CASE PublisherNext
    <2>1. CASE GeneratorStep /\ UNCHANGED <<fwdVars, linkVars>>
        BY <1>2, <2>1 DEF GeneratorStep, GenerateHeight, GenerateEnd, BackwardReturn
    <2>2. ASSUME NEW w \in BackWorkers, BackWorkerStep(w), UNCHANGED <<fwdVars, linkVars>>
          PROVE  ForwardInOrder'
        BY <1>2, <1>3, <2>2 DEF BackWorkerStep, TakeHeight, WorkerExit, ProcessHeight
    <2>3. CASE ForwardStep
        BY <1>2, <1>4, <2>3
        DEF ForwardStep, ForwardLoop, FetchLinked, FetchForked, FetchNotFound, ForwardRetry,
            DatabaseAhead, FetchFinalized, FinalizedFails, RetryFinalized,
            ProcessForward, SendForwardCancelled
    <2>4. CASE RunClose
        BY <1>2, <2>4 DEF RunClose
    <2> QED BY <1>6, <2>1, <2>2, <2>3, <2>4 DEF PublisherNext
<1>7. CASE \/ UNCHANGED <<ctxDone, chanVars, backVars, fwdVars, delivered>>
           \/ Cancel
           \/ UNCHANGED vars
    BY <1>2, <1>7 DEF Cancel, vars
<1> QED BY <1>5, <1>6, <1>7 DEF Next, Terminated

\* The subscriber is handed the forward blocks in chain order, through every
\* retry, cancellation and fork, however the backward events come in between.
THEOREM ForwardOrdered == Spec => []ForwardInOrder
<1>1. Init => ForwardInOrder
    BY DEF Init, PublisherInit, ForwardInOrder, Follow, EndsAt
<1>2. IndInv /\ ForwardInOrder /\ [Next]_vars => ForwardInOrder'
    BY OrderStep
<1> QED BY <1>1, <1>2, Invariance, PTL DEF Spec
=============================================================================
