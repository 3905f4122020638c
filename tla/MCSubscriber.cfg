SPECIFICATION FairSpec
CONSTANTS
    w1 = w1
    w2 = w2
    h1 = h1
    h2 = h2
    e1 = e1
    e2 = e2
    f1 = f1
    Workers = {w1, w2}
    QueueSize = 2
    Handlers = {h1, h2}
    Events = {e1, e2, f1}
    ForkEvents = {f1}
    ChanSize = 1
    Tasks <- MCTasks
INVARIANTS
    NoTaskLost
    NoTaskTwice
    SubmitNeverFails
    QuietAfterReturn
PROPERTIES
    ImplementsConsumer
    KeepsConsumerGoing
    QueuedTaskRuns
