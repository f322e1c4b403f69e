SPECIFICATION FairSpec
CONSTANTS
    Producers = {camera}
    Consumers = {w1, w2}
    NoThread = NoThread
    NoItem = NoItem
    MaxPushes = 2
    MaxTasks = 2
    CounterMax = 99
    Timed = TRUE
INVARIANTS
    TypeOK
    CounterCoversQueue
    CounterNeverWraps
    TaskIsolation
PROPERTIES
    EveryItemPopped
    ChannelDelivers
    StopTerminates
