SPECIFICATION Spec
CONSTANTS
    Producers = {w1, w2}
    Consumers = {group}
    NoThread = NoThread
    NoItem = NoItem
    MaxPushes = 1
    MaxTasks = 1
    CounterMax = 99
    Timed = TRUE
INVARIANTS
    GuardOnlyForTeardown
