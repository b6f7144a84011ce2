SPECIFICATION SceneSpec
CONSTANTS
    c1 = c1
    c2 = c2
    w1 = w1
    w2 = w2
    Clients = {c1, c2}
    Nobody = Nobody
    Task = Task
    NoWindow = NoWindow
    Snapshots <- MCSnapshots
    Unknown = Unknown
    Capacity = 2
    MaxSteps = 2
PROPERTY EveryoneKnowsInTheEnd
CHECK_DEADLOCK FALSE
