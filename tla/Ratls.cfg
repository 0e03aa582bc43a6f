CONSTANTS
    None = None
    SystemRoots <- MCSystemRoots
    c = c
    d1 = d1
    d2 = d2
    sample_pair = sample_pair
    Pair <- MCPair
    SamplePair <- MCSamplePair
    ConfsOf <- MCConfsOf
    CallbacksOf <- MCCallbacksOf
    Scenes <- MCScenes
    ClientArgs <- MCClientArgs
    ServerArgs <- MCServerArgs
    BootEvents <- MCBootEvents
    MaxConnections = 2
    MaxLog = 5
SPECIFICATION Spec
SYMMETRY Alike
INVARIANTS
    PeerAttested
    FailsForCause
    KeyOnlyToMeasured
