SPECIFICATION Spec
CONSTANTS
    Graphs = {"g1", "g2"}
    Runtimes = {"A", "B"}
    RuntimesOf <- MCRuntimesOf
    Channels = {1, 2, 3, 4}
    Ids = {1, 2, 3, 4}
    Exit = "exit"
    MaxFaults = 1
    MaxCalls = 3
INVARIANTS LeasesAreSound WorkersServeTheirClients NothingIsForgotten
PROPERTIES SharedWorkerSpared
