SPECIFICATION Spec
CONSTANTS
    Offers <- MCOffers
    Routes <- MCRoutes
    Policies = {"WaitForMissing", "FlushOnMarkerBoundary"}
    MaxCalls = 5
    MaxFaults = 2
INVARIANTS CallbacksFindTheSink StartsAreCounted StatusIsTrue GraphIsTheOneAskedFor BuffersHoldTheirDelay
