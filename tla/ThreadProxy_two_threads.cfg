SPECIFICATION FairSpec
CONSTANTS
    t1 = t1
    t2 = t2
    f = f
    g = g
    Callers = {t1, t2}
    Registrars = {t1}
    Callables = {f, g}
    Void = {f, g}
    Registered <- FRegistered
    MaxCalls = 3
    MaxFaults = 1
    Faults = {"send"}
INVARIANTS OneRequestInFlight
PROPERTIES IsSynchronousCall
