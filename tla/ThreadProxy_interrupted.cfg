SPECIFICATION FairSpec
CONSTANTS
    t1 = t1
    t2 = t2
    f = f
    g = g
    Callers = {t1, t2}
    Registrars = {t1, t2}
    Callables = {f, g}
    Void = {f}
    Registered <- FGRegistered
    MaxCalls = 3
    MaxFaults = 2
    Faults = {"send", "recv"}
INVARIANTS SerialiserHeld
PROPERTIES CallsEnd
