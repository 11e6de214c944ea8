SPECIFICATION MirSpec
CONSTANTS
    Spawners = {s1, s2}
    MaxWork = 4
    Fds = {1, 2}
    Resources = {1, 2}
    Ids = {1, 2}
    Devices = {m1, m2, t1}
    Mice = {m1, m2}
    None = None
    Edge = 2
    MaxClients = 3
    MaxWindows = 2
    MaxEvents = 3
    MaxTime = 2
    MaxTimeouts = 1
INVARIANTS NoLostWakeup RunsInOrder MovesOwnWindow SuccessIsOwn InputLands CreatedIsPresent
PROPERTIES WorkRuns CreationEnds
CHECK_DEADLOCK FALSE
