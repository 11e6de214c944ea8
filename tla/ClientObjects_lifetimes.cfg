SPECIFICATION Spec
CONSTANTS
    Surfaces = {s1, s2}
    Callbacks = {c1, c2, c3}
    None = None
    MaxDepth = 3
    MaxRequests = 4
    OutputFields = {"geometry", "mode"}
    XdgFields = {"position", "size"}
    XdgVersions = {2, 3}
    MaxChanges = 3
    MaxObjects = 2
    dev = dev
    off = off
    src = src
    src2 = src2
    Proxies <- MCProxies
    ClassOf <- MCClassOf
    Positions <- MCPositions
    Sizes <- MCSizes
    Rectangles <- MCRectangles
    Addresses = {a1, a2}
    Free = Free
    Listeners = {n1, n2, n3}
    MaxAttached = 2
    Screens = {o1, o2}
    MaxSurfaces = 2
    MaxUpdates = 5
    Shells = {"layer", "xdg", "xdg_v6", "builder"}
    MaxOperand = 2
    MaxValue = 6
    MaxSide = 2
    MaxCommits = 3
    MaxStrays = 2
    Places = {l1, l2}
    Handles = {h1, h2}
    NoHandle = NoHandle
    MaxQueued = 2
SYMMETRY Symmetric
INVARIANTS CallbacksOwned EndsInOrder StateArrives CallsOwnClass BuffersExact ConfiguresAnswered ObjectsOwnProxies BuiltInPlace FrameIndependent RectanglesAreSets
CHECK_DEADLOCK FALSE
