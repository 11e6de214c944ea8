SPECIFICATION InputSpec
CONSTANTS
    Surfaces = {s1, s2}
    KeyboardSurfaces = {s1, s2, s3}
    Destroyable = {s1}
    Places = {p1, p2}
    Buttons = {left}
    Observers = {o}
    Ids = {1, 2}
    Keys = {k}
    Positions = {0, 2, 4, 5}
    Windows = {1, 4}
    Width = 2
    None = None
    Null = Null
    Gone = Gone
    PointerWire = 2
    TouchWire = 2
    KeyboardWire = 2
    MaxCrossed = 1
    MaxSerial = 7
    SeatEvents = 3
    MethodCalls = 4
INVARIANTS NoSpuriousFailure FollowsSeat NotificationsAgree MemberReceives MethodsAgree
PROPERTIES DanglingEnds
CHECK_DEADLOCK FALSE
