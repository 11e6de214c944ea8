SPECIFICATION Spec
CONSTANTS
    Shells = {"builder"}
    MaxCommits = 3
    MaxStrays = 2
INVARIANTS AckRequired
