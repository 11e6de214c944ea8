SPECIFICATION RegistrySpec
CONSTANTS
    Interfaces = {"wl_output", "wl_shell"}
    Ids = {n1, n2, n3}
    MaxVersion = 3
    Shells = {"wl_shell"}
    Known <- KnownVersions
    Declares = TRUE
    Declared <- DeclaredOutput
SYMMETRY SymmetricIds
INVARIANTS BoundVersionFits SkipIsDeclared GlobalsAreCurrent
CHECK_DEADLOCK FALSE
