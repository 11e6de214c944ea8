SPECIFICATION ProgramSpec
CONSTANTS
    Tests = {t1, t2}
    Iterations = 2
    MaxParts = 2
    NoTest = NoTest
    CommandLines <- MCCommandLines
SYMMETRY TestSymmetry
INVARIANTS NamesAreRight ExitStatus ModuleServes
CHECK_DEADLOCK FALSE
