--------------------------- MODULE MCTestProgram ---------------------------
EXTENDS TestProgram, TLC

MCCommandLines ==
    { <<"wlcs">>, <<"wlcs", "--help">>, <<"wlcs", "module">>, <<"wlcs", "module", "x">>,
      <<"wlcs", "module", "x", "y">> }

TestSymmetry == Permutations(Tests)
=============================================================================
