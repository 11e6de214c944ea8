---------------------------- MODULE TestProgram ----------------------------
(***************************************************************************)
(* The test program: main() opens the integration module, and while        *)
(* GoogleTest runs the tests, a test makes a Server and destroys it before *)
(* it ends.                                                                *)
(***************************************************************************)
EXTENDS TestListener, Integers, Sequences

CONSTANT CommandLines

(* A command line starts with the name of the program.                     *)
ASSUME CommandLinesAssumption == CommandLines \subseteq Seq(STRING) \ {<<>>}

VARIABLES step, argv, command, library, holders, server, device, given, misused, status

Main == INSTANCE Startup

mainVars == <<step, argv, command, library, holders, server, device, given, misused, status>>
programVars == <<vars, mainVars>>

ProgramInit == Init /\ Main!Init

ProgramNext ==
    \/ Main!MainStep /\ UNCHANGED vars
    \/ current # NoTest /\ Main!TestStep /\ UNCHANGED vars
    \/ /\ step = "tests" /\ Next /\ UNCHANGED mainVars
       /\ current' = NoTest => server = "none" /\ ~device
    \/ /\ phase \in {"EXIT_SUCCESS", "EXIT_FAILURE"}
       /\ Main!TestsEnd(phase = "EXIT_FAILURE") /\ UNCHANGED vars

ProgramSpec == ProgramInit /\ [][ProgramNext]_programVars

-----------------------------------------------------------------------------
(* Hooks are called only while the module is loaded, though a Server lets  *)
(* go of it before it destroys the compositor; whatever fails on the way,  *)
(* an opened module is closed by the end and not before the last server    *)
(* and device are gone.  A compositor gets the arguments after the module, *)
(* in their order, behind the program's name.                              *)
ModuleServes == Main!ModuleServes
=============================================================================
