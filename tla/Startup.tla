------------------------------ MODULE Startup ------------------------------
(***************************************************************************)
(* main() (src/main.cpp) around the tests, and who keeps the integration   *)
(* module loaded (src/shared_library.cpp, src/helpers.cpp): the command    *)
(* line loses the module's name, the module is opened and its entry point  *)
(* shared; a test's Server and its devices share it too; it is closed when *)
(* the last of them lets go.                                               *)
(*                                                                         *)
(* Opening a module, and finding the entry point in it, may fail.          *)
(***************************************************************************)
EXTENDS Integers, Sequences

CONSTANTS CommandLines     \* sequences: the program, then perhaps the module and options

VARIABLES step,         \* where main() is
          argv, command,    \* its arguments; those kept by set_command_line()
          library,      \* "none", "loaded" or "closed"
          holders,      \* the shared pointers that keep it loaded
          server,       \* the test's Server: "none", "alive", or "released" its hooks
          device,       \* whether it has a pointer, touch or keyboard
          given,        \* the command line the latest create_server() got
          misused,      \* a hook was called with the library not loaded
          status        \* what main() returned: 0, 1, or -1 before it does

mainVars == <<argv, command>>
testVars == <<server, device, given>>
vars == <<step, mainVars, library, holders, testVars, misused, status>>

Init ==
    /\ step = "arguments" /\ argv \in CommandLines /\ command = <<>>
    /\ library = "none" /\ holders = {} /\ misused = FALSE
    /\ server = "none" /\ device = FALSE /\ given = <<>> /\ status = -1

(* The pointers become h; the last one to go closes the library.           *)
Hold(h) ==
    /\ holders' = h
    /\ library' = IF library = "loaded" /\ h = {} THEN "closed" ELSE library

Return(s) ==
    /\ step' = "returned" /\ status' = s
    /\ UNCHANGED <<testVars, misused>>

-----------------------------------------------------------------------------
(* The module's name is shuffled out of argv.                              *)
Shuffled(a) == [n \in 1 .. Len(a) - 1 |-> IF n = 1 THEN a[n] ELSE a[n + 1]]

(* Usage, with status 1; or set_command_line() with one argument less.     *)
Arguments ==
    /\ step = "arguments"
    /\ IF Len(argv) < 2 \/ argv[2] = "--help"
         THEN Return(1) /\ UNCHANGED command
         ELSE /\ command' = Shuffled(argv)
              /\ step' = "load"
              /\ UNCHANGED <<testVars, misused, status>>
    /\ UNCHANGED <<argv, library, holders>>

(* SharedLibrary(): dlopen(), which may fail.                              *)
SharedLibrary ==
    /\ step = "load"
    /\ \/ /\ step' = "entry"
          /\ library' = "loaded" /\ holders' = {"dso"}
          /\ UNCHANGED <<testVars, misused, status>>
       \/ Return(1) /\ UNCHANGED <<library, holders>>
    /\ UNCHANGED mainVars

(* Mutant: the library goes with the block that loads the entry point,     *)
(* whose pointer does not share it.                                        *)
load_functionUnshared ==
    /\ step = "entry"
    /\ \/ /\ step' = "tests"
          /\ Hold(holders \ {"dso"})
          /\ UNCHANGED <<testVars, misused, status>>
       \/ Return(1) /\ Hold(holders \ {"dso"})
    /\ UNCHANGED mainVars

(* load_function() of the entry point, which may fail; the pointer to it   *)
(* shares the library, and set_entry_point() keeps a copy.                 *)
load_function ==
    /\ step = "entry"
    /\ \/ /\ step' = "tests"
          /\ Hold(holders \cup {"entry_point", "::entry_point"})
          /\ UNCHANGED <<testVars, misused, status>>
       \/ Return(1) /\ Hold(holders \ {"dso"})
    /\ UNCHANGED mainVars

(* RUN_ALL_TESTS() is over, and main() returns what the listener says; its *)
(* local pointers go.                                                      *)
TestsEnd(failed) ==
    /\ step = "tests" /\ server = "none" /\ ~device
    /\ Return(IF failed THEN 1 ELSE 0)
    /\ Hold(holders \ {"dso", "entry_point"})
    /\ UNCHANGED mainVars

(* Objects with static storage are destroyed, the copy among them.         *)
Exit ==
    /\ step = "returned"
    /\ step' = "exited"
    /\ Hold(holders \ {"::entry_point"})
    /\ UNCHANGED <<mainVars, testVars, misused, status>>

-----------------------------------------------------------------------------
(* A hook of the integration is called.                                    *)
CallHook == misused' = (misused \/ library # "loaded")

(* Server::Impl::Impl() with get_test_hooks(), get_argc() and get_argv():  *)
(* an integration that is too old is found out after it made its server.   *)
CreateServer ==
    /\ step = "tests" /\ server = "none" /\ ~device
    /\ CallHook
    /\ given' = command
    /\ \/ server' = "alive" /\ Hold(holders \cup {"server"})
       \/ server' = "released" /\ UNCHANGED <<holders, library>>
    /\ UNCHANGED <<step, mainVars, device, status>>

CreateDevice ==
    /\ server = "alive" /\ ~device
    /\ CallHook
    /\ device' = TRUE
    /\ Hold(holders \cup {"device"})
    /\ UNCHANGED <<step, mainVars, server, given, status>>

(* The device is destroyed before its keep_dso_loaded.                     *)
DestroyDevice ==
    /\ device
    /\ CallHook
    /\ device' = FALSE
    /\ Hold(holders \ {"device"})
    /\ UNCHANGED <<step, mainVars, server, given, status>>

(* The members of Server::Impl go in reverse: first hooks ...              *)
ReleaseHooks ==
    /\ server = "alive"
    /\ server' = "released"
    /\ Hold(holders \ {"server"})
    /\ UNCHANGED <<step, mainVars, device, given, misused, status>>

(* ... and then the server, with a hook.                                   *)
DestroyServer ==
    /\ server = "released"
    /\ CallHook
    /\ server' = "none"
    /\ UNCHANGED <<step, mainVars, library, holders, device, given, status>>

TestStep == CreateServer \/ CreateDevice \/ DestroyDevice \/ ReleaseHooks \/ DestroyServer

MainStep == Arguments \/ SharedLibrary \/ load_function \/ Exit

Next == MainStep \/ TestStep \/ \E failed \in BOOLEAN : TestsEnd(failed)

Spec == Init /\ [][Next]_vars

-----------------------------------------------------------------------------
(* Hooks are called only while the module is loaded, though a Server lets  *)
(* go of it before it destroys the compositor; whatever fails on the way,  *)
(* an opened module is closed by the end and not before the last server    *)
(* and device are gone.  A compositor gets the arguments after the module, *)
(* in their order, behind the program's name.                              *)
ModuleServes ==
    /\ ~misused
    /\ library = "closed" => step \in {"returned", "exited"} /\ server = "none" /\ ~device
    /\ step = "exited" => library # "loaded"
    /\ given # <<>> => given = <<Head(argv)>> \o SubSeq(argv, 3, Len(argv))
=============================================================================
