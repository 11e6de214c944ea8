---------------------------- MODULE TestListener ----------------------------
(***************************************************************************)
(* How a run of the test program becomes its exit status:                  *)
(* XFailSupportingTestListenerWrapper                                      *)
(* (src/xfail_supporting_test_listener.cpp) and main() (src/main.cpp).     *)
(* A test that needs an extension the compositor does not declare records  *)
(* the property wlcs-skip-test and then fails; the listener takes a failure*)
(* after the property for a skip.                                          *)
(*                                                                         *)
(* GoogleTest (external) runs the tests one after the other, as many       *)
(* iterations as asked for; a test is any sequence of successes, failures  *)
(* and recorded properties.  Printing is left out.                         *)
(***************************************************************************)
EXTENDS Naturals, FiniteSets

CONSTANTS Tests, Iterations,   \* the tests, and --gtest_repeat
          MaxParts,            \* bound on the part results of a test
          NoTest               \* no test is running

ASSUME TestsAssumption == NoTest \notin Tests
ASSUME IterationsAssumption == Iterations \in Nat /\ MaxParts \in Nat

VARIABLES iteration, remaining, phase,       \* GoogleTest
          current, parts, property,          \* the running test and its record
          skip_reasons,                      \* current_skip_reasons is set
          failed_test_names, skipped_test_names, failed_,
          excused, broken                    \* history, see below

gtestVars == <<iteration, remaining, phase, current, parts, property>>
listenerVars == <<skip_reasons, failed_test_names, skipped_test_names, failed_>>

(* History: the <<iteration, test>> pairs that failed before any property  *)
(* was recorded (broken) and those whose failures all came after (excused).*)
vars == <<gtestVars, listenerVars, excused, broken>>

Init ==
    /\ iteration = 0 /\ remaining = {} /\ phase = "between" /\ current = NoTest
    /\ parts = 0 /\ property = FALSE
    /\ skip_reasons = FALSE /\ failed_test_names = {} /\ skipped_test_names = {}
    /\ failed_ = FALSE /\ excused = {} /\ broken = {}

(* Mutant: the names of an iteration are kept for the next one.            *)
OnTestIterationStartKept ==
    /\ phase = "between" /\ iteration < Iterations
    /\ iteration' = iteration + 1 /\ remaining' = Tests /\ phase' = "running"
    /\ UNCHANGED <<current, parts, property, listenerVars, excused, broken>>

OnTestIterationStart ==
    /\ phase = "between" /\ iteration < Iterations
    /\ iteration' = iteration + 1 /\ remaining' = Tests /\ phase' = "running"
    /\ failed_test_names' = {} /\ skipped_test_names' = {}
    /\ UNCHANGED <<current, parts, property, skip_reasons, failed_, excused, broken>>

OnTestStart(t) ==
    /\ phase = "running" /\ current = NoTest /\ t \in remaining
    /\ current' = t
    /\ parts' = 0 /\ property' = FALSE
    /\ UNCHANGED <<iteration, remaining, phase, listenerVars, excused, broken>>

(* The constructor of ExtensionExpectedlyNotSupported.  Recording the same *)
(* property again replaces its value.                                      *)
RecordProperty ==
    /\ current # NoTest /\ ~property
    /\ property' = TRUE
    /\ UNCHANGED <<iteration, remaining, phase, current, parts, listenerVars, excused, broken>>

(* Every failed part result looks for the property.                        *)
OnTestPartResult(failed) ==
    /\ current # NoTest /\ parts < MaxParts
    /\ parts' = parts + 1
    /\ IF failed
       THEN /\ skip_reasons' = (skip_reasons \/ property)
            /\ IF skip_reasons'
               THEN /\ skipped_test_names' = skipped_test_names \cup {current}
                    /\ UNCHANGED failed_test_names
               ELSE /\ failed_test_names' = failed_test_names \cup {current}
                    /\ UNCHANGED skipped_test_names
            /\ LET run == <<iteration, current>>
               IN IF property THEN excused' = excused \cup {run} /\ UNCHANGED broken
                              ELSE broken' = broken \cup {run} /\ UNCHANGED excused
       ELSE UNCHANGED <<skip_reasons, failed_test_names, skipped_test_names, excused, broken>>
    /\ UNCHANGED <<iteration, remaining, phase, current, property, failed_>>

OnTestEnd ==
    /\ current # NoTest
    /\ remaining' = remaining \ {current}
    /\ current' = NoTest
    /\ skip_reasons' = FALSE
    /\ UNCHANGED <<iteration, phase, parts, property, failed_test_names, skipped_test_names,
                   failed_, excused, broken>>

(* Mutant: failed_ is that of the last iteration.                          *)
OnTestIterationEndLast ==
    /\ phase = "running" /\ remaining = {}
    /\ phase' = "between"
    /\ failed_' = (failed_test_names # {})
    /\ UNCHANGED <<iteration, remaining, current, parts, property, skip_reasons,
                   failed_test_names, skipped_test_names, excused, broken>>

OnTestIterationEnd ==
    /\ phase = "running" /\ remaining = {}
    /\ phase' = "between"
    /\ failed_' = (failed_ \/ failed_test_names # {})
    /\ UNCHANGED <<iteration, remaining, current, parts, property, skip_reasons,
                   failed_test_names, skipped_test_names, excused, broken>>

(* main() returns failed().                                                *)
Exit ==
    /\ phase = "between" /\ iteration = Iterations
    /\ phase' = IF failed_ THEN "EXIT_FAILURE" ELSE "EXIT_SUCCESS"
    /\ UNCHANGED <<iteration, remaining, current, parts, property, listenerVars, excused, broken>>

Next ==
    \/ OnTestIterationStart
    \/ \E t \in Tests : OnTestStart(t)
    \/ RecordProperty
    \/ \E failed \in BOOLEAN : OnTestPartResult(failed)
    \/ OnTestEnd
    \/ OnTestIterationEnd
    \/ Exit

Spec == Init /\ [][Next]_vars

-----------------------------------------------------------------------------
(* Type invariant; reasons to skip belong to a running test that recorded  *)
(* one.                                                                    *)
TypeOK ==
    /\ iteration \in 0 .. Iterations /\ remaining \subseteq Tests
    /\ phase \in {"between", "running", "EXIT_SUCCESS", "EXIT_FAILURE"}
    /\ current \in Tests \cup {NoTest} /\ parts \in 0 .. MaxParts
    /\ property \in BOOLEAN /\ skip_reasons \in BOOLEAN /\ failed_ \in BOOLEAN
    /\ failed_test_names \subseteq Tests /\ skipped_test_names \subseteq Tests
    /\ excused \subseteq (1 .. Iterations) \X Tests /\ broken \subseteq (1 .. Iterations) \X Tests
    /\ skip_reasons => current # NoTest /\ property

(* The names printed for an iteration are those of its tests: failed are   *)
(* the ones that failed before they were found unsupported, skipped the    *)
(* ones that failed after; no test answers for another, or for an earlier  *)
(* iteration.                                                              *)
NamesAreRight ==
    iteration > 0 =>
        /\ failed_test_names = { t \in Tests : <<iteration, t>> \in broken }
        /\ skipped_test_names = { t \in Tests : <<iteration, t>> \in excused }

(* The program exits with failure exactly when some test of some iteration *)
(* failed for another reason than a missing extension.                     *)
ExitStatus ==
    /\ phase = "EXIT_FAILURE" => broken # {}
    /\ phase = "EXIT_SUCCESS" => broken = {}
=============================================================================
