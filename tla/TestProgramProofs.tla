------------------------- MODULE TestProgramProofs -------------------------
(***************************************************************************)
(* The printed names and the exit status are right for any set of tests    *)
(* and any number of iterations.  The inductive invariant adds to them     *)
(* where GoogleTest is (Place), that no test of a later iteration has      *)
(* failed (Past), and what failed_ means between iterations (Verdict).     *)
(* Around the tests, the module outlives every call of its hooks for any   *)
(* command lines: MainInv says who holds it at each step of main().        *)
(***************************************************************************)
EXTENDS TestProgram, SequenceTheorems, TLAPS

(* A test runs only inside an iteration that has not finished it.          *)
Place ==
    /\ current # NoTest => phase = "running" /\ iteration > 0 /\ current \in remaining
    /\ phase = "running" => iteration > 0
    /\ phase \in {"EXIT_SUCCESS", "EXIT_FAILURE"} => iteration = Iterations

(* Nothing is recorded for an iteration that has not started.              *)
Past == \A r \in broken \cup excused : r[1] <= iteration

(* failed_ speaks of the iterations that have ended.                       *)
Verdict ==
    failed_ <=> \E r \in broken : r[1] < iteration \/ phase # "running"

(* The exit status is failed_.                                             *)
Status ==
    /\ phase = "EXIT_FAILURE" => failed_
    /\ phase = "EXIT_SUCCESS" => ~failed_

IInv == TypeOK /\ Place /\ Past /\ NamesAreRight /\ Verdict /\ Status

(* The invariant holds at the start.                                       *)
LEMMA InitIInv == Init => IInv
<1> SUFFICES ASSUME Init PROVE IInv
  BY Zenon
<1>0. skip_reasons => current # NoTest /\ property
  BY Zenon DEF Init
<1>1. TypeOK
  <2>1. /\ iteration \in 0 .. Iterations /\ parts \in 0 .. MaxParts
        /\ phase \in {"between", "running", "EXIT_SUCCESS", "EXIT_FAILURE"}
    BY IterationsAssumption DEF Init
  <2>3. property \in BOOLEAN /\ skip_reasons \in BOOLEAN /\ failed_ \in BOOLEAN
    BY Zenon DEF Init
  <2>2. /\ remaining \subseteq Tests /\ current \in Tests \cup {NoTest}
        /\ failed_test_names \subseteq Tests /\ skipped_test_names \subseteq Tests
        /\ excused \subseteq (1 .. Iterations) \X Tests
        /\ broken \subseteq (1 .. Iterations) \X Tests
    BY Zenon DEF Init
  <2> QED
    BY <1>0, <2>1, <2>2, <2>3, Zenon DEF TypeOK
<1>2. Place /\ Past /\ NamesAreRight
  BY Zenon DEF Init, Place, Past, NamesAreRight
<1>3. Verdict
  BY Zenon DEF Init, Verdict
<1>4. Status
  BY Zenon DEF Init, Status
<1> QED
  BY <1>1, <1>2, <1>3, <1>4, Zenon DEF IInv

(* A new iteration starts with nothing recorded for it.                    *)
LEMMA IterationStartKeeps == IInv /\ OnTestIterationStart => IInv'
<1> SUFFICES ASSUME IInv, OnTestIterationStart PROVE IInv'
  BY Zenon
<1> USE IterationsAssumption, TestsAssumption
<1>1. TypeOK' /\ Place' /\ Past' /\ Status'
  BY DEF IInv, TypeOK, Place, Past, Status, OnTestIterationStart
<1>2. NamesAreRight'
  <2>1. \A t \in Tests : <<iteration', t>> \notin broken \cup excused
    BY DEF IInv, TypeOK, Past, OnTestIterationStart
  <2> QED
    BY <2>1, Zenon DEF NamesAreRight, OnTestIterationStart
<1>3. Verdict'
  <2>1. \A r \in broken : r[1] < iteration'
    BY DEF IInv, TypeOK, Past, OnTestIterationStart
  <2> QED
    BY <2>1, Zenon DEF IInv, TypeOK, Verdict, OnTestIterationStart
<1> QED
  BY <1>1, <1>2, <1>3, Zenon DEF IInv

(* Starting a test, recording a property and ending a test leave the       *)
(* records alone.                                                          *)
LEMMA TestKeeps ==
    IInv /\ ((\E t \in Tests : OnTestStart(t)) \/ RecordProperty \/ OnTestEnd) => IInv'
<1> SUFFICES ASSUME IInv, (\E t \in Tests : OnTestStart(t)) \/ RecordProperty \/ OnTestEnd
             PROVE IInv'
  BY Zenon
<1> USE IterationsAssumption, TestsAssumption
<1>1. UNCHANGED <<iteration, phase, failed_test_names, skipped_test_names, failed_, excused, broken>>
  BY Zenon DEF OnTestStart, RecordProperty, OnTestEnd, listenerVars
<1>2. TypeOK' /\ Place'
  <2>1. ASSUME NEW t \in Tests, OnTestStart(t) PROVE TypeOK' /\ Place'
    <3>1. skip_reasons = FALSE
      BY <2>1, Zenon DEF IInv, TypeOK, OnTestStart
    <3>2. skip_reasons' = FALSE /\ property' = FALSE
      BY <2>1, <3>1, Zenon DEF OnTestStart, listenerVars
    <3>3. TypeOK'
      <4>1. current' \in Tests /\ parts' \in 0 .. MaxParts
        BY <2>1 DEF OnTestStart
      <4>2. UNCHANGED <<iteration, remaining, phase, failed_test_names, skipped_test_names,
                        failed_, excused, broken>>
        BY <2>1, Zenon DEF OnTestStart, listenerVars
      <4>3. (skip_reasons => current # NoTest /\ property)'
        BY <3>2, Zenon
      <4>4. skip_reasons' \in BOOLEAN /\ property' \in BOOLEAN
        BY <3>2, Zenon
      <4> QED
        BY <4>1, <4>2, <4>3, <4>4, Zenon DEF IInv, TypeOK
    <3>4. Place'
      BY <2>1, Zenon DEF IInv, Place, OnTestStart
    <3> QED
      BY <3>3, <3>4, Zenon
  <2>2. ASSUME RecordProperty PROVE TypeOK' /\ Place'
    BY <2>2, Zenon DEF IInv, TypeOK, Place, RecordProperty, listenerVars
  <2>3. ASSUME OnTestEnd PROVE TypeOK' /\ Place'
    BY <2>3, Zenon DEF IInv, TypeOK, Place, OnTestEnd
  <2> QED
    BY <2>1, <2>2, <2>3, Zenon
<1>3. Past' /\ NamesAreRight' /\ Verdict' /\ Status'
  BY <1>1, Zenon DEF IInv, Past, NamesAreRight, Verdict, Status
<1> QED
  BY <1>2, <1>3, Zenon DEF IInv

(* A part result records the running test where the property says.         *)
LEMMA PartResultKeeps ==
    ASSUME NEW failed \in BOOLEAN, IInv, OnTestPartResult(failed)
    PROVE  IInv'
<1> USE IterationsAssumption, TestsAssumption
<1>0. iteration \in 1 .. Iterations /\ current \in Tests /\ phase = "running"
  BY DEF IInv, TypeOK, Place, OnTestPartResult
<1>1. TypeOK'
  BY <1>0 DEF IInv, TypeOK, OnTestPartResult
<1>2. Place' /\ Status'
  BY <1>0, Zenon DEF IInv, Place, Status, OnTestPartResult
<1>3. \A r \in broken' \cup excused' : r \in broken \cup excused \/ r = <<iteration, current>>
  BY DEF OnTestPartResult
<1>4. Past'
  BY <1>0, <1>3 DEF IInv, Past, OnTestPartResult
<1>5. NamesAreRight'
  <2>1. CASE ~failed
    BY <2>1, Zenon DEF IInv, NamesAreRight, OnTestPartResult
  <2>2. CASE failed /\ property
    <3>1. skip_reasons'
      BY <2>2, Zenon DEF OnTestPartResult
    <3>2. /\ skipped_test_names' = skipped_test_names \cup {current}
          /\ excused' = excused \cup {<<iteration, current>>}
          /\ UNCHANGED <<iteration, failed_test_names, broken>>
      BY <2>2, <3>1, Zenon DEF OnTestPartResult
    <3> QED
      BY <1>0, <3>2, Zenon DEF IInv, TypeOK, NamesAreRight
  <2>3. CASE failed /\ ~property
    <3>1. ~skip_reasons'
      BY <2>3, Zenon DEF IInv, TypeOK, OnTestPartResult
    <3>2. /\ failed_test_names' = failed_test_names \cup {current}
          /\ broken' = broken \cup {<<iteration, current>>}
          /\ UNCHANGED <<iteration, skipped_test_names, excused>>
      BY <2>3, <3>1, Zenon DEF OnTestPartResult
    <3> QED
      BY <1>0, <3>2, Zenon DEF IInv, TypeOK, NamesAreRight
  <2> QED
    BY <2>1, <2>2, <2>3, Zenon
<1>6. Verdict'
  <2>1. \A r : r[1] < iteration => (r \in broken' <=> r \in broken)
    BY <1>0, <1>3 DEF IInv, TypeOK, OnTestPartResult
  <2> QED
    BY <1>0, <2>1, Zenon DEF IInv, TypeOK, Verdict, OnTestPartResult
<1> QED
  BY <1>1, <1>2, <1>4, <1>5, <1>6, Zenon DEF IInv

(* The end of an iteration adds its failures to the verdict.               *)
LEMMA IterationEndKeeps == IInv /\ OnTestIterationEnd => IInv'
<1> SUFFICES ASSUME IInv, OnTestIterationEnd PROVE IInv'
  BY Zenon
<1> USE IterationsAssumption, TestsAssumption
<1>1. TypeOK' /\ Past' /\ NamesAreRight'
  BY Zenon DEF IInv, TypeOK, Past, NamesAreRight, OnTestIterationEnd
<1>2. iteration \in 1 .. Iterations
  BY DEF IInv, TypeOK, Place, OnTestIterationEnd
<1>3. Verdict'
  <2>0. failed_test_names = { t \in Tests : <<iteration, t>> \in broken }
    BY <1>2 DEF IInv, NamesAreRight
  <2>1. failed_test_names # {} <=> \E r \in broken : r[1] = iteration
    <3>1. ASSUME NEW r \in broken, r[1] = iteration PROVE r[2] \in failed_test_names
      <4>1. r \in (1 .. Iterations) \X Tests
        BY Zenon DEF IInv, TypeOK
      <4>2. r = <<iteration, r[2]>> /\ r[2] \in Tests
        BY <3>1, <4>1
      <4> QED
        BY <2>0, <4>2, Zenon
    <3>2. ASSUME NEW t \in failed_test_names PROVE <<iteration, t>> \in broken
      BY <2>0, Zenon
    <3>3. \A t : <<iteration, t>>[1] = iteration
      BY Zenon
    <3> QED
      BY <3>1, <3>2, <3>3, Zenon
  <2>2. \A r \in broken : r[1] < iteration \/ r[1] = iteration
    BY <1>2 DEF IInv, TypeOK, Past
  <2>3. (\E r \in broken : r[1] < iteration) <=> failed_
    BY Zenon DEF IInv, Verdict, OnTestIterationEnd
  <2> QED
    BY <2>1, <2>2, <2>3, Zenon DEF Verdict, OnTestIterationEnd
<1>4. (current # NoTest)' => FALSE
  BY Zenon DEF IInv, TypeOK, Place, OnTestIterationEnd
<1>5. Place' /\ Status'
  BY <1>4, Zenon DEF IInv, Place, Status, OnTestIterationEnd
<1> QED
  BY <1>1, <1>3, <1>5, Zenon DEF IInv

(* main() ends with the verdict.                                           *)
LEMMA ExitKeeps == IInv /\ Exit => IInv'
<1> SUFFICES ASSUME IInv, Exit PROVE IInv'
  BY Zenon
<1> USE IterationsAssumption, TestsAssumption
<1>1. TypeOK' /\ Past' /\ NamesAreRight'
  BY Zenon DEF IInv, TypeOK, Past, NamesAreRight, Exit, listenerVars
<1>2. Place' /\ Status'
  BY Zenon DEF IInv, TypeOK, Place, Status, Exit, listenerVars
<1>3. Verdict'
  BY Zenon DEF IInv, TypeOK, Verdict, Exit, listenerVars
<1> QED
  BY <1>1, <1>2, <1>3, Zenon DEF IInv

(* Every step keeps the inductive invariant.                               *)
LEMMA NextIInv == IInv /\ [Next]_vars => IInv'
<1> SUFFICES ASSUME IInv, [Next]_vars PROVE IInv'
  BY Zenon
<1>1. CASE OnTestIterationStart
  BY <1>1, IterationStartKeeps, Zenon
<1>2. CASE (\E t \in Tests : OnTestStart(t)) \/ RecordProperty \/ OnTestEnd
  BY <1>2, TestKeeps, Zenon
<1>3. CASE \E failed \in BOOLEAN : OnTestPartResult(failed)
  BY <1>3, PartResultKeeps, Zenon
<1>4. CASE OnTestIterationEnd
  BY <1>4, IterationEndKeeps, Zenon
<1>5. CASE Exit
  BY <1>5, ExitKeeps, Zenon
<1>6. CASE UNCHANGED vars
  BY <1>6, Zenon DEF vars, gtestVars, listenerVars, IInv, TypeOK, Place, Past, NamesAreRight, Verdict, Status
<1> QED
  BY <1>1, <1>2, <1>3, <1>4, <1>5, <1>6, Zenon DEF Next

(* The listener's state keeps its types, and reasons to skip never outlive *)
(* the test they belong to.                                                *)
THEOREM TypeCorrect == Spec => []TypeOK
  <1>1. IInv => TypeOK
    BY Zenon DEF IInv
  <1> QED
    BY <1>1, InitIInv, NextIInv, PTL DEF Spec

(* The names printed as failed and skipped are right in every iteration.   *)
THEOREM NamesCorrect == Spec => []NamesAreRight
  <1>1. IInv => NamesAreRight
    BY Zenon DEF IInv
  <1> QED
    BY <1>1, InitIInv, NextIInv, PTL DEF Spec

(* The exit status is failure exactly when some test was broken.           *)
THEOREM ExitCorrect == Spec => []ExitStatus
  <1>1. IInv => ExitStatus
    <2> SUFFICES ASSUME IInv PROVE ExitStatus
      BY Zenon
    <2>1. CASE phase = "EXIT_FAILURE"
      BY <2>1, Zenon DEF IInv, Status, Verdict, ExitStatus
    <2>2. CASE phase = "EXIT_SUCCESS"
      BY <2>2, Zenon DEF IInv, Status, Verdict, ExitStatus
    <2> QED
      BY <2>1, <2>2, Zenon DEF ExitStatus
  <1> QED
    BY <1>1, InitIInv, NextIInv, PTL DEF Spec

-----------------------------------------------------------------------------
(* What main() and the tests do around it leaves the listener alone: the   *)
(* test program implements the listener, which the theorems above are      *)
(* about.                                                                  *)
THEOREM ProgramListens == ProgramSpec => Spec
<1>1. ProgramInit => Init
  BY Zenon DEF ProgramInit
<1>2. [ProgramNext]_programVars => [Next]_vars
  BY Zenon DEF ProgramNext, programVars
<1> QED
  BY <1>1, <1>2, PTL DEF ProgramSpec, Spec

(* Where main() can be.                                                    *)
MainStates == {"arguments", "load", "entry", "tests", "returned", "exited"}

(* Who keeps the module loaded, by where main() is: while the tests run it *)
(* is main() itself, whatever servers and devices let go.                  *)
Kept ==
    /\ step \in {"arguments", "load"} => library = "none" /\ holders = {}
    /\ step = "entry" => library = "loaded" /\ holders = {"dso"}
    /\ step = "tests" => /\ library = "loaded"
                         /\ {"dso", "entry_point", "::entry_point"} \subseteq holders
                         /\ holders \subseteq {"dso", "entry_point", "::entry_point",
                                               "server", "device"}
                         /\ "server" \in holders <=> server = "alive"
                         /\ "device" \in holders <=> device = TRUE
    /\ step = "returned" => \/ library = "loaded" /\ holders = {"::entry_point"}
                            \/ library \in {"none", "closed"} /\ holders = {}
    /\ step = "exited" => library \in {"none", "closed"}

(* The inductive invariant of main(): no hook was misused, and a command   *)
(* line that was kept or given is argv without the name of the module.     *)
MainInv ==
    /\ step \in MainStates /\ misused = FALSE /\ device \in BOOLEAN
    /\ server \in {"none", "alive", "released"}
    /\ step # "tests" => server = "none" /\ device = FALSE
    /\ Kept
    /\ argv \in CommandLines
    /\ command = <<>> \/ (Len(argv) >= 2 /\ command = Main!Shuffled(argv))
    /\ given = <<>> \/ (Len(argv) >= 2 /\ given = Main!Shuffled(argv))

(* Moving the arguments down over the name of the module leaves the        *)
(* program's name and what followed the module, in order.                  *)
LEMMA ShuffledIsRest ==
  ASSUME NEW a \in Seq(STRING), Len(a) >= 2
  PROVE  Main!Shuffled(a) = <<Head(a)>> \o SubSeq(a, 3, Len(a))
<1> DEFINE r == <<Head(a)>> \o SubSeq(a, 3, Len(a))
<1>1. /\ SubSeq(a, 3, Len(a)) \in Seq(STRING) /\ Head(a) \in STRING
      /\ Len(a) \in Nat /\ Head(a) = a[1]
  OBVIOUS
<1>2. /\ Len(SubSeq(a, 3, Len(a))) = Len(a) - 2
      /\ \A n \in 1 .. Len(a) - 2 : SubSeq(a, 3, Len(a))[n] = a[n + 2]
  <2>1. CASE Len(a) = 2
    BY <1>1, <2>1, SubSeqProperties, SMT
  <2>2. CASE Len(a) > 2
    BY <1>1, <2>2, SubSeqProperties, SMT
  <2>3. Len(a) = 2 \/ Len(a) > 2
    <3>1. PICK n \in Nat : n = Len(a)
      OBVIOUS
    <3> QED
      BY <3>1
  <2> QED
    BY <2>1, <2>2, <2>3, Zenon
<1>3. r \in Seq(STRING) /\ Len(r) = Len(a) - 1
  BY <1>1, <1>2
<1>4. \A n \in 1 .. Len(a) - 1 : r[n] = IF n = 1 THEN a[n] ELSE a[n + 1]
  BY <1>1, <1>2
<1>5. r = [n \in 1 .. Len(a) - 1 |-> r[n]]
  BY <1>1, <1>3
<1> QED
  BY <1>4, <1>5, Zenon DEF Main!Shuffled

(* main() starts with the module not loaded.                               *)
LEMMA MainInit == Main!Init => MainInv
<1> SUFFICES ASSUME Main!Init PROVE MainInv
  BY Zenon
<1>1. /\ step = "arguments" /\ argv \in CommandLines /\ command = <<>>
      /\ library = "none" /\ holders = {} /\ misused = FALSE
      /\ server = "none" /\ device = FALSE /\ given = <<>>
  BY Zenon DEF Main!Init
<1>2. Kept
  BY <1>1, Zenon DEF Kept
<1>3. device \in BOOLEAN
  BY <1>1, Zenon
<1> QED
  BY <1>1, <1>2, <1>3, Zenon DEF MainInv, MainStates

(* Every step of main() and of a test keeps the module loaded for as long  *)
(* as anyone may call it.                                                  *)
LEMMA MainNext ==
  ASSUME MainInv, Main!Next \/ UNCHANGED mainVars
  PROVE  MainInv'
<1>1. CASE UNCHANGED mainVars
  BY <1>1, Zenon DEF mainVars, MainInv, Kept
<1>2. CASE Main!Arguments
  <2>1. /\ UNCHANGED <<argv, library, holders, server, device, given, misused>>
        /\ step = "arguments" /\ step' \in {"load", "returned"}
        /\ command' = command \/ (Len(argv) >= 2 /\ command' = Main!Shuffled(argv))
    <3>1. Len(argv) \in Nat
      BY CommandLinesAssumption DEF MainInv
    <3> QED
      BY <1>2, <3>1 DEF Main!Arguments, Main!Return, Main!testVars
  <2> QED
    BY <2>1, Zenon DEF MainInv, Kept, MainStates
<1> DEFINE fixed == <<argv, command, server, device, given, misused>>
           known == /\ argv \in CommandLines
                    /\ command = <<>> \/ (Len(argv) >= 2 /\ command = Main!Shuffled(argv))
                    /\ given = <<>> \/ (Len(argv) >= 2 /\ given = Main!Shuffled(argv))
<1>3. CASE Main!SharedLibrary
  <2>1. /\ UNCHANGED fixed /\ step = "load"
        /\ \/ step' = "entry" /\ library' = "loaded" /\ holders' = {"dso"}
           \/ step' = "returned" /\ UNCHANGED <<library, holders>>
    BY <1>3, Zenon DEF Main!SharedLibrary, Main!Return, Main!mainVars, Main!testVars
  <2> QED
    BY <2>1, Zenon DEF MainInv, Kept, MainStates
<1>4. CASE Main!load_function
  <2>1. /\ UNCHANGED fixed /\ step = "entry"
        /\ \/ step' = "tests" /\ Main!Hold(holders \cup {"entry_point", "::entry_point"})
           \/ step' = "returned" /\ Main!Hold(holders \ {"dso"})
    BY <1>4, Zenon DEF Main!load_function, Main!Return, Main!mainVars, Main!testVars
  <2>2. CASE step' = "tests"
    <3>1. /\ holders' = {"dso", "entry_point", "::entry_point"} /\ library' = "loaded"
      BY <2>1, <2>2, Zenon DEF MainInv, Kept, Main!Hold
    <3>2. server' = "none" /\ device' = FALSE
      BY <2>1, Zenon DEF MainInv
    <3>3. Kept'
      BY <2>2, <3>1, <3>2, Zenon DEF Kept
    <3> QED
      BY <2>1, <2>2, <3>3, Zenon DEF MainInv, MainStates
  <2>3. CASE step' = "returned"
    <3>1. holders' = {} /\ library' = "closed"
      BY <2>1, <2>3, Zenon DEF MainInv, Kept, Main!Hold
    <3>3. Kept'
      BY <2>3, <3>1, Zenon DEF Kept
    <3> QED
      BY <2>1, <2>3, <3>3, Zenon DEF MainInv, MainStates
  <2> QED
    BY <2>1, <2>2, <2>3, Zenon
<1>5. CASE Main!Exit
  BY <1>5, Zenon DEF Main!Exit, Main!Hold, Main!mainVars, Main!testVars, MainInv, Kept, MainStates
<1>6. CASE \E failed \in BOOLEAN : Main!TestsEnd(failed)
  <2>1. /\ UNCHANGED fixed /\ step = "tests" /\ server = "none" /\ device = FALSE
        /\ step' = "returned" /\ Main!Hold(holders \ {"dso", "entry_point"})
    BY <1>6, Zenon DEF MainInv, Main!TestsEnd, Main!Return, Main!mainVars, Main!testVars
  <2>2. holders' = {"::entry_point"} /\ library' = "loaded"
    BY <2>1 DEF MainInv, Kept, Main!Hold
  <2>3. Kept'
    BY <2>1, <2>2, Zenon DEF Kept
  <2> QED
    BY <2>1, <2>3, Zenon DEF MainInv, MainStates
<1>7. CASE Main!TestStep
  <2>1. /\ step = "tests" /\ step' = "tests" /\ UNCHANGED <<argv, command>>
        /\ given' \in {given, command}
    <3>1. server # "none" \/ device = TRUE => step = "tests"
      BY Zenon DEF MainInv
    <3> QED
      BY <1>7, <3>1, Zenon DEF MainInv, Main!TestStep, Main!CreateServer, Main!CreateDevice,
         Main!DestroyDevice, Main!ReleaseHooks, Main!DestroyServer, Main!mainVars
  <2>2. library = "loaded" /\ "dso" \in holders
    BY <2>1, Zenon DEF MainInv, Kept
  <2>3. misused' = FALSE
    <3>1. misused' = misused \/ misused' = (misused \/ library # "loaded")
      BY <1>7, Zenon DEF Main!TestStep, Main!CreateServer, Main!CreateDevice,
         Main!DestroyDevice, Main!ReleaseHooks, Main!DestroyServer, Main!CallHook
    <3>2. misused = FALSE
      BY Zenon DEF MainInv
    <3> QED
      BY <2>2, <3>1, <3>2, Zenon
  <2>7. library' = "loaded" /\ server' \in {"none", "alive", "released"}
    BY <1>7, <2>2 DEF MainInv, Main!TestStep, Main!CreateServer, Main!CreateDevice,
       Main!DestroyDevice, Main!ReleaseHooks, Main!DestroyServer, Main!Hold
  <2>8. device' \in BOOLEAN
    <3>1. device' = device \/ device' = TRUE \/ device' = FALSE
      BY <1>7, Zenon DEF Main!TestStep, Main!CreateServer, Main!CreateDevice,
         Main!DestroyDevice, Main!ReleaseHooks, Main!DestroyServer
    <3> QED
      BY <3>1, Zenon DEF MainInv
  <2>4. \/ UNCHANGED <<server, device, holders>>
        \/ server = "none" /\ server' = "alive" /\ holders' = holders \cup {"server"}
                          /\ UNCHANGED device
        \/ server # "alive" /\ server' # "alive" /\ UNCHANGED <<device, holders>>
        \/ device' = TRUE /\ holders' = holders \cup {"device"} /\ UNCHANGED server
        \/ device' = FALSE /\ holders' = holders \ {"device"} /\ UNCHANGED server
        \/ server = "alive" /\ server' = "released" /\ holders' = holders \ {"server"}
                           /\ UNCHANGED device
    BY <1>7, Zenon DEF Main!TestStep, Main!CreateServer, Main!CreateDevice,
       Main!DestroyDevice, Main!ReleaseHooks, Main!DestroyServer, Main!Hold
  <2>5. Kept'
    BY <2>1, <2>4, <2>7, <2>8, Zenon DEF MainInv, Kept
  <2>6. known'
    BY <2>1, Zenon DEF MainInv
  <2> QED
    BY <2>1, <2>3, <2>5, <2>6, <2>7, <2>8, Zenon DEF MainInv, MainStates
<1> QED
  BY <1>1, <1>2, <1>3, <1>4, <1>5, <1>6, <1>7, Zenon DEF Main!Next, Main!MainStep

(* Hooks are called only while the module is loaded, it is closed by the   *)
(* end, and a compositor gets the arguments that follow the module.        *)
THEOREM ModuleCorrect == ProgramSpec => []ModuleServes
<1>1. ProgramInit => MainInv
  BY MainInit, Zenon DEF ProgramInit
<1>2. MainInv /\ [ProgramNext]_programVars => MainInv'
  <2>1. [ProgramNext]_programVars => Main!Next \/ UNCHANGED mainVars
    BY Zenon DEF ProgramNext, programVars, Main!Next
  <2> QED
    BY <2>1, MainNext, Zenon
<1>3. MainInv => ModuleServes
  <2> SUFFICES ASSUME MainInv PROVE Main!ModuleServes
    BY Zenon DEF ModuleServes
  <2>1. argv \in Seq(STRING)
    BY CommandLinesAssumption, Zenon DEF MainInv
  <2>2. given # <<>> => given = <<Head(argv)>> \o SubSeq(argv, 3, Len(argv))
    BY <2>1, ShuffledIsRest, Zenon DEF MainInv
  <2>3. /\ misused = FALSE /\ (step = "exited" => library # "loaded")
        /\ library = "closed" => step \in {"returned", "exited"} /\ server = "none" /\ ~device
    BY Zenon DEF MainInv, Kept, MainStates
  <2> QED
    BY <2>2, <2>3, Zenon DEF Main!ModuleServes
<1> QED
  BY <1>1, <1>2, <1>3, PTL DEF ProgramSpec
=============================================================================
