--------------------------- MODULE SessionProofs ---------------------------
(***************************************************************************)
(* Proofs about what a test's server and client do for the whole of it:    *)
(* ServerLifecycle, for every set of integrations and device kinds;        *)
(* EventReading, for every set of timeouts, every length of a millisecond  *)
(* and any number of events and calls; Registry, for any interfaces and    *)
(* names.                                                                  *)
(***************************************************************************)
EXTENDS ServerLifecycle, EventReading, Registry, TLAPS

-----------------------------------------------------------------------------
(* The life of the server.                                                 *)

(* "this *should* block until the server's mainloop has been torn down, so  *)
(* that it does not persist into later tests" (wlcs/display_server.h, of    *)
(* the stop hook): needed of the integrations that have a thread of their   *)
(* own.                                                                     *)
StopContract == \A i \in Integrations : i.start \/ i.version < 3 => i.stopBlocks

(* One hook call at a time: the test thread's call waits either in the      *)
(* proxy or on the event loop.                                              *)
Quiet == waiting = Nothing /\ requests = {} /\ handling = Nothing
Calling ==
    /\ requests = {} \/ (requests = {waiting} /\ waiting # Nothing)
    /\ handling = Nothing \/ (handling = waiting /\ requests = {})
    /\ threaded = TRUE /\ waiting # Nothing => requests = {waiting} \/ handling = waiting
    /\ threaded = FALSE => requests = {} /\ handling = Nothing

(* The call that waits is one its caller was allowed to make.               *)
CallAllowed ==
    waiting # Nothing =>
       /\ waiting.hook \in {"use", "destroy"} /\ requests # {} => waiting.kind \in devices
       /\ waiting.hook = "create" => waiting.kind \in Kinds
       /\ waiting.hook = "use" => hooks.deviceVersion = TRUE \/ waiting.kind = "pointer"
       /\ waiting.hook = "stop" <=> phase = "stopping"

(* How far the main loop is when the fixture is in each of its phases.      *)
LoopInPhase ==
    /\ phase \in {"new", "constructed"} => Quiet /\ loopThread = "none"
    /\ phase \in {"started", "ending"} => loopThread = "running"
    /\ phase = "stopping" =>
          /\ loopThread \in {"running", "stopping", "ended"}
          /\ loopThread = "running" => requests # {}
          /\ StopContract /\ threaded = FALSE /\ waiting = Nothing => loopThread = "ended"
    /\ phase \in {"stopped", "joined"} =>
          /\ Quiet /\ loopThread \in {"none", "stopping", "ended"}
          /\ threaded = TRUE /\ phase = "joined" => loopThread # "stopping"
          /\ StopContract /\ threaded = FALSE => loopThread # "stopping"
    /\ phase = "destroyed" => Quiet /\ (StopContract => loopThread \in {"none", "ended"})

LifeInv ==
    /\ phase \in {"new", "constructed", "started", "ending", "stopping", "stopped",
                  "joined", "destroyed"}
    /\ threaded \in BOOLEAN
    /\ hooks \in Integrations
    /\ phase # "new" /\ threaded = FALSE /\ StopContract
          => hooks.stopBlocks = TRUE \/ phase = "destroyed"
    /\ phase = "new" => threaded = FALSE
    /\ server = "destroyed" <=> phase = "destroyed"
    /\ server \in {"created", "destroyed"}
    /\ devices \subseteq Kinds
    /\ phase \notin {"started", "ending"} => devices = {}
    /\ fixture # "StartedInProcessServer" => members = {}
    /\ Calling
    /\ CallAllowed
    /\ LoopInPhase
    /\ eventLoop = "destroyed" => phase \in {"joined", "destroyed"} /\ proxy = "destroyed"
                                  /\ loopThread \in {"none", "ended"}

(* The fixture begins with no call and no main loop.                         *)
LEMMA LifeInit == LifecycleInit => LifeInv
  BY Zenon DEF LifecycleInit, LifeInv, Calling, CallAllowed, LoopInPhase, Quiet, Nothing

(* A hook call made by the test thread in a phase in which the loop runs.  *)
LEMMA LifeInvoke ==
  ASSUME LifeInv,
         NEW op,
         Invoke(op),
         op # Nothing,
         phase \in {"started", "ending"},
         op.hook \in {"use", "destroy"} => op.kind \in devices,
         op.hook = "create" => op.kind \in Kinds,
         op.hook = "use" => hooks.deviceVersion = TRUE \/ op.kind = "pointer",
         op.hook = "stop" => devices = {},
         phase' = IF op.hook = "stop" THEN "stopping" ELSE phase
  PROVE  LifeInv'
<1>1. waiting = Nothing /\ Quiet /\ loopThread = "running"
  BY Zenon DEF LifeInv, Invoke, Calling, LoopInPhase, Quiet
<1>2. UNCHANGED <<hooks, fixture, members, server, threaded, eventLoop, proxy, handling>>
  BY Zenon DEF Invoke, contextVars, testVars
<1>3. CASE Direct(op)
  <2>1. /\ waiting' = IF op.hook = "stop" /\ hooks.stopBlocks THEN op ELSE Nothing
        /\ requests' = requests
        /\ loopThread' = IF op.hook = "stop" THEN "stopping" ELSE loopThread
        /\ devices' \subseteq Kinds
        /\ op.hook = "stop" => devices' = devices
    BY <1>3, Zenon DEF Invoke, Run, LifeInv
  <2>2. op.hook = "stop" => threaded = FALSE /\ (StopContract => hooks.stopBlocks = TRUE)
    BY <1>3, Zenon DEF Direct, NullProxy, LifeInv
  <2> QED
    BY <1>1, <1>2, <2>1, <2>2, Zenon DEF LifeInv, Calling, CallAllowed, LoopInPhase, Quiet
<1>4. CASE ~Direct(op)
  <2>1. /\ waiting' = op /\ requests' = {op}
        /\ loopThread' = loopThread /\ devices' = devices
    BY <1>1, <1>4, Zenon DEF Invoke, Quiet
  <2>2. threaded = TRUE
    BY <1>4, Zenon DEF Direct, NullProxy, LifeInv
  <2> QED
    BY <1>1, <1>2, <2>1, <2>2, Zenon DEF LifeInv, Calling, CallAllowed, LoopInPhase, Quiet
<1> QED
  BY <1>3, <1>4, Zenon

(* Every step of the test thread and of the main loop keeps the invariant. *)
LEMMA LifeNext == LifeInv /\ [LifecycleNext]_lifecycleVars => LifeInv'
<1> SUFFICES ASSUME LifeInv, [LifecycleNext]_lifecycleVars PROVE LifeInv'
  BY Zenon
<1> USE DEF LifeInv, Calling, CallAllowed, LoopInPhase, Quiet
<1>1. CASE Construct
  <2>1. hooks \in Integration
    BY IntegrationsAssumption, Zenon
  <2>2. hooks.stopBlocks \in BOOLEAN /\ hooks.version \in Nat
    BY <2>1 DEF Integration
  <2>3. (threaded' <=> NeedsContext) /\ threaded' \in BOOLEAN
    BY <1>1, Zenon DEF Construct, NeedsContext
  <2>4. StopContract /\ ~NeedsContext => hooks.stopBlocks
    BY <2>2 DEF NeedsContext, StopContract
  <2>5. StopContract /\ threaded' = FALSE => hooks.stopBlocks = TRUE
    BY <2>2, <2>3, <2>4, Zenon
  <2>6. eventLoop' # "destroyed"
    BY <1>1, Zenon DEF Construct
  <2> QED
    BY <1>1, <2>3, <2>5, <2>6, Zenon DEF Construct, testVars
<1>2. CASE ConstructThrows
  BY <1>2, Zenon DEF ConstructThrows, testVars
<1>3. CASE Start
  BY <1>3, Zenon DEF Start, contextVars, testVars
<1>4. CASE TestBody
  <2>1. phase = "started" /\ Refused = {} /\ phase' = phase
    BY <1>4, Zenon DEF TestBody
  <2>2. ASSUME NEW h \in {"create_client_socket", "position_window_absolute"},
               Invoke(Hook(h, "none"))
        PROVE  LifeInv'
    <3>1. Hook(h, "none") # Nothing
          /\ Hook(h, "none").hook = h
      BY Zenon DEF Hook, Nothing
    <3> HIDE DEF LifeInv, Calling, CallAllowed, LoopInPhase, Quiet
    <3> QED
      BY <2>1, <2>2, <3>1, LifeInvoke, Zenon
  <2>3. ASSUME NEW k \in Kinds, Invoke(Hook("create", k)) PROVE LifeInv'
    <3>1. Hook("create", k) # Nothing
          /\ Hook("create", k).hook = "create" /\ Hook("create", k).kind = k
      BY IntegrationsAssumption, Zenon DEF Hook, Nothing
    <3> HIDE DEF LifeInv, Calling, CallAllowed, LoopInPhase, Quiet
    <3> QED
      BY <2>1, <2>3, <3>1, LifeInvoke, Zenon
  <2>4. ASSUME NEW k \in devices, NEW h \in {"use", "destroy"}, Invoke(Hook(h, k))
        PROVE  LifeInv'
    <3>1. Hook(h, k) # Nothing
          /\ Hook(h, k).hook = h /\ Hook(h, k).kind = k
      BY IntegrationsAssumption, Zenon DEF Hook, Nothing
    <3>2. hooks.deviceVersion = TRUE \/ k = "pointer"
      BY <2>1, IntegrationsAssumption, Zenon DEF Refused, Integration
    <3> HIDE DEF LifeInv, Calling, CallAllowed, LoopInPhase, Quiet
    <3> QED
      BY <2>1, <2>4, <3>1, <3>2, LifeInvoke, Zenon
  <2> QED
    BY <1>4, <2>2, <2>3, <2>4, Zenon DEF TestBody
<1>5. CASE EndBody \/ DeviceThrows
  BY <1>5, Zenon DEF EndBody, DeviceThrows, contextVars, testVars
<1>6. CASE DestroyDevice
  <2>1. phase \in {"ending", "stopped"} /\ phase' = phase
    BY <1>6, Zenon DEF DestroyDevice
  <2>2. PICK k \in devices : Invoke(Hook("destroy", k))
    BY <1>6, Zenon DEF DestroyDevice
  <2>4. phase = "ending"
    BY <2>1, <2>2, Zenon
  <2>3. Hook("destroy", k) # Nothing
        /\ Hook("destroy", k).hook = "destroy" /\ Hook("destroy", k).kind = k
    BY IntegrationsAssumption, Zenon DEF Hook, Nothing
  <2> HIDE DEF LifeInv, Calling, CallAllowed, LoopInPhase, Quiet
  <2> QED
    BY <2>1, <2>2, <2>3, <2>4, LifeInvoke, Zenon
<1>7. CASE Stop
  <2>1. Hook("stop", "none") # Nothing
        /\ Hook("stop", "none").hook = "stop"
    BY Zenon DEF Hook, Nothing
  <2>2. devices = {}
    BY <1>7, Zenon DEF Stop
  <2> HIDE DEF LifeInv, Calling, CallAllowed, LoopInPhase, Quiet
  <2> QED
    BY <1>7, <2>1, <2>2, LifeInvoke, Zenon DEF Stop
<1>8. CASE StopReturned
  BY <1>8, Zenon DEF StopReturned, contextVars, testVars
<1>9. CASE Join
  BY <1>9, Zenon DEF Join, contextVars, testVars
<1>10. CASE DestroyProxy
  BY <1>10, Zenon DEF DestroyProxy, testVars
<1>11. CASE DestroyEventLoop
  BY <1>11, Zenon DEF DestroyEventLoop, testVars
<1>12. CASE DestroyServer
  BY <1>12, Zenon DEF DestroyServer, testVars
<1>13. CASE RunRequest
  <2>1. requests = {waiting} /\ waiting # Nothing
    BY <1>13, Zenon DEF RunRequest
  <2>2. requests' = {} /\ handling' = waiting /\ Run(waiting, "loop")
    BY <1>13, <2>1, Zenon DEF RunRequest
  <2>3. devices' \subseteq Kinds
    <3>1. devices \subseteq Kinds /\ (waiting.hook = "create" => waiting.kind \in Kinds)
      BY <2>1, Zenon
    <3> HIDE DEF LifeInv, Calling, CallAllowed, LoopInPhase, Quiet
    <3> QED
      BY <2>2, <3>1, Zenon DEF Run
  <2>4. loopThread' = IF waiting.hook = "stop" THEN "stopping" ELSE loopThread
    BY <2>2, Zenon DEF Run
  <2>5. phase \notin {"started", "ending"} => devices' = {}
    <3>1. phase \notin {"started", "ending"} => devices = {} /\ phase = "stopping"
      BY <1>13, <2>1, Zenon DEF RunRequest
    <3>2. phase = "stopping" => waiting.hook = "stop"
      BY <2>1, Zenon
    <3> QED
      BY <2>2, <3>1, <3>2, Zenon DEF Run
  <2> QED
    BY <1>13, <2>1, <2>2, <2>3, <2>4, <2>5, Zenon DEF RunRequest, contextVars, testVars
<1>14. CASE Answer
  BY <1>14, Zenon DEF Answer, contextVars, testVars
<1>15. CASE LoopEnds
  BY <1>15, Zenon DEF LoopEnds, contextVars, testVars
<1>16. CASE UNCHANGED lifecycleVars
  BY <1>16 DEF lifecycleVars
<1> QED
  BY <1>1, <1>2, <1>3, <1>4, <1>5, <1>6, <1>7, <1>8, <1>9, <1>10, <1>11, <1>12, <1>13, <1>14,
     <1>15, <1>16, Zenon DEF LifecycleNext, Teardown, MainLoop, Over

(* The invariant of every behaviour.                                         *)
LEMMA LifeAlways == LifecycleSpec => []LifeInv
  BY LifeInit, LifeNext, PTL DEF LifecycleSpec

(* When stop() keeps its contract, the compositor's main loop has ended      *)
(* before ~Server destroys the WlcsDisplayServer, and the event loop goes    *)
(* after the thread that dispatches it and the proxy that has a source in    *)
(* it: whatever the integration, its versions and its devices.               *)
THEOREM ServersDestroyedInOrder ==
  ASSUME StopContract
  PROVE  LifecycleSpec => []DestroyedInOrder
<1>1. LifeInv => DestroyedInOrder
  BY Zenon DEF LifeInv, LoopInPhase, DestroyedInOrder
<1> QED
  BY <1>1, LifeAlways, PTL

(* A hook that a step calls runs on the loop or on the test thread, and      *)
(* nothing else is called in that step.                                      *)
LEMMA StepCalls ==
  ASSUME LifeInv, LifecycleNext, called' # called
  PROVE  \/ RunRequest
         \/ /\ phase \in {"started", "ending"}
            /\ \E op : /\ Direct(op) /\ Run(op, "test")
                       /\ op.hook \in {"use", "destroy"} => op.kind \in devices
                       /\ op.hook = "use" => hooks.deviceVersion \/ op.kind = "pointer"
<1> DEFINE P(op) ==
       /\ Direct(op) /\ Run(op, "test")
       /\ op.hook \in {"use", "destroy"} => op.kind \in devices
       /\ op.hook = "use" => hooks.deviceVersion \/ op.kind = "pointer"
<1>1. \A op : Invoke(op) => Direct(op) /\ Run(op, "test")
  BY Zenon DEF Invoke
<1>2. CASE TestBody
  <2>1. phase = "started" /\ Refused = {}
    BY <1>2, Zenon DEF TestBody
  <2>2. ASSUME NEW h \in {"create_client_socket", "position_window_absolute"},
               Invoke(Hook(h, "none"))
        PROVE  P(Hook(h, "none"))
    BY <1>1, <2>2, Zenon DEF Hook
  <2>3. ASSUME NEW k, Invoke(Hook("create", k)) PROVE P(Hook("create", k))
    BY <1>1, <2>3, Zenon DEF Hook
  <2>4. ASSUME NEW k \in devices, NEW h \in {"use", "destroy"}, Invoke(Hook(h, k))
        PROVE  P(Hook(h, k))
    <3>1. hooks.deviceVersion \/ k = "pointer"
      BY <2>1, Zenon DEF Refused
    <3>2. Hook(h, k).hook = h /\ Hook(h, k).kind = k
      BY Zenon DEF Hook
    <3> QED
      BY <1>1, <2>4, <3>1, <3>2, Zenon
  <2> QED
    BY <1>2, <2>1, <2>2, <2>3, <2>4, Zenon DEF TestBody
<1>3. CASE DestroyDevice
  <2>1. PICK k \in devices : Invoke(Hook("destroy", k))
    BY <1>3, Zenon DEF DestroyDevice
  <2>2. P(Hook("destroy", k))
    BY <1>1, <2>1, Zenon DEF Hook
  <2>3. phase = "ending"
    BY <1>3, <2>1, Zenon DEF DestroyDevice, LifeInv
  <2> QED
    BY <2>2, <2>3, Zenon DEF DestroyDevice
<1>4. CASE Stop
  <2>1. P(Hook("stop", "none"))
    BY <1>1, <1>4, Zenon DEF Hook, Stop
  <2> QED
    BY <1>4, <2>1, Zenon DEF Stop
<1> QED
  BY <1>2, <1>3, <1>4, Zenon
     DEF LifecycleNext, Teardown, MainLoop, Over, lifecycleVars, Construct, ConstructThrows,
     Start, EndBody, DeviceThrows, StopReturned, Join, DestroyProxy, DestroyEventLoop,
     DestroyServer, Answer, LoopEnds

(* A step calls a hook only while the server exists and its main loop runs,  *)
(* a device hook only while the device exists, and on the event loop when    *)
(* there is one, but for the down, move and up of a touch.                   *)
THEOREM HooksCalledInLifetime == LifecycleSpec => HooksInLifetime
<1> DEFINE Allowed ==
       called' # called =>
          /\ server = "created" /\ loopThread = "running"
          /\ \A c \in called' \ called :
                /\ c.hook \in {"use", "destroy"} => c.kind \in devices
                /\ c.hook = "use" => hooks.deviceVersion \/ c.kind = "pointer"
                /\ threaded => c.on = "loop" \/ (c.hook = "use" /\ c.kind = "touch")
<1>1. ASSUME LifeInv, [LifecycleNext]_lifecycleVars PROVE [Allowed]_lifecycleVars
  <2> SUFFICES ASSUME LifecycleNext, called' # called PROVE Allowed
    BY <1>1, Zenon DEF lifecycleVars
  <2>1. CASE RunRequest
    <3>1. requests = {waiting} /\ waiting # Nothing /\ loopThread = "running"
      BY <1>1, <2>1, Zenon DEF RunRequest, LifeInv, Calling
    <3>2. called' = called \cup {[hook |-> waiting.hook, kind |-> waiting.kind, on |-> "loop"]}
      BY <2>1, <3>1, Zenon DEF RunRequest, Run
    <3>3. server = "created"
      BY <1>1, <3>1, Zenon DEF LifeInv, LoopInPhase, Quiet
    <3>4. /\ waiting.hook \in {"use", "destroy"} => waiting.kind \in devices
          /\ waiting.hook = "use" => hooks.deviceVersion \/ waiting.kind = "pointer"
      BY <1>1, <3>1, Zenon DEF LifeInv, CallAllowed
    <3> QED
      BY <3>1, <3>2, <3>3, <3>4
  <2>2. CASE ~RunRequest
    <3>1. phase \in {"started", "ending"}
      BY <1>1, <2>2, StepCalls, Zenon
    <3>2. PICK op : /\ Direct(op) /\ Run(op, "test")
                    /\ op.hook \in {"use", "destroy"} => op.kind \in devices
                    /\ op.hook = "use" => hooks.deviceVersion \/ op.kind = "pointer"
      BY <1>1, <2>2, StepCalls, Zenon
    <3>3. called' = called \cup {[hook |-> op.hook, kind |-> op.kind, on |-> "test"]}
      BY <3>2, Zenon DEF Run
    <3>4. server = "created" /\ loopThread = "running"
      BY <1>1, <3>1, Zenon DEF LifeInv, LoopInPhase
    <3>5. threaded => op.hook = "use" /\ op.kind = "touch"
      BY <3>2, Zenon DEF Direct, NullProxy
    <3> QED
      BY <3>2, <3>3, <3>4, <3>5
  <2> QED
    BY <2>1, <2>2, Zenon
<1>2. HooksInLifetime <=> [][Allowed]_lifecycleVars
  BY Zenon DEF HooksInLifetime
<1> HIDE DEF Allowed
<1> QED
  BY <1>1, <1>2, LifeAlways, PTL DEF LifecycleSpec

-----------------------------------------------------------------------------
(* Reading events.                                                         *)

(* Where the client is in the loop of a call.                              *)
Places == {"idle", "check", "prepare", "time", "poll", "read", "dispatch", "waiting"}

ReadType ==
    /\ time \in Nat /\ deadline \in Nat /\ pollEnd \in Nat /\ readers \in Int /\ syncs \in Nat
    /\ pc \in Places

Flags == broken \in BOOLEAN /\ error \in BOOLEAN /\ inRoundtrip \in BOOLEAN /\ prompt \in BOOLEAN

Events == {Awaited, Other, Done}
Streams == socket \in Seq(Events) /\ queue \in Seq(Events) /\ dispatched \in Seq(Events)

(* dispatch_until() waits for events only while none of those dispatched   *)
(* is the awaited one, and poll() does not give up before the deadline.    *)
Unmet ==
    /\ pc # "dispatch" => queue = <<>> \/ error = TRUE
    /\ inRoundtrip = FALSE /\ pc \in {"prepare", "time", "poll"} => ~Has(dispatched, Awaited)
    /\ inRoundtrip = FALSE /\ pc = "poll" => pollEnd > deadline
    /\ result = "Timeout" => pc = "idle" /\ time > deadline /\ ~Has(dispatched, Awaited)

(* In a prompt system, a call that is past its deadline is in poll(), or    *)
(* on its way to return because the awaited event has arrived.             *)
LateCall ==
    inRoundtrip = FALSE /\ pc # "idle" /\ time > deadline =>
       /\ pc \in {"poll", "read", "dispatch", "check"}
       /\ pc = "poll" => socket = <<>> \/ Has(socket, Awaited)
       /\ pc = "read" => broken = TRUE \/ Has(socket, Awaited)
       /\ pc = "dispatch" => Has(queue, Awaited)
       /\ pc = "check" => Has(dispatched, Awaited)

(* In a prompt system, a read is announced exactly where the loop has yet  *)
(* to read or to cancel, and only a round trip has a sync outstanding.     *)
Balanced ==
    prompt = TRUE =>
       /\ readers = IF pc \in {"time", "poll", "read"} THEN 1 ELSE 0
       /\ pc # "waiting"
       /\ syncs = 0 \/ broken = TRUE \/ (inRoundtrip = TRUE /\ pc # "idle")
       /\ LateCall

(* An appended event, and the concatenation of two sequences of events.    *)
LEMMA HasAppend ==
  ASSUME NEW E, NEW s \in Seq(E), NEW e \in E
  PROVE  Append(s, e) \in Seq(E) /\ Has(Append(s, e), e)
         /\ \A x : Has(s, x) => Has(Append(s, e), x)
<1>1. Append(s, e) \in Seq(E) /\ Len(Append(s, e)) = Len(s) + 1
      /\ Append(s, e)[Len(s) + 1] = e
      /\ \A k \in 1 .. Len(s) : Append(s, e)[k] = s[k]
  OBVIOUS
<1>2. DOMAIN s = 1 .. Len(s) /\ DOMAIN Append(s, e) = 1 .. Len(s) + 1 /\ Len(s) \in Nat
  BY <1>1
<1> QED
  BY <1>1, <1>2 DEF Has

(* What the second of two joined sequences has, the whole has.              *)
LEMMA HasConcat ==
  ASSUME NEW E, NEW s \in Seq(E), NEW t \in Seq(E)
  PROVE  s \o t \in Seq(E) /\ \A x : Has(t, x) => Has(s \o t, x)
<1>1. s \o t \in Seq(E) /\ Len(s \o t) = Len(s) + Len(t) /\ Len(s) \in Nat /\ Len(t) \in Nat
      /\ \A k \in 1 .. Len(t) : (s \o t)[Len(s) + k] = t[k]
  OBVIOUS
<1>2. DOMAIN t = 1 .. Len(t) /\ DOMAIN (s \o t) = 1 .. Len(s) + Len(t)
  BY <1>1
<1>3. ASSUME NEW x, Has(t, x) PROVE Has(s \o t, x)
  <2>1. PICK k \in 1 .. Len(t) : t[k] = x
    BY <1>2, <1>3, Zenon DEF Has
  <2>2. Len(s) + k \in DOMAIN (s \o t) /\ (s \o t)[Len(s) + k] = x
    BY <1>1, <1>2, <2>1
  <2> QED
    BY <2>2, Zenon DEF Has
<1> QED
  BY <1>1, <1>3, Zenon

(* poll() is given more than the time that is left.                        *)
LEMMA WaitIsLonger ==
  ASSUME NEW t \in Nat, NEW left \in Nat
  PROVE  WaitFrom(t, left) \in Nat /\ WaitFrom(t, left) > t + left
<1> DEFINE M == Millisecond
<1>1. M \in Nat /\ M > 0
  BY TimeAssumption
<1> HIDE DEF M
<1>2. /\ left \div M \in Nat
      /\ left < (left \div M) * M + M
  BY <1>1
<1>3. (left \div M) * M \in Nat
  BY <1>1, <1>2
<1> QED
  BY <1>1, <1>2, <1>3 DEF WaitFrom, M

-----------------------------------------------------------------------------
(* The state of the display and of the call has its type when the client    *)
(* is created, and keeps it: the flags, the sequences, the rest.            *)
LEMMA TypeInit == Init => ReadType /\ Flags /\ Streams
<1> SUFFICES ASSUME Init PROVE ReadType /\ Flags /\ Streams
  BY Zenon
<1>1. ReadType
  BY DEF Init, ReadType, Places
<1>2. Flags
  BY TimeAssumption, Zenon DEF Init, Flags
<1>3. Streams
  BY DEF Init, Streams
<1> QED
  BY <1>1, <1>2, <1>3, Zenon

(* Preserved by every step.                                                 *)
LEMMA FlagsNext == Flags /\ [Next]_vars => Flags'
  BY Zenon DEF Flags, Next, vars, serverVars, display, Tick, SendEvent, Send, AnswerSync, Break,
         DispatchUntil, Roundtrip, client_flush, ClientStep, CheckPredicate, PrepareRead,
         CheckTime, PollReady, PollTimesOut, PollFails, ReadEvents, DispatchPending, DispatchFails

(* Events are only appended, joined and taken over.                         *)
LEMMA StreamsNext == Streams /\ [Next]_vars => Streams'
<1> SUFFICES ASSUME Streams, [Next]_vars PROVE Streams'
  BY Zenon
<1>1. /\ \A e \in Events : Append(socket, e) \in Seq(Events)
      /\ queue \o socket \in Seq(Events) /\ dispatched \o queue \in Seq(Events)
      /\ <<>> \in Seq(Events)
  BY DEF Streams
<1>2. {Awaited, Other} \subseteq Events /\ Done \in Events
  BY Zenon DEF Events
<1> QED
  BY <1>1, <1>2, Zenon
     DEF Streams, Next, vars, serverVars, display, Tick, SendEvent, Send, AnswerSync, Break,
         DispatchUntil, Roundtrip, client_flush, ClientStep, CheckPredicate, PrepareRead,
         CheckTime, PollReady, PollTimesOut, PollFails, ReadEvents, DispatchPending, DispatchFails, Dispatch

(* Preserved by every step; the end of poll() is the one that takes care.   *)
LEMMA TypeNext == ReadType /\ Flags /\ [Next]_vars => ReadType'
<1> SUFFICES ASSUME ReadType, Flags, [Next]_vars PROVE ReadType'
  BY Zenon
<1>1. pollEnd' \in Nat
  <2>1. CASE CheckTime
    <3>1. ASSUME ~inRoundtrip, ~(deadline - time < 0) PROVE WaitFrom(time, deadline - time) \in Nat
      <4>1. deadline - time \in Nat
        BY <3>1 DEF ReadType
      <4> QED
        BY <4>1, WaitIsLonger, Zenon DEF ReadType
    <3> QED
      BY <2>1, <3>1 DEF CheckTime, ReadType
  <2>2. CASE ~CheckTime
    BY <2>2, Zenon DEF ReadType, Next, vars, serverVars, display, Tick, SendEvent, Send,
       AnswerSync, Break,
         DispatchUntil, Roundtrip, client_flush, ClientStep, CheckPredicate, PrepareRead,
         PollReady, PollTimesOut, PollFails, ReadEvents, DispatchPending, DispatchFails
  <2> QED
    BY <2>1, <2>2, Zenon
<1>2. \A t \in Timeouts : time + t \in Nat
  BY TimeAssumption DEF ReadType
<1>3. /\ time + 1 \in Nat /\ syncs + 1 \in Nat /\ (syncs > 0 => syncs - 1 \in Nat)
      /\ readers + 1 \in Int /\ readers - 1 \in Int
  BY DEF ReadType
<1>4. time' \in Nat /\ deadline' \in Nat
  BY <1>2, <1>3, Zenon
     DEF Finish, Next, vars, serverVars, display, Tick, SendEvent, Send, AnswerSync, Break,
         DispatchUntil, Roundtrip, client_flush, ClientStep, CheckPredicate, PrepareRead,
         CheckTime, PollReady, PollTimesOut, PollFails, ReadEvents, DispatchPending, DispatchFails,
         ReadType
<1>5. readers' \in Int
  BY <1>3, Zenon
     DEF Finish, Next, vars, serverVars, display, Tick, SendEvent, Send, AnswerSync, Break,
         DispatchUntil, Roundtrip, client_flush, ClientStep, CheckPredicate, PrepareRead,
         CheckTime, PollReady, PollTimesOut, PollFails, ReadEvents, DispatchPending, DispatchFails,
         ReadType
<1>6. syncs' \in Nat
  BY <1>3, Zenon
     DEF Finish, Next, vars, serverVars, display, Tick, SendEvent, Send, AnswerSync, Break,
         DispatchUntil, Roundtrip, client_flush, ClientStep, CheckPredicate, PrepareRead,
         CheckTime, PollReady, PollTimesOut, PollFails, ReadEvents, DispatchPending, DispatchFails,
         ReadType
<1>7. pc' \in Places
  BY Zenon
     DEF Finish, Next, vars, serverVars, display, Tick, SendEvent, Send, AnswerSync, Break,
         DispatchUntil, Roundtrip, client_flush, ClientStep, CheckPredicate, PrepareRead,
         CheckTime, PollReady, PollTimesOut, PollFails, ReadEvents, DispatchPending, DispatchFails,
         ReadType, Places
<1> QED
  BY <1>1, <1>4, <1>5, <1>6, <1>7, Zenon DEF ReadType

(* No call has been made.                                                   *)
LEMMA UnmetInit == Init => Unmet
  BY Zenon DEF Init, Unmet

(* Preserved by every step: poll() ends late enough, and what it is called   *)
(* for has not been dispatched.                                             *)
LEMMA UnmetNext == ReadType /\ Flags /\ Unmet /\ [Next]_vars => Unmet'
<1> SUFFICES ASSUME ReadType, Flags, Unmet, [Next]_vars PROVE Unmet'
  BY Zenon
<1>0. time \in Nat /\ deadline \in Nat /\ pollEnd \in Nat /\ inRoundtrip \in BOOLEAN
      /\ error \in BOOLEAN /\ pc \in Places
  BY Zenon DEF ReadType, Flags
<1> USE DEF Unmet, Finish, display, serverVars
<1>a. CASE DispatchFails
  BY <1>a, Zenon DEF DispatchFails
<1> SUFFICES ASSUME UNCHANGED error PROVE Unmet'
  BY <1>a, Zenon DEF Next, vars
<1>1. CASE UNCHANGED vars
  BY <1>1, Zenon DEF vars, Has
<1>2. CASE Tick
  BY <1>0, <1>2 DEF Tick, Has
<1>3. ASSUME NEW e \in {Awaited, Other}, SendEvent(e) PROVE Unmet'
  BY <1>3, Zenon DEF SendEvent, Send, Has
<1>4. CASE AnswerSync \/ Break
  BY <1>4, Zenon DEF AnswerSync, Send, Break, Has
<1>5. ASSUME NEW t \in Timeouts, DispatchUntil(t) PROVE Unmet'
  BY <1>5, Zenon DEF DispatchUntil
<1>6. CASE Roundtrip \/ client_flush
  BY <1>6, Zenon DEF Roundtrip, client_flush
<1>7. CASE CheckPredicate
  BY <1>0, <1>7, Zenon DEF CheckPredicate, Predicate, Has
<1>8. CASE PrepareRead
  BY <1>8, Zenon DEF PrepareRead, Dispatch, Has
<1>9. CASE CheckTime
  <2>1. CASE inRoundtrip = FALSE /\ deadline - time < 0
    <3>1. pc' = "idle" /\ result' = "Timeout" /\ time > deadline
      BY <1>0, <1>9, <2>1 DEF CheckTime
    <3> QED
      BY <1>9, <2>1, <3>1, Zenon DEF CheckTime, Has
  <2>2. CASE ~(inRoundtrip = FALSE /\ deadline - time < 0)
    <3>1. pc' = "poll" /\ result' = result
          /\ pollEnd' = IF inRoundtrip THEN 0 ELSE WaitFrom(time, deadline - time)
      BY <1>0, <1>9, <2>2, Zenon DEF CheckTime
    <3>2. inRoundtrip = FALSE => pollEnd' > deadline
      <4>1. SUFFICES ASSUME inRoundtrip = FALSE PROVE pollEnd' > deadline
        BY Zenon
      <4>2. deadline - time \in Nat
        BY <1>0, <2>2, <4>1
      <4>3. WaitFrom(time, deadline - time) \in Nat
            /\ WaitFrom(time, deadline - time) > time + (deadline - time)
        BY <1>0, <4>2, WaitIsLonger, Zenon
      <4> QED
        BY <1>0, <3>1, <4>1, <4>3
    <3> QED
      BY <1>9, <3>1, <3>2, Zenon DEF CheckTime, Has
  <2> QED
    BY <2>1, <2>2, Zenon
<1>10. CASE PollReady \/ PollFails
  BY <1>10, Zenon DEF PollReady, PollFails, Has
<1>11. CASE PollTimesOut
  <2>1. inRoundtrip = FALSE /\ time > deadline
    BY <1>0, <1>11 DEF PollTimesOut
  <2> QED
    BY <1>11, <2>1, Zenon DEF PollTimesOut, Has
<1>12. CASE ReadEvents
  BY <1>12, Zenon DEF ReadEvents, Has
<1>13. CASE DispatchPending
  BY <1>13, Zenon DEF DispatchPending, Dispatch, Has
<1> QED
  BY <1>a, <1>1, <1>2, <1>3, <1>4, <1>5, <1>6, <1>7, <1>8, <1>9, <1>10, <1>11, <1>12, <1>13, Zenon
     DEF Next, ClientStep

(* Timeout is thrown only after the time asked for, and only when no event *)
(* made the predicate true, whatever arrives and whenever time passes.     *)
THEOREM TimeoutsAreReal == Spec => []TimeoutIsReal
<1>1. Unmet => TimeoutIsReal
  BY Zenon DEF Unmet, TimeoutIsReal
<1> QED
  BY <1>1, TypeInit, FlagsNext, TypeNext, UnmetInit, UnmetNext, PTL DEF Spec

(* No read is announced.                                                    *)
LEMMA BalancedInit == Init => Balanced
  BY Zenon DEF Init, Balanced, LateCall

(* Preserved by every step of a prompt system; after the deadline nothing    *)
(* but the awaited event comes.                                             *)
LEMMA BalancedNext == ReadType /\ Flags /\ Streams /\ Balanced /\ [Next]_vars => Balanced'
<1> SUFFICES ASSUME ReadType, Flags, Streams, Balanced, [Next]_vars, prompt' = TRUE
             PROVE  Balanced'
  BY Zenon DEF Balanced
<1>0. prompt = TRUE /\ inRoundtrip \in BOOLEAN /\ broken \in BOOLEAN
      /\ time \in Nat /\ deadline \in Nat /\ syncs \in Nat /\ readers \in Int
  BY Zenon DEF Flags, ReadType, Next, vars
<1>a. socket \in Seq(Events) /\ queue \in Seq(Events) /\ dispatched \in Seq(Events)
  BY Zenon DEF Streams
<1> USE <1>0 DEF Balanced, LateCall, Finish, display, serverVars
<1>1. CASE UNCHANGED vars
  BY <1>1, Zenon DEF vars, Has
<1>2. CASE Tick
  BY <1>2, Zenon DEF Tick, Has
<1>3. ASSUME NEW e \in {Awaited, Other}, SendEvent(e) PROVE Balanced'
  <2>1. Has(socket', e) /\ \A x : Has(socket, x) => Has(socket', x)
    <3>1. socket' = Append(socket, e) /\ e \in Events
      BY <1>3, Zenon DEF SendEvent, Send, Events
    <3> QED
      BY <1>a, <3>1, HasAppend, Zenon
  <2>2. inRoundtrip = FALSE /\ pc # "idle" /\ time > deadline => e = Awaited
    BY <1>3 DEF SendEvent
  <2>3. UNCHANGED <<time, syncs, broken, queue, readers, pc, inRoundtrip, deadline, dispatched>>
    BY <1>3, Zenon DEF SendEvent, Send
  <2>4. (Has(queue, Awaited) => Has(queue, Awaited)')
        /\ (Has(dispatched, Awaited) => Has(dispatched, Awaited)')
        /\ (Has(socket, Awaited) => Has(socket, Awaited)')
        /\ (e = Awaited => Has(socket, Awaited)')
    BY <2>1, <2>3, Zenon DEF Has
  <2> QED
    BY <2>2, <2>3, <2>4, Zenon
<1>4. CASE AnswerSync
  <2>1. \A x : Has(socket, x) => Has(socket', x)
    <3>1. socket' = Append(socket, Done) /\ Done \in Events
      BY <1>4, Zenon DEF AnswerSync, Send, Events
    <3> QED
      BY <1>a, <3>1, HasAppend, Zenon
  <2>2. inRoundtrip = TRUE /\ syncs' \in Nat
    BY <1>4 DEF AnswerSync, Send
  <2> QED
    BY <1>4, <2>1, <2>2 DEF AnswerSync, Send
<1>5. CASE Break
  BY <1>5, Zenon DEF Break, Has
<1>6. ASSUME NEW t \in Timeouts, DispatchUntil(t) PROVE Balanced'
  <2>1. ~(time' > deadline')
    BY <1>6, TimeAssumption DEF DispatchUntil
  <2> QED
    BY <1>6, <2>1, Zenon DEF DispatchUntil
<1>7. CASE Roundtrip \/ client_flush
  BY <1>7, Zenon DEF Roundtrip, client_flush
<1>8. CASE CheckPredicate
  BY <1>8, Zenon DEF CheckPredicate, Predicate, Has
<1>9. CASE PrepareRead
  BY <1>9 DEF PrepareRead, Dispatch, Has
<1>10. CASE CheckTime
  BY <1>10 DEF CheckTime, Has
<1>11. CASE PollReady
  <2>1. socket = <<>> => ~Has(socket, Awaited)
    BY DEF Has
  <2> QED
    BY <1>11, <2>1, Zenon DEF PollReady, Has
<1>12. CASE PollTimesOut \/ PollFails
  BY <1>12 DEF PollTimesOut, PollFails
<1>13. CASE ReadEvents
  <2>1. readers = 1
    BY <1>13, Zenon DEF ReadEvents
  <2>2. CASE broken
    BY <1>13, <2>1, <2>2 DEF ReadEvents
  <2>3. CASE ~broken
    <3>1. queue' = queue \o socket /\ pc' = "dispatch" /\ readers' = 0
      BY <1>13, <2>1, <2>3 DEF ReadEvents
    <3>2. Has(socket, Awaited) => Has(queue, Awaited)'
      <4>1. Has(socket, Awaited) => Has(queue \o socket, Awaited)
        BY <1>a, HasConcat, Zenon
      <4> QED
        BY <3>1, <4>1, Zenon DEF Has
    <3> QED
      BY <1>13, <2>3, <3>1, <3>2, Zenon DEF ReadEvents
  <2> QED
    BY <2>2, <2>3, Zenon
<1>14. CASE DispatchPending
  <2>1. Has(queue, Awaited) => Has(dispatched, Awaited)'
    <3>1. Has(queue, Awaited) => Has(dispatched \o queue, Awaited)
      BY <1>a, HasConcat, Zenon
    <3> QED
      BY <1>14, <3>1, Zenon DEF DispatchPending, Dispatch, Has
  <2> QED
    BY <1>14, <2>1, Zenon DEF DispatchPending
<1>15. CASE DispatchFails
  BY <1>15, Zenon DEF DispatchFails
<1> QED
  BY <1>1, <1>2, <1>3, <1>4, <1>5, <1>6, <1>7, <1>8, <1>9, <1>10, <1>11, <1>12, <1>13, <1>14, <1>15,
     Zenon DEF Next, ClientStep

(* In a prompt system no call, however it ended, leaves a read announced,  *)
(* so that the next one can read.                                          *)
THEOREM NoReadLeftAnnounced == Spec => []ReadersBalanced
<1>1. Flags /\ Balanced => ReadersBalanced
  BY Zenon DEF Flags, Balanced, ReadersBalanced
<1> QED
  BY <1>1, TypeInit, FlagsNext, StreamsNext, TypeNext, BalancedInit, BalancedNext, PTL DEF Spec

-----------------------------------------------------------------------------
(* Versions and globals.  The inductive invariant is the type of the state *)
(* with that of the event queue: every event, and every entry of globals,  *)
(* is of a global the compositor announced.  That the table is current     *)
(* once the queue is empty needs the order of the events in it (NameInv,   *)
(* SingleInv).                                                             *)

(* A selected version is admitted, offered and known.                      *)
LEMMA SelectedIsCandidate ==
    ASSUME NEW spec \in Specifiers, NEW available \in VersionNumbers,
           NEW supported \in VersionNumbers,
           SelectVersion(spec, available, supported) \notin {NoVersion, LogicError}
    PROVE  SelectVersion(spec, available, supported) \in Candidates(spec, available, supported)
<1>1. CASE spec.kind = "atMost"
  BY <1>1 DEF SelectVersion, Candidates, Admits, Lesser, Specifiers, VersionNumbers
<1>2. CASE spec.kind = "exactly"
  BY <1>2 DEF SelectVersion, Candidates, Admits, Lesser, Specifiers, VersionNumbers,
              NoVersion, LogicError
<1>3. CASE spec.kind = "atLeast"
  BY <1>3 DEF SelectVersion, Candidates, Admits, Lesser, Specifiers, VersionNumbers,
              NoVersion, LogicError
<1> QED
  BY <1>1, <1>2, <1>3, Zenon DEF Specifiers

(* Of the candidates the newest is selected.                               *)
LEMMA SelectedIsNewest ==
    ASSUME NEW spec \in Specifiers, NEW available \in VersionNumbers,
           NEW supported \in VersionNumbers,
           NEW v \in Candidates(spec, available, supported)
    PROVE  v <= SelectVersion(spec, available, supported)
<1> USE DEF SelectVersion, Candidates, Admits, Lesser, Specifiers, VersionNumbers
<1>1. CASE spec.kind = "atMost"
  BY <1>1
<1>2. CASE spec.kind = "exactly"
  BY <1>2
<1>3. CASE spec.kind = "atLeast"
  BY <1>3
<1> QED
  BY <1>1, <1>2, <1>3, Zenon

(* ExactlyVersion, AtLeastVersion and AtMostVersion::select_version return *)
(* the newest version that the test accepts, the compositor offers and     *)
(* WLCS knows; without one they return nothing or throw.                   *)
THEOREM SelectsNewestCandidate ==
    \A spec \in Specifiers, available, supported \in VersionNumbers :
        LET selected == SelectVersion(spec, available, supported)
            candidates == Candidates(spec, available, supported)
        IN /\ \A v \in candidates : v <= selected
           /\ selected \in candidates \/ (candidates = {} /\ selected \in {NoVersion, LogicError})
<1> SUFFICES ASSUME NEW spec \in Specifiers, NEW available \in VersionNumbers,
                    NEW supported \in VersionNumbers
             PROVE  LET selected == SelectVersion(spec, available, supported)
                        candidates == Candidates(spec, available, supported)
                    IN /\ \A v \in candidates : v <= selected
                       /\ \/ selected \in candidates
                          \/ candidates = {} /\ selected \in {NoVersion, LogicError}
  BY Zenon
<1> DEFINE selected == SelectVersion(spec, available, supported)
           candidates == Candidates(spec, available, supported)
<1>1. \A v \in candidates : v <= selected
  BY SelectedIsNewest, Zenon
<1>2. selected \notin {NoVersion, LogicError} => selected \in candidates
  BY SelectedIsCandidate, Zenon
<1>3. selected \in {NoVersion, LogicError} => candidates = {}
  <2>1. \A v \in candidates : v \in Int /\ v >= 1
    BY DEF Candidates, Lesser, VersionNumbers
  <2> HIDE DEF selected, candidates
  <2> QED
    BY <1>1, <2>1 DEF NoVersion, LogicError
<1> QED
  BY <1>1, <1>2, <1>3, Zenon

-----------------------------------------------------------------------------
(* Every event is of an announced global, and so is every entry.           *)
GlobalEvents == [type : {"global", "global_remove"}, offer : Offers]

Entries == [id : Ids, version : 1 .. MaxVersion]

QueueInv ==
    /\ wire \in Seq(GlobalEvents)
    /\ \A k \in DOMAIN wire : wire[k].offer \in announced

TableInv ==
    /\ globals \in [Interfaces -> SUBSET Entries]
    /\ \A i \in Interfaces : \A g \in globals[i] :
           [id |-> g.id, interface |-> i, version |-> g.version] \in announced

OfferInv ==
    /\ announced \subseteq Offers /\ advertised \subseteq announced
    /\ shells \subseteq Shells /\ outcome \in Outcomes

IInv == OfferInv /\ QueueInv /\ TableInv /\ BoundVersionFits /\ SkipIsDeclared

(* IInv is RegistryTypeOK and more.                                                *)
LEMMA IInvType == IInv => RegistryTypeOK
<1> SUFFICES ASSUME IInv PROVE RegistryTypeOK
  BY Zenon
<1>1. \A k \in DOMAIN wire : wire[k] \in GlobalEvents
  BY DEF IInv, QueueInv
<1> QED
  BY <1>1, Zenon DEF IInv, QueueInv, TableInv, OfferInv, RegistryTypeOK, GlobalEvents

(* The initial state satisfies IInv.                                       *)
LEMMA InitIInv == RegistryInit => IInv
<1> SUFFICES ASSUME RegistryInit PROVE IInv
  BY Zenon
<1>1. OfferInv /\ BoundVersionFits /\ SkipIsDeclared
  BY Zenon DEF RegistryInit, OfferInv, Outcomes, BoundVersionFits, SkipIsDeclared
<1>2. QueueInv
  BY DEF RegistryInit, QueueInv
<1>3. TableInv
  BY Zenon DEF RegistryInit, TableInv
<1> QED
  BY <1>1, <1>2, <1>3, Zenon DEF IInv

(* The compositor adds or withdraws a global.                              *)
LEMMA CompositorKeeps ==
    ASSUME IInv, NEW o \in Offers, Advertise(o) \/ Withdraw(o)
    PROVE  IInv'
<1>1. /\ UNCHANGED <<globals, global_type_names, shells, asked, outcome, bound>>
      /\ announced \subseteq announced' /\ o \in announced'
      /\ announced' \subseteq Offers /\ advertised' \subseteq announced'
  BY Zenon DEF IInv, OfferInv, Advertise, Withdraw, clientVars, bindVars
<1>2. \E e \in GlobalEvents : wire' = Append(wire, e) /\ e.offer = o
  BY DEF Advertise, Withdraw, GlobalEvents
<1>3. OfferInv'
  BY <1>1, Zenon DEF IInv, OfferInv
<1>4. QueueInv'
  <2>1. PICK e \in GlobalEvents : wire' = Append(wire, e) /\ e.offer = o
    BY <1>2, Zenon
  <2>2. wire' \in Seq(GlobalEvents)
    BY <2>1 DEF IInv, QueueInv
  <2>3. ASSUME NEW k \in DOMAIN wire' PROVE wire'[k].offer \in announced'
    <3>1. CASE k \in DOMAIN wire
      BY <3>1, <2>1, <1>1 DEF IInv, QueueInv
    <3>2. CASE k \notin DOMAIN wire
      BY <3>2, <2>1, <2>3, <1>1 DEF IInv, QueueInv
    <3> QED
      BY <3>1, <3>2, Zenon
  <2> QED
    BY <2>2, <2>3, Zenon DEF QueueInv
<1>5. TableInv'
  BY <1>1, Zenon DEF IInv, TableInv
<1>6. BoundVersionFits'
  BY <1>1, Zenon DEF IInv, BoundVersionFits
<1>7. SkipIsDeclared'
  BY <1>1, Zenon DEF IInv, SkipIsDeclared
<1> QED
  BY <1>3, <1>4, <1>5, <1>6, <1>7, Zenon DEF IInv

(* Taking the first event off the queue.                                   *)
LEMMA TailKeeps ==
    ASSUME QueueInv, wire # <<>>, wire' = Tail(wire), announced' = announced
    PROVE  QueueInv' /\ Head(wire).offer \in announced
<1>1. wire' \in Seq(GlobalEvents)
  BY DEF QueueInv
<1>2. \A k \in DOMAIN wire' : wire'[k] = wire[k + 1] /\ k + 1 \in DOMAIN wire
  BY DEF QueueInv
<1>3. 1 \in DOMAIN wire /\ Head(wire) = wire[1]
  BY DEF QueueInv
<1> QED
  BY <1>1, <1>2, <1>3, Zenon DEF QueueInv

(* The client handles a registry event.                                    *)
LEMMA HandlersKeep ==
    ASSUME IInv, global_handler \/ global_removed
    PROVE  IInv'
<1>1. /\ wire # <<>> /\ wire' = Tail(wire)
      /\ UNCHANGED <<advertised, announced, asked, outcome, bound>>
  BY Zenon DEF global_handler, global_removed, bindVars
<1>2. QueueInv' /\ Head(wire).offer \in announced
  BY <1>1, TailKeeps, Zenon DEF IInv
<1>3. TableInv'
  <2>1. CASE global_handler
    <3> DEFINE o == Head(wire).offer
               entry == [id |-> o.id, version |-> o.version]
    <3>1. o \in Offers
      BY <1>2, Zenon DEF IInv, OfferInv
    <3>2. globals' = [globals EXCEPT ![o.interface] = {entry}]
      BY <2>1, Zenon DEF global_handler
    <3>3. entry \in Entries /\ o.interface \in Interfaces
      BY <3>1, Zenon DEF Offers, Entries
    <3>4. [id |-> entry.id, interface |-> o.interface, version |-> entry.version] = o
      BY <3>1, Zenon DEF Offers
    <3>5. entry.id = o.id /\ entry.version = o.version
      BY Zenon
    <3> HIDE DEF entry, o
    <3>6. globals' \in [Interfaces -> SUBSET Entries]
      BY <3>2, <3>3, Zenon DEF IInv, TableInv
    <3>7. ASSUME NEW i \in Interfaces, NEW g \in globals'[i]
          PROVE  [id |-> g.id, interface |-> i, version |-> g.version] \in announced'
      <4>1. CASE i = o.interface
        BY <4>1, <3>2, <3>4, <3>7, <1>1, <1>2, Zenon DEF IInv, TableInv, o
      <4>2. CASE i # o.interface
        BY <4>2, <3>2, <1>1, <3>7, Zenon DEF IInv, TableInv
      <4> QED
        BY <4>1, <4>2, Zenon
    <3> QED
      BY <3>6, <3>7, Zenon DEF TableInv
  <2>2. CASE global_removed
    <3>1. globals' \in [Interfaces -> SUBSET Entries]
      BY <2>2, Zenon DEF global_removed, IInv, TableInv
    <3>2. \A i \in Interfaces : globals'[i] \subseteq globals[i]
      BY <2>2, Zenon DEF global_removed, IInv, TableInv
    <3> QED
      BY <3>1, <3>2, <1>1, Zenon DEF IInv, TableInv
  <2> QED
    BY <2>1, <2>2, Zenon
<1>4. shells' \subseteq Shells
  BY Zenon DEF IInv, OfferInv, global_handler, global_removed
<1>5. OfferInv' /\ BoundVersionFits' /\ SkipIsDeclared'
  BY <1>1, <1>4, Zenon DEF IInv, OfferInv, BoundVersionFits, SkipIsDeclared
<1> QED
  BY <1>2, <1>3, <1>5, Zenon DEF IInv

(* No version 0 is offered, so an undeclared extension has no candidates.  *)
LEMMA NoCandidates ==
    ASSUME NEW spec \in Specifiers, NEW supported \in VersionNumbers
    PROVE  Candidates(spec, NoVersion, supported) = {}
BY DEF Candidates, Lesser, NoVersion, VersionNumbers

(* A test asks for a global or for a shell.                                *)
LEMMA AskingKeeps ==
    ASSUME IInv, RegistryAssumption,
           NEW i \in Interfaces, NEW spec \in Specifiers,
           UNCHANGED <<advertised, announced, wire, clientVars>>,
           asked' = [interface |-> i, spec |-> spec],
           outcome' \in Outcomes, BoundVersionFits', SkipIsDeclared'
    PROVE  IInv'
<1>1. OfferInv'
  BY Zenon DEF IInv, OfferInv, clientVars
<1>2. QueueInv'
  BY Zenon DEF IInv, QueueInv, clientVars
<1>3. TableInv'
  BY Zenon DEF IInv, TableInv, clientVars
<1> QED
  BY <1>1, <1>2, <1>3, Zenon DEF IInv

(* bind_if_supported().                                                    *)
LEMMA BindKeeps ==
    ASSUME IInv, RegistryAssumption, NEW i \in Interfaces \ Shells, NEW spec \in Specs,
           bind_if_supported(i, spec)
    PROVE  IInv'
<1> DEFINE chosen == { v \in { SelectVersion(spec, g.version, Known[i]) : g \in globals[i] } :
                         v # NoVersion }
<1>1. spec \in Specifiers /\ Known[i] \in VersionNumbers /\ Declared[i] \in Nat
  BY DEF Specs, Specifiers, VersionNumbers, RegistryAssumption
<1>2. /\ asked' = [interface |-> i, spec |-> spec]
      /\ UNCHANGED <<advertised, announced, wire, clientVars>>
  BY Zenon DEF bind_if_supported
<1>3. asked'.interface = i /\ asked'.spec = spec /\ announced' = announced
  BY <1>2, Zenon
<1>4. CASE outcome' = "logic_error"
  <2>1. BoundVersionFits' /\ SkipIsDeclared' /\ outcome' \in Outcomes
    BY <1>4, Zenon DEF BoundVersionFits, SkipIsDeclared, Outcomes
  <2> QED
    BY <2>1, <1>1, <1>2, AskingKeeps, Zenon
<1>5. CASE ~Throws(i, spec) /\ outcome' = "bound" /\ bound' \in chosen
  <2>1. PICK g \in globals[i] : /\ bound' = SelectVersion(spec, g.version, Known[i])
                                /\ bound' # NoVersion
    BY <1>5, Zenon
  <2>2. /\ g.version \in VersionNumbers
        /\ [id |-> g.id, interface |-> i, version |-> g.version] \in announced
    BY <2>1 DEF IInv, TableInv, Entries, VersionNumbers, RegistryAssumption
  <2>3. spec.kind = "atMost" \/ spec.version <= Known[i]
    BY <1>1, <1>5, <2>1 DEF Throws, Specifiers, VersionNumbers
  <2>4. bound' # LogicError
    BY <1>1, <2>1, <2>2, <2>3
       DEF SelectVersion, Lesser, LogicError, NoVersion, Specifiers, VersionNumbers
  <2>5. bound' \in Candidates(spec, g.version, Known[i])
    BY <1>1, <2>1, <2>2, <2>4, SelectedIsCandidate, Zenon
  <2>6. Admits(spec, bound') /\ bound' \in 1 .. Known[i] /\ bound' <= g.version
    <3>1. PICK c, v, m : c = bound' /\ v = g.version /\ m = Known[i]
      BY Zenon
    <3>2. v \in Nat /\ m \in Nat /\ c \in 1 .. Lesser(v, m) /\ Admits(spec, c)
      BY <1>1, <2>2, <2>5, <3>1, Zenon DEF Candidates, VersionNumbers
    <3>3. c \in 1 .. m /\ c <= v
      BY <3>2 DEF Lesser
    <3> QED
      BY <3>1, <3>2, <3>3, Zenon
  <2>7. \E a \in announced : a.interface = i /\ bound' <= a.version
    BY <2>2, <2>6, Zenon
  <2>8. BoundVersionFits'
    BY <1>3, <2>6, <2>7, Zenon DEF BoundVersionFits
  <2>9. SkipIsDeclared' /\ outcome' \in Outcomes
    BY <1>5, Zenon DEF SkipIsDeclared, Outcomes
  <2> QED
    BY <2>8, <2>9, <1>1, <1>2, AskingKeeps, Zenon
<1>6. CASE outcome' = IF Expected(i, spec) THEN "failed" ELSE "skipped"
  <2>1. BoundVersionFits' /\ outcome' \in Outcomes
    BY <1>6, Zenon DEF BoundVersionFits, Outcomes
  <2>2. ASSUME outcome' = "skipped"
        PROVE  Declares /\ Candidates(spec, Declared[i], Known[i]) = {}
    <3>1. Declares /\ (\/ Declared[i] = NoVersion
                       \/ SelectVersion(spec, Declared[i], Known[i]) = NoVersion)
      BY <1>6, <2>2, Zenon DEF Expected
    <3>2. CASE Declared[i] = NoVersion
      BY <3>1, <3>2, <1>1, NoCandidates, Zenon
    <3>3. CASE Declared[i] # NoVersion /\ SelectVersion(spec, Declared[i], Known[i]) = NoVersion
      <4>1. Declared[i] \in VersionNumbers
        BY <1>1, <3>3, Zenon DEF VersionNumbers, NoVersion
      <4>2. \A v \in Candidates(spec, Declared[i], Known[i]) : v <= NoVersion
        BY <1>1, <3>3, <4>1, SelectedIsNewest, Zenon
      <4>3. \A v \in Candidates(spec, Declared[i], Known[i]) : v \in Int /\ v >= 1
        BY <1>1, <4>1 DEF Candidates, Lesser, VersionNumbers
      <4> QED
        BY <3>1, <4>2, <4>3 DEF NoVersion
    <3> QED
      BY <3>1, <3>2, <3>3, Zenon
  <2>3. SkipIsDeclared'
    BY <1>3, <2>2, Zenon DEF SkipIsDeclared
  <2> QED
    BY <2>1, <2>3, <1>1, <1>2, AskingKeeps, Zenon
<1> QED
  BY <1>4, <1>5, <1>6, Zenon DEF bind_if_supported

(* the_shell() and the_xdg_shell_v6().                                     *)
LEMMA ShellKeeps ==
    ASSUME IInv, RegistryAssumption, NEW i \in Shells, the_shell(i)
    PROVE  IInv'
<1>1. i \in Interfaces /\ Known[i] \in VersionNumbers /\ AnyVersion \in Specifiers
  BY DEF RegistryAssumption, AnyVersion, AtLeastVersion, Specifiers, VersionNumbers
<1>2. /\ asked' = [interface |-> i, spec |-> AnyVersion]
      /\ UNCHANGED <<advertised, announced, wire, clientVars>>
  BY Zenon DEF the_shell
<1>3. outcome' \in Outcomes /\ BoundVersionFits'
  BY Zenon DEF the_shell, Outcomes, BoundVersionFits
<1>4. outcome' = "skipped" => (~Declares \/ Declared[i] = NoVersion)
  BY Zenon DEF the_shell
<1>5. SkipIsDeclared'
  BY <1>1, <1>2, <1>4, NoCandidates, Zenon DEF SkipIsDeclared
<1> QED
  BY <1>1, <1>2, <1>3, <1>5, AskingKeeps, Zenon

(* Every step preserves IInv.                                              *)
LEMMA NextIInv == IInv /\ [RegistryNext]_registryVars => IInv'
<1> SUFFICES ASSUME IInv, [RegistryNext]_registryVars PROVE IInv'
  BY Zenon
<1>1. ASSUME NEW o \in Offers, Advertise(o) PROVE IInv'
  BY <1>1, CompositorKeeps, Zenon
<1>2. ASSUME NEW o \in advertised, Withdraw(o) PROVE IInv'
  <2>1. o \in Offers
    BY Zenon DEF IInv, OfferInv
  <2> QED
    BY <1>2, <2>1, CompositorKeeps, Zenon
<1>3. CASE global_handler \/ global_removed
  BY <1>3, HandlersKeep, Zenon
<1>4. ASSUME NEW i \in Interfaces \ Shells, NEW s \in Specs, bind_if_supported(i, s) PROVE IInv'
  BY <1>4, BindKeeps, RegistryAssumption, Zenon
<1>5. ASSUME NEW i \in Shells, the_shell(i) PROVE IInv'
  BY <1>5, ShellKeeps, RegistryAssumption, Zenon
<1>6. CASE UNCHANGED registryVars
  BY <1>6, Zenon DEF registryVars, clientVars, bindVars, IInv, OfferInv, QueueInv, TableInv,
              BoundVersionFits, SkipIsDeclared
<1> QED
  BY <1>1, <1>2, <1>3, <1>4, <1>5, <1>6, Zenon DEF RegistryNext

(* The client's tables only hold what the compositor announced.            *)
THEOREM TypeCorrect == RegistrySpec => []RegistryTypeOK
<1>1. RegistrySpec => []IInv
  BY InitIInv, NextIInv, PTL DEF RegistrySpec
<1> QED
  BY <1>1, IInvType, PTL

(* bind_if_supported() binds a version the test accepts, the compositor    *)
(* offered and WLCS knows.                                                 *)
THEOREM BoundVersionCorrect == RegistrySpec => []BoundVersionFits
<1>1. RegistrySpec => []IInv
  BY InitIInv, NextIInv, PTL DEF RegistrySpec
<1>2. IInv => BoundVersionFits
  BY Zenon DEF IInv
<1> QED
  BY <1>1, <1>2, PTL

(* A test is skipped only for what the integration does not declare.       *)
THEOREM SkipCorrect == RegistrySpec => []SkipIsDeclared
<1>1. RegistrySpec => []IInv
  BY InitIInv, NextIInv, PTL DEF RegistrySpec
<1>2. IInv => SkipIsDeclared
  BY Zenon DEF IInv
<1> QED
  BY <1>1, <1>2, PTL

-----------------------------------------------------------------------------
(* The k-th event of a queue is the announcement, or the withdrawal, of o. *)
At(w, t, o, k) == k \in 1 .. Len(w) /\ w[k].type = t /\ w[k].offer = o

Sent(w, t, o) == \E k \in Nat : At(w, t, o, k)

Named(o) == <<o.id, o.interface>> \in global_type_names

(* An id is of one global; the client has a name for a global from the     *)
(* announcement until the withdrawal is handled.                           *)
NameInv ==
    /\ \A a, b \in announced : a.id = b.id => a = b
    /\ \A n \in global_type_names : \E a \in announced : n = <<a.id, a.interface>>
    /\ \A o \in announced :
          /\ o \in advertised <=> (Named(o) \/ Sent(wire, "global", o))
                                    /\ ~Sent(wire, "global_remove", o)
          /\ ~(Named(o) /\ Sent(wire, "global", o))
          /\ Sent(wire, "global_remove", o) => Named(o) \/ Sent(wire, "global", o)
    /\ \A o \in announced, t \in {"global", "global_remove"}, k, l \in Nat :
          At(wire, t, o, k) /\ At(wire, t, o, l) => k = l
    /\ \A o \in announced, k, l \in Nat :
          At(wire, "global", o, k) /\ At(wire, "global_remove", o, l) => k < l

(* The globals of an interface that has had one at a time come one after   *)
(* the other, on the wire too, and the one that has a name has the entry.  *)
(* An entry, of any interface, is of a global that has a name.             *)
SingleInv ==
    /\ \A a, b \in announced, l \in Nat :
          /\ a # b /\ a.interface = b.interface /\ a.interface \notin crowded
          /\ At(wire, "global", b, l)
          => /\ Named(a) => \E m \in Nat : m < l /\ At(wire, "global_remove", a, m)
             /\ \A k \in Nat : At(wire, "global", a, k) /\ k < l =>
                   \E m \in Nat : k < m /\ m < l /\ At(wire, "global_remove", a, m)
    /\ \A a \in announced : a.interface \notin crowded /\ Named(a) =>
          globals[a.interface] = {[id |-> a.id, version |-> a.version]}
    /\ \A i \in Interfaces : \A g \in globals[i] : <<g.id, i>> \in global_type_names

(* An event is put on the wire.                                            *)
LEMMA AtAppend ==
    ASSUME NEW w \in Seq(GlobalEvents), NEW e \in GlobalEvents, NEW u, u = Append(w, e),
           NEW t, NEW o, NEW k \in Nat
    PROVE  At(u, t, o, k) <=> \/ At(w, t, o, k)
                              \/ k = Len(w) + 1 /\ e.type = t /\ e.offer = o
<1>1. Len(u) = Len(w) + 1 /\ Len(w) \in Nat /\ u[Len(w) + 1] = e
  OBVIOUS
<1>2. \A j \in 1 .. Len(w) : u[j] = w[j]
  OBVIOUS
<1> QED
  BY <1>1, <1>2 DEF At

(* Taken off it, every later event moves up by one.                        *)
LEMMA AtTail ==
    ASSUME NEW w \in Seq(GlobalEvents), w # <<>>, NEW u, u = Tail(w), NEW t, NEW o, NEW k \in Nat
    PROVE  At(u, t, o, k) <=> k # 0 /\ At(w, t, o, k + 1)
<1>1. Len(u) = Len(w) - 1 /\ Len(w) \in Nat
  OBVIOUS
<1>2. \A j \in 1 .. Len(w) - 1 : u[j] = w[j + 1]
  OBVIOUS
<1> QED
  BY <1>1, <1>2 DEF At

(* What is on the wire is of an announced global.                          *)
LEMMA AtAnnounced ==
    ASSUME QueueInv, NEW t, NEW o, NEW k \in Nat, At(wire, t, o, k)
    PROVE  o \in announced /\ k >= 1 /\ k <= Len(wire) /\ Len(wire) \in Nat
BY DEF QueueInv, At

(* The compositor adds a global.                                           *)
LEMMA AdvertiseCurrent ==
    ASSUME IInv, NameInv, SingleInv, NEW o \in Offers, Advertise(o)
    PROVE  NameInv' /\ SingleInv'
<1> DEFINE e == [type |-> "global", offer |-> o]
<1>1. PICK n \in Nat : n = Len(wire) + 1
  BY DEF IInv, QueueInv
<1>2. /\ wire \in Seq(GlobalEvents) /\ e \in GlobalEvents /\ wire' = Append(wire, e)
      /\ e.type = "global" /\ e.offer = o
  BY Zenon DEF IInv, QueueInv, Advertise, GlobalEvents
<1> HIDE DEF e
<1>3. ASSUME NEW t, NEW a, NEW k \in Nat
      PROVE  /\ At(wire', t, a, k) <=> \/ At(wire, t, a, k)
                                       \/ k = n /\ t = "global" /\ a = o
             /\ At(wire, t, a, k) => k < n /\ a \in announced
  <2>1. At(wire', t, a, k) <=> \/ At(wire, t, a, k)
                               \/ k = Len(wire) + 1 /\ e.type = t /\ e.offer = a
    BY <1>2, AtAppend, Zenon
  <2>2. At(wire, t, a, k) => k < n /\ a \in announced
    BY <1>1, AtAnnounced DEF IInv
  <2> QED
    BY <2>1, <2>2, <1>1, <1>2, Zenon
<1>4. /\ \A a \in announced : a.id # o.id
      /\ o.interface \notin crowded' => \A a \in advertised : a.interface # o.interface
      /\ crowded \subseteq crowded'
      /\ advertised' = advertised \cup {o} /\ announced' = announced \cup {o}
      /\ UNCHANGED <<globals, global_type_names>>
  BY Zenon DEF Advertise, clientVars
<1>5. o \notin announced /\ \A a \in announced : a # o
  BY <1>4, Zenon
<1>6. \A a : Named(a)' <=> Named(a)
  BY <1>4, Zenon DEF Named
<1>7. ~Named(o)
  BY <1>4, Zenon DEF Named, NameInv
<1>8. \A t, a : Sent(wire', t, a) <=> Sent(wire, t, a) \/ (t = "global" /\ a = o)
  BY <1>3, Zenon DEF Sent
<1>9. ~Sent(wire, "global", o) /\ ~Sent(wire, "global_remove", o)
  BY <1>3, <1>5, Zenon DEF Sent
<1>10. NameInv'
  <2>1. \A a, b \in announced' : a.id = b.id => a = b
    BY <1>4, Zenon DEF NameInv
  <2>2. \A m \in global_type_names' : \E a \in announced' : m = <<a.id, a.interface>>
    BY <1>4, Zenon DEF NameInv
  <2>3. ASSUME NEW a \in announced'
        PROVE  /\ a \in advertised' <=> (Named(a)' \/ Sent(wire', "global", a))
                                         /\ ~Sent(wire', "global_remove", a)
               /\ ~(Named(a)' /\ Sent(wire', "global", a))
               /\ Sent(wire', "global_remove", a) => Named(a)' \/ Sent(wire', "global", a)
    <3>1. "global" # "global_remove"
      OBVIOUS
    <3>2. CASE a = o
      BY <3>1, <3>2, <1>4, <1>6, <1>7, <1>8, <1>9, Zenon
    <3>3. CASE a # o
      <4>1. /\ a \in announced /\ (a \in advertised' <=> a \in advertised)
            /\ \A t : Sent(wire', t, a) <=> Sent(wire, t, a)
        BY <3>3, <1>4, <1>8, Zenon
      <4> QED
        BY <4>1, <1>6, Zenon DEF NameInv
    <3> QED
      BY <3>2, <3>3, Zenon
  <2>4. \A a \in announced', t \in {"global", "global_remove"}, k, l \in Nat :
          At(wire', t, a, k) /\ At(wire', t, a, l) => k = l
    BY <1>3, <1>4, <1>5 DEF NameInv
  <2>5. \A a \in announced', k, l \in Nat :
          At(wire', "global", a, k) /\ At(wire', "global_remove", a, l) => k < l
    BY <1>3, <1>4, <1>5 DEF NameInv
  <2> QED
    BY <2>1, <2>2, <2>3, <2>4, <2>5, Zenon DEF NameInv
<1>11. SingleInv'
  <2>1. ASSUME NEW a \in announced', NEW b \in announced', NEW l \in Nat,
               a # b, a.interface = b.interface, a.interface \notin crowded',
               At(wire', "global", b, l)
        PROVE  /\ Named(a)' => \E m \in Nat : m < l /\ At(wire', "global_remove", a, m)
               /\ \A k \in Nat : At(wire', "global", a, k) /\ k < l =>
                   \E m \in Nat : k < m /\ m < l /\ At(wire', "global_remove", a, m)
    <3>1. CASE a = o
      BY <3>1, <2>1, <1>3, <1>6, <1>7, <1>5
    <3>2. CASE a # o /\ b # o
      <4>1. /\ a \in announced /\ b \in announced /\ At(wire, "global", b, l)
            /\ a.interface \notin crowded
        BY <3>2, <2>1, <1>3, <1>4, Zenon
      <4> QED
        BY <4>1, <3>2, <2>1, <1>3, <1>6 DEF SingleInv
    <3>3. CASE a # o /\ b = o
      <4>1. a \in announced /\ l = n /\ a \notin advertised
        BY <3>3, <2>1, <1>3, <1>4, <1>5, Zenon
      <4>2. ASSUME Named(a) \/ Sent(wire, "global", a)
            PROVE  \E m \in Nat : m < n /\ At(wire, "global_remove", a, m)
        <5>1. Sent(wire, "global_remove", a)
          BY <4>1, <4>2, Zenon DEF NameInv
        <5> QED
          BY <5>1, <1>3, Zenon DEF Sent
      <4>3. Named(a)' => \E m \in Nat : m < l /\ At(wire', "global_remove", a, m)
        BY <4>1, <4>2, <1>3, <1>6, Zenon
      <4>4. ASSUME NEW k \in Nat, At(wire', "global", a, k), k < l
            PROVE  \E m \in Nat : k < m /\ m < l /\ At(wire', "global_remove", a, m)
        <5>1. At(wire, "global", a, k)
          BY <4>4, <3>3, <1>3
        <5>2. PICK m \in Nat : m < n /\ At(wire, "global_remove", a, m)
          BY <5>1, <4>2, Zenon DEF Sent
        <5>3. k < m
          BY <5>1, <5>2, <4>1, Zenon DEF NameInv
        <5> QED
          BY <5>2, <5>3, <4>1, <1>3, Zenon
      <4> QED
        BY <4>3, <4>4, Zenon
    <3> QED
      BY <3>1, <3>2, <3>3, Zenon
  <2>2. \A a \in announced' : a.interface \notin crowded' /\ Named(a)' =>
          globals'[a.interface] = {[id |-> a.id, version |-> a.version]}
    BY <1>4, <1>6, <1>7, Zenon DEF SingleInv
  <2>3. \A i \in Interfaces : \A g \in globals'[i] : <<g.id, i>> \in global_type_names'
    BY <1>4, <1>6, Zenon DEF SingleInv
  <2> QED
    BY <2>1, <2>2, <2>3, Zenon DEF SingleInv
<1> QED
  BY <1>10, <1>11, Zenon

(* The compositor withdraws a global.                                      *)
LEMMA WithdrawCurrent ==
    ASSUME IInv, NameInv, SingleInv, NEW o \in advertised, Withdraw(o)
    PROVE  NameInv' /\ SingleInv'
<1> DEFINE e == [type |-> "global_remove", offer |-> o]
<1>1. PICK n \in Nat : n = Len(wire) + 1
  BY DEF IInv, QueueInv
<1>2. /\ wire \in Seq(GlobalEvents) /\ e \in GlobalEvents /\ wire' = Append(wire, e)
      /\ e.type = "global_remove" /\ e.offer = o /\ o \in announced
  BY Zenon DEF IInv, QueueInv, OfferInv, Withdraw, GlobalEvents
<1> HIDE DEF e
<1>3. ASSUME NEW t, NEW a, NEW k \in Nat
      PROVE  /\ At(wire', t, a, k) <=> \/ At(wire, t, a, k)
                                       \/ k = n /\ t = "global_remove" /\ a = o
             /\ At(wire, t, a, k) => k < n /\ a \in announced
  <2>1. At(wire', t, a, k) <=> \/ At(wire, t, a, k)
                               \/ k = Len(wire) + 1 /\ e.type = t /\ e.offer = a
    BY <1>2, AtAppend, Zenon
  <2>2. At(wire, t, a, k) => k < n /\ a \in announced
    BY <1>1, AtAnnounced DEF IInv
  <2> QED
    BY <2>1, <2>2, <1>1, <1>2, Zenon
<1>4. /\ advertised' = advertised \ {o}
      /\ UNCHANGED <<announced, crowded, globals, global_type_names>>
  BY Zenon DEF Withdraw, clientVars
<1>5. /\ Named(o) \/ Sent(wire, "global", o)
      /\ ~Sent(wire, "global_remove", o)
      /\ o \in announced
  BY <1>2, Zenon DEF NameInv
<1>6. \A a : Named(a)' <=> Named(a)
  BY <1>4, Zenon DEF Named
<1>8. \A t, a : Sent(wire', t, a) <=> Sent(wire, t, a) \/ (t = "global_remove" /\ a = o)
  BY <1>3, Zenon DEF Sent
<1>9. \A k \in Nat : ~At(wire, "global_remove", o, k)
  BY <1>5, Zenon DEF Sent
<1>10. NameInv'
  <2>1. \A a, b \in announced' : a.id = b.id => a = b
    BY <1>4, Zenon DEF NameInv
  <2>2. \A m \in global_type_names' : \E a \in announced' : m = <<a.id, a.interface>>
    BY <1>4, Zenon DEF NameInv
  <2>3. \A a \in announced' :
          /\ a \in advertised' <=> (Named(a)' \/ Sent(wire', "global", a))
                                    /\ ~Sent(wire', "global_remove", a)
          /\ ~(Named(a)' /\ Sent(wire', "global", a))
          /\ Sent(wire', "global_remove", a) => Named(a)' \/ Sent(wire', "global", a)
    BY <1>4, <1>5, <1>6, <1>8 DEF NameInv
  <2>4. \A a \in announced', t \in {"global", "global_remove"}, k, l \in Nat :
          At(wire', t, a, k) /\ At(wire', t, a, l) => k = l
    BY <1>3, <1>4, <1>9, SMTT(30) DEF NameInv
  <2>5. \A a \in announced', k, l \in Nat :
          At(wire', "global", a, k) /\ At(wire', "global_remove", a, l) => k < l
    BY <1>3, <1>4, SMTT(30) DEF NameInv
  <2> QED
    BY <2>1, <2>2, <2>3, <2>4, <2>5, Zenon DEF NameInv
<1>11. SingleInv'
  <2>1. ASSUME NEW a \in announced', NEW b \in announced', NEW l \in Nat,
               a # b, a.interface = b.interface, a.interface \notin crowded',
               At(wire', "global", b, l)
        PROVE  /\ Named(a)' => \E m \in Nat : m < l /\ At(wire', "global_remove", a, m)
               /\ \A k \in Nat : At(wire', "global", a, k) /\ k < l =>
                   \E m \in Nat : k < m /\ m < l /\ At(wire', "global_remove", a, m)
    <3>1. /\ a \in announced /\ b \in announced /\ At(wire, "global", b, l)
          /\ a.interface \notin crowded
      BY <2>1, <1>3, <1>4
    <3>2. \A k \in Nat : At(wire', "global", a, k) <=> At(wire, "global", a, k)
      BY <1>3
    <3>3. \A m \in Nat : At(wire, "global_remove", a, m) => At(wire', "global_remove", a, m)
      BY <1>3, Zenon
    <3> QED
      BY <3>1, <3>2, <3>3, <2>1, <1>6, Zenon DEF SingleInv
  <2>2. \A a \in announced' : a.interface \notin crowded' /\ Named(a)' =>
          globals'[a.interface] = {[id |-> a.id, version |-> a.version]}
    BY <1>4, <1>6, Zenon DEF SingleInv
  <2>3. \A i \in Interfaces : \A g \in globals'[i] : <<g.id, i>> \in global_type_names'
    BY <1>4, <1>6, Zenon DEF SingleInv
  <2> QED
    BY <2>1, <2>2, <2>3, Zenon DEF SingleInv
<1> QED
  BY <1>10, <1>11, Zenon

(* The client handles an announcement.                                     *)
LEMMA HandlerCurrent ==
    ASSUME IInv, NameInv, SingleInv, global_handler
    PROVE  NameInv' /\ SingleInv'
<1>1. PICK o : o = Head(wire).offer
  BY Zenon
<1>2. /\ wire \in Seq(GlobalEvents) /\ wire # <<>> /\ wire' = Tail(wire)
      /\ Head(wire).type = "global" /\ o \in announced /\ o \in Offers
  BY <1>1, TailKeeps, Zenon DEF IInv, QueueInv, OfferInv, global_handler
<1>3. ASSUME NEW t, NEW a, NEW k \in Nat
      PROVE  /\ At(wire', t, a, k) <=> k # 0 /\ At(wire, t, a, k + 1)
             /\ At(wire, t, a, 1) <=> t = "global" /\ a = o
             /\ At(wire, t, a, k) => k >= 1 /\ a \in announced
  <2>1. At(wire', t, a, k) <=> k # 0 /\ At(wire, t, a, k + 1)
    BY <1>2, AtTail, Zenon
  <2>2. At(wire, t, a, k) => k >= 1 /\ a \in announced
    BY AtAnnounced, Zenon DEF IInv
  <2>3. 1 \in 1 .. Len(wire) /\ Head(wire) = wire[1]
    BY <1>2
  <2>4. At(wire, t, a, 1) <=> t = "global" /\ a = o
    BY <2>3, <1>1, <1>2, Zenon DEF At
  <2> QED
    BY <2>1, <2>2, <2>4, Zenon
<1>4. /\ global_type_names' = global_type_names \cup { <<o.id, o.interface>> }
      /\ globals' = [globals EXCEPT ![o.interface] = { [id |-> o.id, version |-> o.version] }]
      /\ UNCHANGED <<advertised, announced, crowded>>
  BY <1>1, Zenon DEF global_handler
<1>5. o.interface \in Interfaces /\ globals \in [Interfaces -> SUBSET Entries]
  BY <1>2, Zenon DEF Offers, IInv, TableInv
<1>6. \A a \in announced : Named(a)' <=> Named(a) \/ a = o
  <2>1. \A a \in announced : a.id = o.id => a = o
    BY <1>2, Zenon DEF NameInv
  <2> QED
    BY <1>4, <2>1, Zenon DEF Named
<1>7. Sent(wire, "global", o) /\ ~Named(o)
  <2>1. At(wire, "global", o, 1)
    BY <1>3, Zenon
  <2> QED
    BY <1>2, <2>1, Zenon DEF Sent, NameInv
<1>8. \A a \in announced, t \in {"global", "global_remove"} :
         Sent(wire', t, a) <=> Sent(wire, t, a) /\ ~(t = "global" /\ a = o)
  <2>1. ASSUME NEW a \in announced, NEW t \in {"global", "global_remove"}, Sent(wire', t, a)
        PROVE  Sent(wire, t, a) /\ ~(t = "global" /\ a = o)
    <3>1. PICK k \in Nat : At(wire', t, a, k)
      BY <2>1, Zenon DEF Sent
    <3>2. At(wire, t, a, k + 1) /\ k + 1 \in Nat /\ k + 1 # 1
      BY <3>1, <1>3
    <3>3. ~At(wire, t, a, 1)
      BY <3>2, Zenon DEF NameInv
    <3> QED
      BY <3>2, <3>3, <1>3, Zenon DEF Sent
  <2>2. ASSUME NEW a \in announced, NEW t \in {"global", "global_remove"}, Sent(wire, t, a),
               ~(t = "global" /\ a = o)
        PROVE  Sent(wire', t, a)
    <3>1. PICK k \in Nat : At(wire, t, a, k)
      BY <2>2, Zenon DEF Sent
    <3>2. k >= 1 /\ k # 1
      BY <3>1, <2>2, <1>3, Zenon
    <3>3. PICK m \in Nat : m + 1 = k
      BY <3>2
    <3>4. m # 0
      BY <3>2, <3>3
    <3> QED
      BY <3>1, <3>3, <3>4, <1>3, Zenon DEF Sent
  <2> QED
    BY <2>1, <2>2, Zenon
<1>10. NameInv'
  <2>1. \A a, b \in announced' : a.id = b.id => a = b
    BY <1>4, Zenon DEF NameInv
  <2>2. \A m \in global_type_names' : \E a \in announced' : m = <<a.id, a.interface>>
    BY <1>2, <1>4, Zenon DEF NameInv
  <2>3. \A a \in announced' :
          /\ a \in advertised' <=> (Named(a)' \/ Sent(wire', "global", a))
                                    /\ ~Sent(wire', "global_remove", a)
          /\ ~(Named(a)' /\ Sent(wire', "global", a))
          /\ Sent(wire', "global_remove", a) => Named(a)' \/ Sent(wire', "global", a)
    BY <1>4, <1>6, <1>7, <1>8, Zenon DEF NameInv
  <2>4. ASSUME NEW a \in announced', NEW t \in {"global", "global_remove"},
               NEW k \in Nat, NEW l \in Nat, At(wire', t, a, k), At(wire', t, a, l)
        PROVE  k = l
    <3>1. At(wire, t, a, k + 1) /\ At(wire, t, a, l + 1) /\ a \in announced
      BY <2>4, <1>3, <1>4, Zenon
    <3>2. k + 1 = l + 1
      BY <3>1 DEF NameInv
    <3> QED
      BY <3>2
  <2>5. ASSUME NEW a \in announced', NEW k \in Nat, NEW l \in Nat,
               At(wire', "global", a, k), At(wire', "global_remove", a, l)
        PROVE  k < l
    <3>1. At(wire, "global", a, k + 1) /\ At(wire, "global_remove", a, l + 1) /\ a \in announced
      BY <2>5, <1>3, <1>4, Zenon
    <3>2. k + 1 < l + 1
      BY <3>1 DEF NameInv
    <3> QED
      BY <3>2
  <2> QED
    BY <2>1, <2>2, <2>3, <2>4, <2>5, Zenon DEF NameInv
<1>11. \A a \in announced : a # o /\ a.interface = o.interface /\ a.interface \notin crowded
          => ~Named(a)
  <2>1. At(wire, "global", o, 1) /\ 1 \in Nat
    BY <1>3, Zenon
  <2>2. \A m \in Nat : m < 1 => ~(m >= 1)
    OBVIOUS
  <2>3. \A a : \A m \in Nat : m < 1 => ~At(wire, "global_remove", a, m)
    BY <2>2, <1>3, Zenon
  <2>4. \A a \in announced : a # o /\ a.interface = o.interface /\ a.interface \notin crowded
           /\ Named(a) => \E m \in Nat : m < 1 /\ At(wire, "global_remove", a, m)
    BY <2>1, <1>2, Zenon DEF SingleInv
  <2> QED
    BY <2>3, <2>4, Zenon
<1>12. SingleInv'
  <2>1. ASSUME NEW a \in announced', NEW b \in announced', NEW l \in Nat,
               a # b, a.interface = b.interface, a.interface \notin crowded',
               At(wire', "global", b, l)
        PROVE  /\ Named(a)' => \E m \in Nat : m < l /\ At(wire', "global_remove", a, m)
               /\ \A k \in Nat : At(wire', "global", a, k) /\ k < l =>
                   \E m \in Nat : k < m /\ m < l /\ At(wire', "global_remove", a, m)
    <3>1. /\ a \in announced /\ b \in announced /\ l + 1 \in Nat
          /\ At(wire, "global", b, l + 1) /\ l # 0 /\ a.interface \notin crowded
      BY <2>1, <1>3, <1>4
    <3>2. ASSUME NEW j \in Nat, NEW m \in Nat, j < m, m < l + 1, At(wire, "global_remove", a, m)
          PROVE  \E q \in Nat : j < q + 1 /\ q < l /\ At(wire', "global_remove", a, q)
      <4>1. m # 0 /\ m # 1
        BY <3>2, <1>3
      <4>2. PICK q \in Nat : q + 1 = m /\ q # 0
        BY <4>1
      <4> QED
        BY <3>2, <4>2, <1>3
    <3>3. ASSUME Named(a)'
          PROVE  \E m \in Nat : m < l /\ At(wire', "global_remove", a, m)
      <4>1. CASE Named(a)
        <5>1. PICK m \in Nat : m < l + 1 /\ At(wire, "global_remove", a, m)
          BY <4>1, <3>1, <2>1, Zenon DEF SingleInv
        <5>2. 0 < m
          BY <5>1, <1>3
        <5> QED
          BY <3>2, <5>1, <5>2, Zenon
      <4>2. CASE a = o
        <5>1. At(wire, "global", a, 1) /\ 1 < l + 1
          BY <4>2, <3>1, <1>3
        <5>2. PICK m \in Nat : 1 < m /\ m < l + 1 /\ At(wire, "global_remove", a, m)
          BY <5>1, <3>1, <2>1, Zenon DEF SingleInv
        <5> QED
          BY <3>2, <5>2, Zenon
      <4> QED
        BY <4>1, <4>2, <3>1, <3>3, <1>6, Zenon
    <3>4. ASSUME NEW k \in Nat, At(wire', "global", a, k), k < l
          PROVE  \E m \in Nat : k < m /\ m < l /\ At(wire', "global_remove", a, m)
      <4>1. At(wire, "global", a, k + 1) /\ k + 1 < l + 1 /\ k + 1 \in Nat
        BY <3>4, <1>3
      <4>2. PICK m \in Nat : k + 1 < m /\ m < l + 1 /\ At(wire, "global_remove", a, m)
        BY <4>1, <3>1, <2>1, Zenon DEF SingleInv
      <4>3. PICK q \in Nat : k + 1 < q + 1 /\ q < l /\ At(wire', "global_remove", a, q)
        BY <4>1, <4>2, <3>2, Zenon
      <4> QED
        BY <4>3
    <3> QED
      BY <3>3, <3>4, Zenon
  <2>2. ASSUME NEW a \in announced', a.interface \notin crowded', Named(a)'
        PROVE  globals'[a.interface] = {[id |-> a.id, version |-> a.version]}
    <3>1. CASE a = o
      BY <3>1, <1>4, <1>5, Zenon
    <3>2. CASE a # o
      <4>1. /\ a \in announced /\ Named(a) /\ a.interface # o.interface
            /\ a.interface \notin crowded
        BY <3>2, <2>2, <1>4, <1>6, <1>11, Zenon
      <4>2. globals'[a.interface] = globals[a.interface]
        BY <4>1, <1>4, <1>5
      <4> QED
        BY <4>1, <4>2, <2>2, Zenon DEF SingleInv
    <3> QED
      BY <3>1, <3>2, Zenon
  <2>3. ASSUME NEW i \in Interfaces, NEW g \in globals'[i]
        PROVE  <<g.id, i>> \in global_type_names'
    <3>1. CASE i = o.interface
      <4>1. g = [id |-> o.id, version |-> o.version]
        BY <3>1, <1>4, <1>5, Zenon
      <4>2. g.id = o.id
        BY <4>1
      <4> QED
        BY <4>2, <3>1, <1>4, Zenon
    <3>2. CASE i # o.interface
      <4>1. g \in globals[i]
        BY <3>2, <2>3, <1>4, <1>5, Zenon
      <4> QED
        BY <4>1, <1>4, Zenon DEF SingleInv
    <3> QED
      BY <3>1, <3>2, Zenon
  <2> QED
    BY <2>1, <2>2, <2>3, Zenon DEF SingleInv
<1> QED
  BY <1>10, <1>12, Zenon
(* The client handles a withdrawal: the global has a name, and loses it.    *)
LEMMA RemovedCurrent ==
    ASSUME IInv, NameInv, SingleInv, global_removed
    PROVE  NameInv' /\ SingleInv'
<1>1. PICK o : o = Head(wire).offer
  BY Zenon
<1>2. /\ wire \in Seq(GlobalEvents) /\ wire # <<>> /\ wire' = Tail(wire)
      /\ Head(wire).type = "global_remove" /\ o \in announced /\ o \in Offers
  BY <1>1, TailKeeps, Zenon DEF IInv, QueueInv, OfferInv, global_removed
<1>3. ASSUME NEW t, NEW a, NEW k \in Nat
      PROVE  /\ At(wire', t, a, k) <=> k # 0 /\ At(wire, t, a, k + 1)
             /\ At(wire, t, a, 1) <=> t = "global_remove" /\ a = o
             /\ At(wire, t, a, k) => k >= 1 /\ a \in announced
  <2>1. At(wire', t, a, k) <=> k # 0 /\ At(wire, t, a, k + 1)
    BY <1>2, AtTail, Zenon
  <2>2. At(wire, t, a, k) => k >= 1 /\ a \in announced
    BY AtAnnounced, Zenon DEF IInv
  <2>3. 1 \in 1 .. Len(wire) /\ Head(wire) = wire[1]
    BY <1>2
  <2>4. At(wire, t, a, 1) <=> t = "global_remove" /\ a = o
    BY <2>3, <1>1, <1>2, Zenon DEF At
  <2> QED
    BY <2>1, <2>2, <2>4, Zenon
<1>4. At(wire, "global_remove", o, 1) /\ Sent(wire, "global_remove", o)
  BY <1>3, Zenon DEF Sent
<1>5. Named(o)
  <2>1. \A m \in Nat : ~At(wire, "global", o, m)
    <3> SUFFICES ASSUME NEW m \in Nat, At(wire, "global", o, m) PROVE FALSE
      BY Zenon
    <3>1. m < 1
      BY <1>2, <1>4, Zenon DEF NameInv
    <3> QED
      BY <3>1, <1>3
  <2> QED
    BY <2>1, <1>2, <1>4, Zenon DEF NameInv, Sent
<1>6. /\ UNCHANGED <<advertised, announced, crowded>>
      /\ \A i \in Interfaces : globals'[i] = IF i = o.interface THEN {} ELSE globals[i]
      /\ global_type_names' = global_type_names \ { <<o.id, o.interface>> }
  <2> DEFINE names == { n \in global_type_names : n[1] = o.id }
  <2>1. names = { <<o.id, o.interface>> }
    <3>1. ASSUME NEW n \in names PROVE n = <<o.id, o.interface>>
      <4>1. PICK a \in announced : n = <<a.id, a.interface>>
        BY Zenon DEF NameInv
      <4>2. a.id = o.id
        BY <4>1, Zenon
      <4> QED
        BY <4>1, <4>2, <1>2, Zenon DEF NameInv
    <3>2. <<o.id, o.interface>> \in names
      BY <1>5, Zenon DEF Named
    <3> QED
      BY <3>1, <3>2, Zenon
  <2>2. /\ globals' = [i \in Interfaces |-> IF \E n \in names : n[2] = i THEN {} ELSE globals[i]]
        /\ global_type_names' = global_type_names \ names
        /\ UNCHANGED <<advertised, announced, crowded>>
    BY <1>1, Zenon DEF global_removed
  <2> HIDE DEF names
  <2>3. \A i : (\E n \in names : n[2] = i) <=> i = o.interface
    BY <2>1
  <2> QED
    BY <2>1, <2>2, <2>3, Zenon
<1>7. \A a \in announced : Named(a)' <=> Named(a) /\ a # o
  <2>1. \A a \in announced : a.id = o.id => a = o
    BY <1>2, Zenon DEF NameInv
  <2> QED
    BY <1>6, <2>1, Zenon DEF Named
<1>8. \A a \in announced, t \in {"global", "global_remove"} :
         Sent(wire', t, a) <=> Sent(wire, t, a) /\ ~(t = "global_remove" /\ a = o)
  <2>1. ASSUME NEW a \in announced, NEW t \in {"global", "global_remove"}, Sent(wire', t, a)
        PROVE  Sent(wire, t, a) /\ ~(t = "global_remove" /\ a = o)
    <3>1. PICK k \in Nat : At(wire', t, a, k)
      BY <2>1, Zenon DEF Sent
    <3>2. At(wire, t, a, k + 1) /\ k + 1 \in Nat /\ k + 1 # 1
      BY <3>1, <1>3
    <3>3. ~At(wire, t, a, 1)
      BY <3>2, Zenon DEF NameInv
    <3> QED
      BY <3>2, <3>3, <1>3, Zenon DEF Sent
  <2>2. ASSUME NEW a \in announced, NEW t \in {"global", "global_remove"}, Sent(wire, t, a),
               ~(t = "global_remove" /\ a = o)
        PROVE  Sent(wire', t, a)
    <3>1. PICK k \in Nat : At(wire, t, a, k)
      BY <2>2, Zenon DEF Sent
    <3>2. k >= 1 /\ k # 1
      BY <3>1, <2>2, <1>3
    <3>3. PICK m \in Nat : m + 1 = k
      BY <3>2
    <3>4. m # 0
      BY <3>2, <3>3
    <3> QED
      BY <3>1, <3>3, <3>4, <1>3, Zenon DEF Sent
  <2> QED
    BY <2>1, <2>2, Zenon
<1>9. \A m \in global_type_names' : \E a \in announced : m = <<a.id, a.interface>>
  BY <1>6, Zenon DEF NameInv
<1>10. NameInv'
  <2>1. \A a, b \in announced' : a.id = b.id => a = b
    BY <1>6, Zenon DEF NameInv
  <2>2. \A m \in global_type_names' : \E a \in announced' : m = <<a.id, a.interface>>
    BY <1>6, <1>9, Zenon DEF NameInv
  <2>3. \A a \in announced' :
          /\ a \in advertised' <=> (Named(a)' \/ Sent(wire', "global", a))
                                    /\ ~Sent(wire', "global_remove", a)
          /\ ~(Named(a)' /\ Sent(wire', "global", a))
          /\ Sent(wire', "global_remove", a) => Named(a)' \/ Sent(wire', "global", a)
    BY <1>2, <1>4, <1>5, <1>6, <1>7, <1>8, Zenon DEF NameInv
  <2>4. ASSUME NEW a \in announced', NEW t \in {"global", "global_remove"},
               NEW k \in Nat, NEW l \in Nat, At(wire', t, a, k), At(wire', t, a, l)
        PROVE  k = l
    <3>1. At(wire, t, a, k + 1) /\ At(wire, t, a, l + 1) /\ a \in announced
      BY <2>4, <1>3, <1>6, Zenon
    <3>2. k + 1 = l + 1
      BY <3>1 DEF NameInv
    <3> QED
      BY <3>2
  <2>5. ASSUME NEW a \in announced', NEW k \in Nat, NEW l \in Nat,
               At(wire', "global", a, k), At(wire', "global_remove", a, l)
        PROVE  k < l
    <3>1. At(wire, "global", a, k + 1) /\ At(wire, "global_remove", a, l + 1) /\ a \in announced
      BY <2>5, <1>3, <1>6, Zenon
    <3>2. k + 1 < l + 1
      BY <3>1 DEF NameInv
    <3> QED
      BY <3>2
  <2> QED
    BY <2>1, <2>2, <2>3, <2>4, <2>5, Zenon DEF NameInv
<1>11. \A a \in announced :
          a # o /\ a.interface = o.interface /\ a.interface \notin crowded => ~Named(a)
  <2> SUFFICES ASSUME NEW a \in announced, a # o, a.interface = o.interface,
                      a.interface \notin crowded, Named(a)
               PROVE  FALSE
    BY Zenon
  <2>1. {[id |-> a.id, version |-> a.version]} = {[id |-> o.id, version |-> o.version]}
    BY <1>2, <1>5, Zenon DEF SingleInv
  <2>2. [id |-> a.id, version |-> a.version].id = [id |-> o.id, version |-> o.version].id
    BY <2>1, Zenon
  <2>3. a.id = o.id
    BY <2>2, Zenon
  <2> QED
    BY <2>3, <1>2, Zenon DEF NameInv
<1>12. SingleInv'
  <2>1. ASSUME NEW a \in announced', NEW b \in announced', NEW l \in Nat,
               a # b, a.interface = b.interface, a.interface \notin crowded',
               At(wire', "global", b, l)
        PROVE  /\ Named(a)' => \E m \in Nat : m < l /\ At(wire', "global_remove", a, m)
               /\ \A k \in Nat : At(wire', "global", a, k) /\ k < l =>
                   \E m \in Nat : k < m /\ m < l /\ At(wire', "global_remove", a, m)
    <3>1. /\ a \in announced /\ b \in announced /\ l + 1 \in Nat
          /\ At(wire, "global", b, l + 1) /\ l # 0 /\ a.interface \notin crowded
      <4>1. /\ a \in announced /\ b \in announced /\ At(wire, "global", b, l + 1) /\ l # 0
            /\ a.interface \notin crowded
        BY <2>1, <1>3, <1>6, Zenon
      <4> QED
        BY <4>1
    <3>2. ASSUME NEW j \in Nat, NEW m \in Nat, j < m, m < l + 1, At(wire, "global_remove", a, m),
                 m # 1
          PROVE  \E q \in Nat : j < q + 1 /\ q < l /\ At(wire', "global_remove", a, q)
      <4>1. m # 0
        BY <3>2, <1>3
      <4>2. PICK q \in Nat : q + 1 = m /\ q # 0
        BY <4>1, <3>2
      <4> QED
        BY <3>2, <4>2, <1>3
    <3>3. ASSUME Named(a)'
          PROVE  \E m \in Nat : m < l /\ At(wire', "global_remove", a, m)
      <4>1. Named(a) /\ a # o
        BY <3>1, <3>3, <1>7, Zenon
      <4>2. PICK m \in Nat : m < l + 1 /\ At(wire, "global_remove", a, m)
        BY <4>1, <3>1, <2>1, Zenon DEF SingleInv
      <4>3. 0 < m /\ m # 1
        BY <4>1, <4>2, <1>3
      <4> QED
        BY <3>2, <4>2, <4>3, Zenon
    <3>4. ASSUME NEW k \in Nat, At(wire', "global", a, k), k < l
          PROVE  \E m \in Nat : k < m /\ m < l /\ At(wire', "global_remove", a, m)
      <4>1. At(wire, "global", a, k + 1) /\ k + 1 < l + 1 /\ k + 1 \in Nat /\ k # 0
        BY <3>4, <1>3
      <4>2. PICK m \in Nat : k + 1 < m /\ m < l + 1 /\ At(wire, "global_remove", a, m)
        BY <4>1, <3>1, <2>1, Zenon DEF SingleInv
      <4>3. PICK q \in Nat : k + 1 < q + 1 /\ q < l /\ At(wire', "global_remove", a, q)
        BY <4>1, <4>2, <3>2
      <4> QED
        BY <4>3
    <3> QED
      BY <3>3, <3>4, Zenon
  <2>2. ASSUME NEW a \in announced', a.interface \notin crowded', Named(a)'
        PROVE  globals'[a.interface] = {[id |-> a.id, version |-> a.version]}
    <3>1. a \in announced /\ Named(a) /\ a.interface # o.interface /\ a.interface \in Interfaces
      BY <2>2, <1>6, <1>7, <1>11, Zenon DEF IInv, OfferInv, Offers
    <3> QED
      BY <3>1, <2>2, <1>6, Zenon DEF SingleInv
  <2>3. ASSUME NEW i \in Interfaces, NEW g \in globals'[i]
        PROVE  <<g.id, i>> \in global_type_names'
    <3>1. g \in globals[i] /\ i # o.interface
      BY <2>3, <1>6, Zenon
    <3>2. <<g.id, i>> \in global_type_names
      BY <3>1, Zenon DEF SingleInv
    <3>3. <<g.id, i>> # <<o.id, o.interface>>
      BY <3>1, Zenon
    <3> QED
      BY <3>2, <3>3, <1>6, Zenon
  <2> QED
    BY <2>1, <2>2, <2>3, Zenon DEF SingleInv
<1> QED
  BY <1>10, <1>12, Zenon

(* Every step keeps the names and the entries.                             *)
LEMMA NextCurrent ==
    IInv /\ NameInv /\ SingleInv /\ [RegistryNext]_registryVars => NameInv' /\ SingleInv'
<1> SUFFICES ASSUME IInv, NameInv, SingleInv, [RegistryNext]_registryVars
             PROVE  NameInv' /\ SingleInv'
  BY Zenon
<1>1. CASE UNCHANGED <<advertised, announced, crowded, wire, globals, global_type_names>>
  <2>1. \A a : Named(a)' <=> Named(a)
    BY <1>1, Zenon DEF Named
  <2>2. NameInv'
    BY <1>1, <2>1 DEF NameInv
  <2>3. SingleInv'
    BY <1>1, <2>1, Zenon DEF SingleInv
  <2> QED
    BY <2>2, <2>3, Zenon
<1>2. ASSUME NEW i, NEW s, bind_if_supported(i, s) \/ the_shell(i)
      PROVE  NameInv' /\ SingleInv'
  BY <1>1, <1>2, Zenon DEF bind_if_supported, the_shell, clientVars
<1>3. CASE UNCHANGED registryVars
  BY <1>1, <1>3, Zenon DEF registryVars, clientVars
<1> QED
  BY <1>2, <1>3, AdvertiseCurrent, WithdrawCurrent, HandlerCurrent, RemovedCurrent, Zenon
     DEF RegistryNext

(* Before the first global there are none.                                 *)
LEMMA InitCurrent == RegistryInit => NameInv /\ SingleInv
BY DEF RegistryInit, NameInv, SingleInv, Named, Sent, At

(* With no event on its way the invariant says that the table agrees with  *)
(* the compositor.                                                         *)
LEMMA SettledCurrent ==
    ASSUME IInv, NameInv, SingleInv
    PROVE  GlobalsAreCurrent
<1> SUFFICES ASSUME Settled, NEW i \in Interfaces
             PROVE  /\ \A g \in globals[i] :
                          [id |-> g.id, interface |-> i, version |-> g.version] \in advertised
                    /\ Offered(i) # {} /\ i \notin crowded => globals[i] # {}
  BY Zenon DEF GlobalsAreCurrent
<1>1. \A t, o : ~Sent(wire, t, o)
  BY DEF Settled, Sent, At
<1>2. \A o \in announced : o \in advertised <=> Named(o)
  BY <1>1, Zenon DEF NameInv
<1>3. ASSUME NEW g \in globals[i]
      PROVE  [id |-> g.id, interface |-> i, version |-> g.version] \in advertised
  <2>1. PICK a \in announced : a = [id |-> g.id, interface |-> i, version |-> g.version]
    BY <1>3, Zenon DEF IInv, TableInv
  <2>2. a.id = g.id /\ a.interface = i
    BY <2>1
  <2>3. Named(a)
    BY <1>3, <2>2, Zenon DEF SingleInv, Named
  <2> QED
    BY <2>1, <2>3, <1>2, Zenon
<1>4. ASSUME Offered(i) # {}, i \notin crowded PROVE globals[i] # {}
  <2>1. PICK a \in advertised : a.interface = i
    BY <1>4, Zenon DEF Offered
  <2>2. a \in announced /\ Named(a)
    BY <2>1, <1>2, Zenon DEF IInv, OfferInv
  <2> QED
    BY <1>4, <2>1, <2>2, Zenon DEF SingleInv
<1> QED
  BY <1>3, <1>4, Zenon

(* Whatever globals come and go, with all registry events handled no entry *)
(* is of a global that is gone, and every interface that never had two     *)
(* globals at a time has an entry if the compositor advertises it.         *)
THEOREM GlobalsCorrect == RegistrySpec => []GlobalsAreCurrent
<1>1. RegistrySpec => [](IInv /\ NameInv /\ SingleInv)
  BY InitIInv, NextIInv, InitCurrent, NextCurrent, PTL DEF RegistrySpec
<1> QED
  BY <1>1, SettledCurrent, PTL
=============================================================================
