-------------------------- MODULE ServerLifecycle --------------------------
(***************************************************************************)
(* The life of wlcs::Server in one test (src/in_process_server.cpp): the   *)
(* fixture constructs it from the compositor's integration hooks, starts   *)
(* it, the test body creates, uses and destroys input devices, and the     *)
(* fixture stops and destroys it.                                          *)
(*                                                                         *)
(* An integration that has no start() hook is run on a thread of WLCS with *)
(* an event loop of WLCS; every hook call is then a synchronous call       *)
(* through ThreadProxy (module RemoteCall): the test thread sends a        *)
(* request and waits, the event loop runs the hook and answers.  Otherwise *)
(* the test thread calls the hooks itself.                                 *)
(*                                                                         *)
(* Devices are locals of the test body or members of the test's fixture    *)
(* class, which derives from InProcessServer, whose SetUp() and TearDown() *)
(* start and stop the server, or from StartedInProcessServer, whose        *)
(* constructor and destructor do.                                          *)
(***************************************************************************)
EXTENDS Naturals

CONSTANTS Integrations,  \* the integrations considered, see Integration
          Kinds          \* device kinds the test body uses

Integration == [hooksVersion : 0 .. 4, version : 0 .. 4, start : BOOLEAN,
                startOnThisThread : BOOLEAN, stop : BOOLEAN, createKeyboard : BOOLEAN,
                \* are its touches and keyboards of the version WLCS expects?
                deviceVersion : BOOLEAN,
                \* does stop() wait until the compositor's main loop has ended?
                stopBlocks : BOOLEAN]

ASSUME IntegrationsAssumption ==
    /\ Integrations \subseteq Integration
    /\ Kinds \subseteq {"pointer", "touch", "keyboard"}

VARIABLES hooks,      \* the integration under test
          fixture,    \* the class the test's fixture derives from
          members,    \* device kinds that are members of the fixture
          server,     \* the WlcsDisplayServer: "created" or "destroyed"
          phase,      \* how far the fixture has come
          threaded,   \* is there a ThreadContext?
          loopThread, \* the compositor's main loop
          eventLoop,  \* thread_context->event_loop: "none", "live" or "destroyed"
          proxy,      \* thread_context->proxy: likewise
          source,     \* the proxy's fd event source: "none", "added" or "removed"
          requests,   \* packets sent through the proxy, not yet handled
          waiting,    \* the hook call the test thread waits for
          handling,   \* the hook call the event loop is in
          devices,    \* device kinds for which a device exists
          called      \* history: hook calls, and the thread each one ran on

lifecycleVars == <<hooks, fixture, members, server, phase, threaded, loopThread, eventLoop,
                   proxy, source, requests, waiting, handling, devices, called>>
testVars == <<hooks, fixture, members>>
contextVars == <<testVars, server, threaded, eventLoop, proxy, source>>

Nothing == [hook |-> "none", kind |-> "none"]
Hook(h, k) == [hook |-> h, kind |-> k]

LifecycleInit ==
    /\ hooks \in Integrations
    /\ fixture \in {"InProcessServer", "StartedInProcessServer"}
    /\ members \in SUBSET Kinds
    \* the members are made before SetUp() is called, when no server runs
    /\ fixture = "InProcessServer" => members = {}
    /\ server = "created"
    /\ phase = "new"
    /\ threaded = FALSE
    /\ loopThread = "none"
    /\ eventLoop = "none"
    /\ proxy = "none"
    /\ source = "none"
    /\ requests = {}
    /\ waiting = Nothing
    /\ handling = Nothing
    /\ devices = {}
    /\ called = {}

-----------------------------------------------------------------------------
(* make_context_if_needed(), then the checks of the constructor's body.      *)
NeedsContext == hooks.version >= 3 /\ ~hooks.start

Rejected == hooks.hooksVersion < 1 \/ hooks.version < 1 \/ ~hooks.stop

(* When the body throws, thread_context and server are destroyed as they are *)
(* after stop(); the thread has not been started.                            *)
Construct ==
    /\ phase = "new"
    /\ NeedsContext => hooks.startOnThisThread
    /\ phase' = IF Rejected THEN "stopped" ELSE "constructed"
    /\ threaded' = NeedsContext
    /\ IF NeedsContext
       THEN eventLoop' = "live" /\ proxy' = "live" /\ source' = "added"
       ELSE UNCHANGED <<eventLoop, proxy, source>>
    /\ UNCHANGED <<testVars, server, loopThread, requests, waiting, handling, devices, called>>

(* make_context_if_needed() throws: start_on_this_thread() is missing, or    *)
(* the event loop or the proxy cannot be made.                               *)
ConstructThrows ==
    /\ phase = "new"
    /\ NeedsContext
    /\ phase' = "destroyed"
    /\ server' = "destroyed"
    /\ UNCHANGED <<testVars, threaded, loopThread, eventLoop, proxy, source, requests,
                   waiting, handling, devices, called>>

(* start(): our thread enters start_on_this_thread(), or the start() hook    *)
(* starts the compositor's own thread.                                       *)
Start ==
    /\ phase = "constructed"
    /\ phase' = "started"
    /\ loopThread' = "running"
    /\ UNCHANGED <<contextVars, requests, waiting, handling, devices, called>>

-----------------------------------------------------------------------------
(* A hook call of the test thread: through the proxy when there is one; the  *)
(* operations of a NullProxy are the hooks themselves.                       *)
NullProxy == ~threaded

(* Touch::down_at(), move_to() and up() call the hook in any case.           *)
Direct(op) == NullProxy \/ (op.hook = "use" /\ op.kind = "touch")

(* What a hook does once it runs on thread t.                                *)
Run(op, t) ==
    /\ called' = called \cup {[hook |-> op.hook, kind |-> op.kind, on |-> t]}
    /\ devices' = CASE op.hook = "create"  -> devices \cup {op.kind}
                    [] op.hook = "destroy" -> devices \ {op.kind}
                    [] OTHER -> devices
    /\ loopThread' = IF op.hook = "stop" THEN "stopping" ELSE loopThread

Invoke(op) ==
    /\ waiting = Nothing
    /\ IF Direct(op)
       THEN /\ Run(op, "test")
            /\ waiting' = IF op.hook = "stop" /\ hooks.stopBlocks THEN op ELSE Nothing
            /\ UNCHANGED requests
       ELSE /\ requests' = requests \cup {op}
            /\ waiting' = op
            /\ UNCHANGED <<called, devices, loopThread>>
    /\ UNCHANGED <<contextVars, handling>>

(* The test body; create_keyboard() throws and skips the test when the       *)
(* compositor cannot simulate a keyboard.                                    *)
CanCreate(k) == k = "keyboard" => hooks.version >= 4 /\ hooks.createKeyboard

(* Touch::Impl::Impl() and Keyboard::Impl::Impl() check the version of the   *)
(* device they were given; Pointer::Impl::Impl() does not.                   *)
Refused == IF hooks.deviceVersion THEN {} ELSE devices \ {"pointer"}

TestBody ==
    /\ phase = "started" /\ Refused = {}
    /\ UNCHANGED phase
    /\ \/ \E h \in {"create_client_socket", "position_window_absolute"} :
             Invoke(Hook(h, "none"))
       \/ \E k \in Kinds \ devices : CanCreate(k) /\ Invoke(Hook("create", k))
       \/ \E k \in devices : Invoke(Hook("use", k))
       \/ \E k \in devices \ members : Invoke(Hook("destroy", k))

(* A constructor throws: the device it was given is destroyed with the       *)
(* others as the body is left.                                               *)
DeviceThrows ==
    /\ phase = "started" /\ waiting = Nothing /\ Refused # {}
    /\ phase' = "ending"
    /\ UNCHANGED <<contextVars, loopThread, requests, waiting, handling, devices, called>>

(* The body ends, or throws: the devices it made go out of scope.            *)
EndBody ==
    /\ phase = "started"
    /\ waiting = Nothing /\ Refused = {}
    /\ phase' = "ending"
    /\ UNCHANGED <<contextVars, loopThread, requests, waiting, handling, devices, called>>

(* The locals of the body go first; the fixture's destructor, which runs     *)
(* after TearDown() and before the one of its base class, destroys its       *)
(* members.                                                                  *)
DestroyDevice ==
    /\ phase \in {"ending", "stopped"}
    /\ UNCHANGED phase
    /\ \E k \in devices : /\ k \in members => devices \subseteq members
                          /\ Invoke(Hook("destroy", k))

(* stop(): InProcessServer::TearDown(), called by gtest when the body has    *)
(* been left, or by ~StartedInProcessServer() after the fixture's members.   *)
(* Mutant: StartedInProcessServer does not override TearDown(). *)
StopInTearDown ==
    /\ phase = "ending"
    /\ devices \subseteq members
    /\ Invoke(Hook("stop", "none"))
    /\ phase' = "stopping"

Stop ==
    /\ phase = "ending"
    /\ devices \subseteq IF fixture = "StartedInProcessServer" THEN {} ELSE members
    /\ Invoke(Hook("stop", "none"))
    /\ phase' = "stopping"

StopReturned ==
    /\ phase = "stopping"
    /\ waiting = Nothing
    /\ phase' = "stopped"
    /\ UNCHANGED <<contextVars, loopThread, requests, waiting, handling, devices, called>>

-----------------------------------------------------------------------------
(* The compositor's main loop.  With a proxy, it dispatches the WLCS event   *)
(* loop: it runs the hook of a request, then answers.                        *)
RunRequest ==
    /\ threaded /\ loopThread = "running" /\ handling = Nothing
    /\ \E op \in requests :
          /\ requests' = requests \ {op}
          /\ handling' = op
          /\ Run(op, "loop")
    /\ UNCHANGED <<contextVars, phase, waiting>>

(* Mutant: hooks that return nothing are not answered. *)
AnswerUnlessVoid ==
    /\ handling # Nothing
    /\ handling.hook \in {"create", "create_client_socket"}
    /\ waiting' = Nothing
    /\ handling' = Nothing
    /\ UNCHANGED <<contextVars, phase, loopThread, requests, devices, called>>

(* stop() returns on the event loop unless it waits for the main loop,       *)
(* which cannot end before the hook has returned.                            *)
Answer ==
    /\ handling # Nothing
    /\ ~(handling.hook = "stop" /\ hooks.stopBlocks)
    /\ waiting' = Nothing
    /\ handling' = Nothing
    /\ UNCHANGED <<contextVars, phase, loopThread, requests, devices, called>>

(* The main loop ends once it is asked to and control is back in it.         *)
LoopEnds ==
    /\ loopThread = "stopping"
    /\ handling = Nothing
    /\ loopThread' = "ended"
    /\ waiting' = IF ~threaded THEN Nothing ELSE waiting
    /\ UNCHANGED <<contextVars, phase, requests, handling, devices, called>>

-----------------------------------------------------------------------------
(* ~Server::Impl, member by member: ~ThreadContext joins the thread, then    *)
(* destroys the proxy and the event loop; the WlcsDisplayServer goes last.   *)
(* Mutant: the thread is not joined. *)
JoinSkipped ==
    /\ phase = "stopped" /\ devices = {}
    /\ phase' = "joined"
    /\ UNCHANGED <<contextVars, loopThread, requests, waiting, handling, devices, called>>

Join ==
    /\ phase = "stopped" /\ devices = {}
    /\ threaded => loopThread \in {"none", "ended"}
    /\ phase' = "joined"
    /\ UNCHANGED <<contextVars, loopThread, requests, waiting, handling, devices, called>>

(* ~ThreadProxy sends packet 0, which asks the event loop to run             *)
(* wl_event_source_remove(), and closes the sockets.                         *)
DestroyProxy ==
    /\ phase = "joined"
    /\ threaded /\ proxy = "live"
    /\ proxy' = "destroyed"
    /\ source' = IF loopThread = "running" THEN "removed" ELSE source
    /\ requests' = {}
    /\ UNCHANGED <<testVars, server, phase, threaded, loopThread, eventLoop, waiting,
                   handling, devices, called>>

DestroyEventLoop ==
    /\ phase = "joined"
    /\ threaded /\ proxy = "destroyed" /\ eventLoop = "live"
    /\ eventLoop' = "destroyed"
    /\ UNCHANGED <<testVars, server, phase, threaded, loopThread, proxy, source, requests,
                   waiting, handling, devices, called>>

DestroyServer ==
    /\ phase = "joined"
    /\ threaded => eventLoop = "destroyed"
    /\ phase' = "destroyed"
    /\ server' = "destroyed"
    /\ UNCHANGED <<testVars, threaded, loopThread, eventLoop, proxy, source, requests,
                   waiting, handling, devices, called>>

(* The test is over.                                                         *)
Over == phase = "destroyed" /\ UNCHANGED lifecycleVars

Teardown == DeviceThrows \/ DestroyDevice \/ Stop \/ StopReturned \/ Join \/ DestroyProxy
            \/ DestroyEventLoop \/ DestroyServer
MainLoop == RunRequest \/ Answer \/ LoopEnds

LifecycleNext == Construct \/ ConstructThrows \/ Start \/ TestBody \/ EndBody \/ Teardown
                 \/ MainLoop \/ Over

(* Test bodies are finite, the fixture's steps follow one another and the    *)
(* main loop keeps running until it is stopped.                              *)
LifecycleSpec ==
    /\ LifecycleInit /\ [][LifecycleNext]_lifecycleVars
    /\ WF_lifecycleVars(Construct \/ ConstructThrows \/ Start \/ Teardown)
    /\ WF_lifecycleVars(MainLoop)
    /\ SF_lifecycleVars(EndBody)

-----------------------------------------------------------------------------
LifecycleTypeOK ==
    /\ hooks \in Integrations
    /\ members \subseteq Kinds
    /\ server \in {"created", "destroyed"}
    /\ phase \in {"new", "constructed", "started", "ending", "stopping", "stopped",
                  "joined", "destroyed"}
    /\ threaded \in BOOLEAN
    /\ loopThread \in {"none", "running", "stopping", "ended"}
    /\ {eventLoop, proxy} \subseteq {"none", "live", "destroyed"}
    /\ source \in {"none", "added", "removed"}
    /\ requests = {} \/ requests = {waiting}
    /\ devices \subseteq Kinds

(* Every hook of an integration that is driven through start_on_this_thread *)
(* is "dispatched from the wlcs_event_dispatcher loop"                       *)
(* (wlcs/display_server.h).                                                  *)
HooksOnEventLoop == threaded => \A c \in called : c.on = "loop"

(* The compositor's main loop "does not persist into later tests"           *)
(* (wlcs/display_server.h): it has ended before the WlcsDisplayServer goes.  *)
(* The event loop outlives both the thread that dispatches it and the proxy  *)
(* that has a source in it.                                                  *)
DestroyedInOrder ==
    /\ server = "destroyed" => loopThread \in {"none", "ended"}
    /\ eventLoop = "destroyed" => loopThread \in {"none", "ended"} /\ proxy = "destroyed"

(* A hook runs on an existing server that has been started, a device hook   *)
(* while that device exists, and none runs once stop() has been called.      *)
(* With an event loop all of them run on it, but for the down, move and up   *)
(* hooks of a touch; and no device of another version is used.               *)
HooksInLifetime ==
    [][called' # called =>
          /\ server = "created" /\ loopThread = "running"
          /\ \A c \in called' \ called :
                /\ c.hook \in {"use", "destroy"} => c.kind \in devices
                /\ c.hook = "use" => hooks.deviceVersion \/ c.kind = "pointer"
                /\ threaded => c.on = "loop" \/ (c.hook = "use" /\ c.kind = "touch")]_lifecycleVars

(* Every test ends, with its server destroyed.                               *)
TestEnds == <>(phase = "destroyed")

-----------------------------------------------------------------------------
(* Integrations that run on a thread of WLCS; their stop() only asks the    *)
(* main loop to end.                                                        *)
OnOurThread == { i \in Integration : /\ ~i.start /\ ~i.stopBlocks
                                     /\ i.hooksVersion = 1 /\ i.version >= 3 }

(* Integrations that start their own thread; their stop() waits for it.     *)
OnTheirThread == { i \in Integration : i.start /\ i.stopBlocks /\ i.hooksVersion <= 1 }

AllIntegrations == OnOurThread \cup OnTheirThread
=============================================================================
