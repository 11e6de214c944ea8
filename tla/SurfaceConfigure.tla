-------------------------- MODULE SurfaceConfigure --------------------------
(***************************************************************************)
(* How the library meets configure events: LayerSurfaceV1                  *)
(* (src/layer_shell_v1.cpp) and the surface that                           *)
(* create_xdg_shell_stable_surface() makes (src/in_process_server.cpp).    *)
(*                                                                         *)
(* A LayerSurfaceV1 acknowledges every configure, counts it and keeps its  *)
(* size; dispatch_until_configure() waits until the count has grown since  *)
(* the call.  The xdg surface has a mock that expects exactly one          *)
(* configure while the call waits for the first; one more in the same      *)
(* batch of events fails the test.  From then on every configure is        *)
(* acknowledged.                                                           *)
(*                                                                         *)
(* create_xdg_shell_v6_surface() and XdgStableSurfaceBuilder               *)
(* (src/surface_builder.cpp) attach the buffer at once; their mocks take   *)
(* configures without an acknowledgement.                                  *)
(*                                                                         *)
(* dispatch_until() looks at its condition after every batch of events.    *)
(* The compositor (external) answers a commit with a configure or not, and *)
(* may send configures nobody asked for.  A size stands for the last       *)
(* commit the compositor had handled when it chose it.                     *)
(***************************************************************************)
EXTENDS Naturals, Sequences

CONSTANTS Shells,                 \* of "layer", "xdg", "xdg_v6" and "builder"
          MaxCommits, MaxStrays   \* bounds

VARIABLES shell,            \* what the surface is made with
          caller,           \* the test: "idle", "committed", "waiting", "gone"
          commits, prev_config_count,
          last_size_, configure_count,        \* LayerSurfaceV1
          expectation, failed,                \* the mock of the xdg surface
          batch,                              \* events read and not dispatched
          requests, events,                   \* on the wire
          handled, serial, acked,             \* the compositor
          strays, crowded, unconfigured, inStep   \* history, see below

testVars == <<caller, commits, prev_config_count>>
surfaceVars == <<last_size_, configure_count, expectation, failed>>
compositorVars == <<handled, serial, acked, strays, crowded, unconfigured>>
vars == <<shell, testVars, surfaceVars, batch, requests, events, compositorVars, inStep>>

(* History: configures nobody asked for; was one sent before the first was *)
(* acknowledged; was a buffer committed before any was; has the test       *)
(* waited once after each of its commits?                                  *)
Init ==
    /\ shell \in Shells
    /\ caller = "idle" /\ commits = 0 /\ prev_config_count = 0
    /\ last_size_ = 0 /\ configure_count = 0
    /\ expectation = "once" /\ failed = FALSE
    /\ batch = <<>> /\ requests = <<>> /\ events = <<>>
    /\ handled = 0 /\ serial = 0 /\ acked = 0
    /\ strays = 0 /\ crowded = FALSE /\ unconfigured = FALSE /\ inStep = TRUE

-----------------------------------------------------------------------------
(* The compositor.                                                         *)

Configure(size) ==
    /\ serial' = serial + 1
    /\ events' = Append(events, [serial |-> serial + 1, size |-> size])
    /\ crowded' = (crowded \/ (serial > 0 /\ acked = 0))

(* Only the first commit of an xdg surface asks for a configure.           *)
HandleCommit(answer) ==
    /\ requests # <<>> /\ Head(requests).type = "commit"
    /\ LET n == Head(requests).number
       IN /\ handled' = n
          /\ unconfigured' = (unconfigured \/ (Head(requests).buffer /\ acked = 0))
          /\ IF answer /\ (shell = "layer" \/ n = 1)
             THEN Configure(n)
             ELSE UNCHANGED <<serial, events, crowded>>
    /\ requests' = Tail(requests)
    /\ UNCHANGED <<shell, testVars, surfaceVars, batch, acked, strays, inStep>>

HandleAck ==
    /\ requests # <<>> /\ Head(requests).type = "ack"
    /\ acked' = Head(requests).number
    /\ requests' = Tail(requests)
    /\ UNCHANGED <<shell, testVars, surfaceVars, batch, events, handled, serial, strays, crowded,
                   unconfigured, inStep>>

Stray ==
    /\ handled > 0 /\ strays < MaxStrays
    /\ strays' = strays + 1
    /\ Configure(handled)
    /\ UNCHANGED <<shell, testVars, surfaceVars, batch, requests, handled, acked, unconfigured,
                   inStep>>

-----------------------------------------------------------------------------
(* The client.                                                             *)

Request(type, number, buffer) == [type |-> type, number |-> number, buffer |-> buffer]

(* The first commit of a surface has no buffer where the protocol is kept. *)
Send(type, number) ==
    requests' = Append(requests, Request(type, number, type = "commit" /\ number > 1))

(* The configure handler of LayerSurfaceV1.                                *)
LayerConfigure(e) ==
    /\ last_size_' = e.size
    /\ configure_count' = configure_count + 1
    /\ Send("ack", e.serial)
    /\ UNCHANGED <<expectation, failed>>

(* The mock of XdgSurfaceStable: WillOnce() acknowledges; a call more is a *)
(* failure and acknowledges nothing; ON_CALL() acknowledges.               *)
XdgConfigure(e) ==
    /\ expectation' = IF expectation = "once" THEN "met" ELSE expectation
    /\ failed' = (failed \/ expectation = "met")
    /\ IF expectation = "met" THEN UNCHANGED requests ELSE Send("ack", e.serial)
    /\ UNCHANGED <<last_size_, configure_count>>

Dispatch ==
    /\ batch # <<>>
    /\ batch' = Tail(batch)
    /\ CASE shell = "layer" -> LayerConfigure(Head(batch))
         [] shell = "xdg" -> XdgConfigure(Head(batch))
         [] OTHER -> UNCHANGED <<surfaceVars, requests>>
    /\ UNCHANGED <<shell, testVars, events, compositorVars, inStep>>

(* Mutant: the wait ends with any configure there ever was.                *)
ConditionStale == IF shell = "layer" THEN configure_count > 0 ELSE expectation = "met"

(* What dispatch_until() waits for.                                        *)
Condition == IF shell = "layer" THEN configure_count > prev_config_count ELSE expectation = "met"

(* Events are read by a wait whose condition does not hold yet, or by      *)
(* another call that dispatches.                                           *)
Read ==
    /\ batch = <<>> /\ events # <<>> /\ caller # "gone"
    /\ caller = "waiting" => ~Condition
    /\ batch' = events
    /\ events' = <<>>
    /\ inStep' = (inStep /\ caller # "committed")
    /\ UNCHANGED <<shell, testVars, surfaceVars, requests, compositorVars>>

-----------------------------------------------------------------------------
(* The test.                                                               *)

(* wl_surface_commit(); create_xdg_shell_stable_surface() waits at once.   *)
Commit ==
    /\ batch = <<>> /\ commits < MaxCommits
    /\ \/ shell = "layer" /\ caller \in {"idle", "committed"} /\ caller' = "committed"
       \/ shell = "xdg" /\ commits = 0 /\ caller' = "waiting"
    /\ commits' = commits + 1
    /\ Send("commit", commits + 1)
    /\ inStep' = (inStep /\ caller = "idle")
    /\ UNCHANGED <<shell, prev_config_count, surfaceVars, batch, events, compositorVars>>

(* A commit, and at once another with the buffer.                          *)
create_xdg_shell_v6_surface ==
    /\ shell = "xdg_v6" /\ commits = 0
    /\ commits' = 2
    /\ requests' = <<Request("commit", 1, FALSE), Request("commit", 2, TRUE)>>
    /\ UNCHANGED <<shell, caller, prev_config_count, surfaceVars, batch, events, compositorVars,
                   inStep>>

(* The only commit has the buffer.                                         *)
XdgStableSurfaceBuilder_build ==
    /\ shell = "builder" /\ commits = 0
    /\ commits' = 1
    /\ requests' = <<Request("commit", 1, TRUE)>>
    /\ UNCHANGED <<shell, caller, prev_config_count, surfaceVars, batch, events, compositorVars,
                   inStep>>

dispatch_until_configure ==
    /\ shell = "layer" /\ batch = <<>> /\ caller \in {"idle", "committed"}
    /\ caller' = "waiting"
    /\ prev_config_count' = configure_count
    /\ inStep' = (inStep /\ caller = "committed")
    /\ UNCHANGED <<shell, commits, surfaceVars, batch, requests, events, compositorVars>>

(* The wait of LayerSurfaceV1 returns.                                     *)
Configured ==
    /\ shell = "layer" /\ caller = "waiting" /\ batch = <<>> /\ Condition
    /\ caller' = "idle"
    /\ UNCHANGED <<shell, commits, prev_config_count, surfaceVars, batch, requests, events,
                   compositorVars, inStep>>

(* The wait for the initial configure returns; the mock's expectations are *)
(* cleared and the buffer is committed.                                    *)
InitiallyConfigured ==
    /\ shell = "xdg" /\ caller = "waiting" /\ batch = <<>> /\ Condition
    /\ caller' = "idle"
    /\ expectation' = "default"
    /\ commits' = commits + 1
    /\ Send("commit", commits + 1)
    /\ UNCHANGED <<shell, prev_config_count, last_size_, configure_count, failed, batch, events,
                   compositorVars, inStep>>

(* The wait throws Timeout, which destroys the surface.                    *)
TimedOut ==
    /\ caller = "waiting" /\ batch = <<>> /\ ~Condition
    /\ caller' = "gone"
    /\ UNCHANGED <<shell, commits, prev_config_count, surfaceVars, batch, requests, events,
                   compositorVars, inStep>>

Next ==
    \/ \E answer \in BOOLEAN : HandleCommit(answer)
    \/ HandleAck \/ Stray
    \/ Dispatch \/ Read
    \/ Commit \/ dispatch_until_configure
    \/ create_xdg_shell_v6_surface \/ XdgStableSurfaceBuilder_build
    \/ Configured \/ InitiallyConfigured \/ TimedOut

Spec == Init /\ [][Next]_vars

-----------------------------------------------------------------------------
(* Type invariant; acknowledgements are of configures that were sent.      *)
TypeOK ==
    /\ shell \in Shells /\ caller \in {"idle", "committed", "waiting", "gone"}
    /\ expectation \in {"once", "met", "default"}
    /\ commits \in 0 .. MaxCommits + 1 /\ strays \in 0 .. MaxStrays
    /\ handled \in 0 .. commits /\ acked \in 0 .. serial
    /\ \A k \in DOMAIN requests :
           requests[k].number \in 1 .. (IF requests[k].type = "ack" THEN serial ELSE commits)

(* While the test waits once after each commit and the compositor sends no *)
(* configure of its own, last_size() after dispatch_until_configure() is   *)
(* the size the compositor chose for the latest commit.                    *)
AnswerIsOwn ==
    shell = "layer" /\ inStep /\ strays = 0 /\ caller = "idle" => last_size_ = commits

(* A buffer of the surfaces that wait for a configure reaches the          *)
(* compositor only after an acknowledgement, whatever configures come; the *)
(* mock fails the test only if the compositor sent a second configure      *)
(* before it had the acknowledgement of the first.                         *)
AckBeforeBuffer ==
    /\ inStep /\ shell \in {"layer", "xdg"} => ~unconfigured
    /\ failed => crowded

(* "Protocol *requires* us to ack the initial configure before attaching a *)
(* buffer", src/in_process_server.cpp:914, of every xdg surface.           *)
AckRequired == shell # "layer" => ~unconfigured
=============================================================================
