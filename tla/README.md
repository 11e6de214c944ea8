# A TLA+ model of WLCS

WLCS is a conformance test suite for Wayland compositors.  A test binary loads
a compositor's integration module, runs the compositor in the test process,
connects Wayland clients to it over socket pairs, and injects pointer, touch
and keyboard input through hooks that the module provides.

This directory models the *test infrastructure*: the code that has to be right
for a test's verdict to mean anything.  The compositor under test, libwayland
and Mir are external; they are modelled from how the code under `src/` uses
them.  File names below are relative to the repository: `thread_proxy.h`,
`in_process_server.cpp` and the like are in `src/`, `mir_integration.cpp` in
`example/`.

## Parts and modules

| Part | Source | Module | Proofs |
| --- | --- | --- | --- |
| Calls into the compositor's thread | `thread_proxy.h` | `RemoteCall` (what it promises), `ThreadProxy` | `ThreadProxyProofs` |
| Server, its thread, devices, fixtures | `in_process_server.cpp` (`Server::Impl`, `ThreadContext`, `Pointer`, `Touch`, `Keyboard`) | `ServerLifecycle` | `SessionProofs` |
| Reading and dispatching events | `in_process_server.cpp` (`dispatch_until`, `server_roundtrip`, `client_flush`) | `EventReading` | `SessionProofs` |
| Versions and globals | `version_specifier.cpp`, `in_process_server.cpp` (`global_handler`, `global_removed`, `bind_if_supported`, `the_shell`) | `Versions`, `Registry` | `SessionProofs` |
| Seat objects | `in_process_server.cpp` (`seat_capabilities`) | `SeatObjects` | `ClientInputProofs` |
| Pointer, touch and keyboard events | `in_process_server.cpp` (the listeners) | `PointerInput`, `TouchInput`, `KeyboardInput` | `ClientInputProofs` |
| Surfaces, frame callbacks, the end of a client | `in_process_server.cpp` (`Surface::Impl`, `Subsurface`, `create_*_surface`, `Client::Impl::~Impl`) | `SurfaceLifetime` | `SurfaceObjectsProofs` |
| The outputs a surface is on | `in_process_server.cpp` (`on_enter`, `on_leave`) | `SurfaceOutputs` | `ObserverObjectsProofs` |
| Configures and their acknowledgement | `layer_shell_v1.cpp`, `in_process_server.cpp` (`create_xdg_shell_*_surface`), `surface_builder.cpp` | `SurfaceConfigure` | `SurfaceObjectsProofs` |
| Surface builders | `surface_builder.cpp` | `SurfaceBuilders` | `HelperObjectsProofs` |
| Geometry | `include/geometry/*.h` | `Geometry`, `Dimensions` | `HelperObjectsProofs` |
| Buffers, their files and release notifiers | `in_process_server.cpp` (`ShmBuffer::Impl`), `helpers.cpp` (`create_anonymous_file`) | `ShmBuffers` | `HelperObjectsProofs` |
| Outputs | `in_process_server.cpp` (`Output`), `xdg_output_v1.cpp` | `Outputs` | `ObserverObjectsProofs` |
| Selection listeners and owners | `data_device.cpp`, `primary_selection.cpp`, `gtk_primary_selection.cpp`, `active_listeners.h` | `Selections` | `HelperObjectsProofs` |
| Objects that own a proxy | `wl_handle.h`, `method_event_impl.h`, `xdg_shell_*.cpp`, the unstable extensions, `linux_dmabuf_v1.cpp`, the text input and input method mocks | `ProtocolObjects` | `ObserverObjectsProofs` |
| Input methods | `input_method.cpp` | `InputMethods` | `ClientInputProofs` |
| Test runner | `xfail_supporting_test_listener.cpp` | `TestListener` | `TestProgramProofs` |
| Program start and the integration module | `main.cpp`, `shared_library.cpp`, `helpers.cpp` | `Startup` | `TestProgramProofs` |
| Example integration: executor | `mir_integration.cpp` (`WaylandExecutor`) | `MirExecutor` | `MirIntegrationProofs` |
| Example integration: clients and windows | `mir_integration.cpp` (`ResourceMapper`) | `MirResources` | `MirIntegrationProofs` |
| Example integration: input | `mir_integration.cpp` (`emit_mir_event`, `FakePointer`, `FakeTouch`, device creation) | `MirInput`, `MirDevices` | `MirIntegrationProofs` |

How they meet: a test (on the test thread) calls `Server` and its devices;
`Server` calls the integration's hooks, through a `ThreadProxy` when the
compositor runs on the thread WLCS made for it.  `ServerLifecycle` uses what
`RemoteCall` promises, a synchronous call, and `ThreadProxy` is shown to
implement `RemoteCall`.  A test's `Client` talks to the compositor over a
connection of its own: `EventReading` is the loop that reads it, and the
listener modules are the handlers that loop dispatches.  `Startup` is `main()`,
which opens the integration module; `TestListener` turns what happened into
names and the exit status that `main()` returns.  The example integration is the
other end of the hooks.

`PROJECT.json` maps every definition to the lines it stands for, lists the
hazards each property is aimed at, and for every checked property a mutation of
the model that breaks it.

## The modules

**`ThreadProxy`.**  One action per step at which threads can interleave.  A
thread registers an operation in two steps (`RegisterOp` computes the opcode,
`Emplace` grows `handlers`); it invokes a functor by `Invoke`, `Lock`, `Send` and
`Recv`, where the system calls may fail as `Faults` allows (`SendFails`,
`RecvFails`) or return too little (`RecvShort`).  The event loop's callback is
`SocketReadable`, `CallHandler`, `SendReply`.  `handlers` growing while the loop uses one of its elements is a
data race: `Crash` is among its outcomes.  `RemoteCall` knows only stages of
invocations and what has run; `ThreadProxy!Abstract` is the refinement mapping.

**`ServerLifecycle`.**  A test from `Construct` to `DestroyServer` against an
integration chosen in `Init`: with or without `start()`, any versions, any
missing hooks, touches and keyboards of a version that makes the device's
constructor throw.  The fixture is chosen too: `InProcessServer`, which stops the
server in `TearDown()`, before the fixture's members go, and
`StartedInProcessServer`, which stops it in its destructor, after them; `members`
are the devices that belong to the fixture.  `ConstructThrows` is a constructor of
`Server::Impl` that throws, in its initialisers or in its body.  A hook call of
the test thread is `Invoke`; through the proxy the loop answers it with
`RunRequest` and `Answer`.  Destructors are one action per member, in the order of
declaration.

**`EventReading`.**  `dispatch_until()` line by line around libwayland's
prepare/read/cancel protocol, `server_roundtrip()` and `client_flush()`; time, signals in
`poll()`, and a connection that breaks.  A dispatch that meets the broken
connection fails (`DispatchFails`) and `error` makes every later one fail, as
`wl_display` does.  Ticks are finer than milliseconds, so
the rounding of the timeout of `poll()` matters.

**`Versions`, `Registry`.**  The three version specifiers as one operator,
`SelectVersion`, and its reference definition; the client's tables of globals
against a compositor that adds and withdraws them, several of one interface too;
the three outcomes of binding, one of which skips the test.

**`PointerInput`, `TouchInput`, `KeyboardInput`, `SeatObjects`.**  One action
per handler.  The compositor's side keeps the true focus and sends events in
frames over an ordered connection, while the test may destroy surfaces whose
events are already on the way.  A frame may move the focus several times, or
begin, move and end one touch: `batch` is what the open frame has, and `crossed`
counts the events that follow one of another kind in it.  A second capabilities
event makes the client ask for a second object (`GetPointer`, `GetTouch`,
`GetKeyboard`); from then on the one listener is called for both, event by event
or frame by frame (`doubled`, `later`).

**`SurfaceLifetime`.**  The three parts of a frame callback (proxy, function
object, entry of `pending_callbacks`) are separate sets, so freeing one of them
twice or not at all is visible.  A callback may destroy surfaces, its own
included, and dispatch: `running` is the stack of nested callbacks.
`DestroyClient` is the client's destructor, after which nothing made with the
client may be left; `kept` is what its `destruction_callbacks` hold, a buffer or
the parent surface of a subsurface builder.

**`SurfaceOutputs`.**  Enter and leave of a surface while surfaces are destroyed
and made again; the listener throws on a change it does not expect.

**`SurfaceConfigure`.**  The four ways the library meets a configure, chosen in
`Init`: `LayerSurfaceV1` counts, `create_xdg_shell_stable_surface()` waits for
one with a mock, `create_xdg_shell_v6_surface()` and the stable builder do not
wait.  The compositor may answer, not answer, or send configures of its own.

**`SurfaceBuilders`, `Geometry`, `Dimensions`.**  Where each builder's buffer
ends up, through the operators of the geometry headers.  `Geometry` has
`contains`, `overlaps` and `intersection_of` as operators with the sets of
points as their reference.  `Dimensions` applies the operators that
`dimensions.h` declares, in any order, in two frames of reference at once: a
value that is not a coordinate must be the same in both.

**`ShmBuffers`.**  The system calls of `create_anonymous_file()` and of the
constructor, each of which may fail with each error the code tells apart, as
counts of descriptors, names and mappings left; release notifiers and how
`on_release()` erases those that returned false: by positions remembered before
the first `erase()`.  Any number of them may return false on one release, which
`together` records.

**`Outputs`.**  Values are numbers of changes, so that half of a change can be
told from a whole one.  Both versions of `xdg_output` and their different done
events.

**`Selections`.**  Listeners at addresses that are used again by listeners of
other classes; a thunk looks its address up in the set of its own class.  The
owners of sources and devices destroy their proxy; the fd of a `send` is open
until a listener closes it.

**`ProtocolObjects`.**  One record per class: its events, those whose serial it
keeps, whether its destructor destroys the proxy, whether it can be moved.  One
set of actions for all of them: construction, move, use, destruction, an event
on its way, and `method_event_impl`, which calls whatever is at the address.  A
handle may be moved from twice (`revived`).

**`InputMethods`.**  `down_at`, `move_to` and `up` of either device as the hooks
they become, with the calls the assertions refuse, on a screen of one dimension;
coordinates are converted to and from 24.8 fixed point.

**`Startup`.**  Who keeps the module loaded: `main()`'s two pointers, the copy of
`set_entry_point()`, the server and its device; the command line without the
module's name.

**`TestListener`.**  GoogleTest's events (external) and what the listener
records of them, through several iterations.

**`MirExecutor`.**  `spawn()` in two steps (queue under the mutex, notify
after), the loop that drains, work that spawns work, destruction.  The mutex is
recursive (`Lockable`), and work runs with it held.

**`MirResources`, `MirInput`, `MirDevices`.**  `MirResources` goes from the start
of the server to a window that a test moves.  What the integration waits for
and what it takes the answer for: the next client seen for the socket just
opened, the event of a given time for the one just emitted, the batch of
changes for the device just added.  `MirInput` remembers whether a movement was
called when Mir had told everything (`settled`); `MirDevices` has two mice, which
share a uid, and `mistakable` has those made while another is there.

## Composition

A component with a run of its own is checked by itself: `ThreadProxy` and
`Registry` through an MC module, which gives them sets that a configuration
cannot write, `ServerLifecycle` and `EventReading` directly.  The others are
instantiated together, by modules that the runs and the proofs share:

* `ClientInput`: the pointer, touch, keyboard and capabilities handlers, and the
  input methods;
* `MCClientObjects`, which conjoins `SurfaceObjects` (surfaces, their callbacks and
  configures), `ObserverObjects` (outputs, the outputs of a surface, owners of
  proxies: what keeps something it was told) and `HelperObjects` (selections,
  buffers, builders and geometry); `ObjectKinds` names the kinds;
* `MirIntegration`: the executor, clients and windows, input events, devices;
* `TestProgram`: `TestListener` with `Startup`.  Tests run when the module is
  loaded, a test's server goes before the test ends, and `main()` returns what the
  listener says.  `MCTestProgram` adds the command lines.

In the first three a variable chosen in `Init` says which component moves.
That loses nothing: the components of one composition write members that the
others neither read nor write, and a handler runs to its end on one thread, so
steps of two of them commute and a state of one of them is reachable in an
interleaving only if it is reachable alone.

## Runs

| Run | What it shows |
| --- | --- |
| `proxy_two_threads` | Two threads share the proxy, one of them registers another operation, `send()` may fail: there is one request in flight, and what happens is a behaviour of `RemoteCall`: a handler runs once, while its caller waits, and the reply is that of the caller's own request. |
| `proxy_interrupted` | What is left when `recv()` fails as well: the mutex is free again and every invocation ends. |
| `lifecycle_all` | Every supported shape of integration, both fixture classes, three kinds of device, as locals or members: hooks run in the lifetime of what they use and, with an event loop, on it (but for the touch's own); no hook of a device of a wrong version is used; the loop ends before the server goes and the event loop outlives its users; every test ends. |
| `lifecycle_touch_direct` | Violation: the down, move and up hooks of a touch run on the test thread although there is an event loop. |
| `reading_any_time` | Up to three calls in a row, on a connection that may break: `Timeout` is neither early nor thrown for an event that came in time; in a system where time passes only in `poll()`, every way out leaves the display ready for the next call and every call ends. |
| `reading_late` | Violation: a `Timeout` thrown by the check before `poll()` leaves the read announced, and the next `roundtrip()` never ends. |
| `registry_declared` | Globals come and go while a test binds, several of an interface at a time: versions fit, a skip is always a declared one, the table has nothing that was withdrawn, and an entry for every interface that has had one global at a time. |
| `client_input` | What can make a handler fail the test: a second object, a frame that moves the pointer on after an enter or has several kinds of events for a touch point, and nothing else; but for such frames the handlers end up where the seat is, second objects or not, and `window_under_cursor()` stops naming a surface that was destroyed; notifications and queries agree; events go to the object the client holds; a test gets the same answers from either input method. |
| `client_objects` | Nothing is freed twice or called when it is gone; roles go before surfaces and nothing outlives the client; what the client knows of outputs and serials is whole and arrives; thunks call live listeners of their own class; notifiers are kept until they have finished and failing system calls leave no file; a wait for a configure ends with its own answer; proxies are destroyed once, by their owner; built surfaces are where the test asked; geometry is about sets of points and does not depend on the origin. |
| `configure_builder` | Violation: a surface of `XdgStableSurfaceBuilder` gets its buffer before any configure is acknowledged. |
| `listener_repeat` | The printed names and the exit status are right, over iterations and whatever mixture of failures and recorded properties; every hook is called with its module loaded, which is closed in the end however `main()` returns; a compositor gets its arguments in order. |
| `mir_integration` | No wake-up is lost, work runs once and in order, and all of it runs; each answer the example integration waits for is taken for what it answers, with two mice of one uid, an event that is dispatched after its wait timed out is not taken for a later one, the window that moves is the one the test named, and input lands where the test asked. |

Properties of several modules that say the same kind of thing are one property
of the composition: `StateArrives`, `EndsInOrder`, `BuffersExact`, `FollowsSeat` and
others name their conjuncts.  Type invariants are not part of the runs; they are
proved.

### Bounds

Two threads, surfaces, touch points or tests are what the properties can tell
apart: the ones about confusion need two parties, and one more call than parties
(`MaxCalls`, `MaxWork`, `MaxEvents`, `MaxClients`), so that something is reused.
Three callback addresses allow a callback nested in a callback while a third is
pending.  Wires of 2 let a leave and the enter after it be in flight together with
a destroy request the other way (what is sent for two objects at once is sent
whole); one surface of the pointer's two is destroyed (`Destroyable`), and with
`MaxCrossed = 1` a seat sends, after one change too many in a frame, nothing more
than the end of that frame.  `Timeouts = {0, 1, 3}` with two
ticks to a millisecond has a timeout of zero, one that rounds up and one that
spans several waits.  `MaxVersion = 3` has a version below, at and above each of
the others.  `MaxTimeouts` and `MaxFaults` bound failures, not what follows them.
Three commits and two configures nobody asked for let an old answer meet a new
wait twice.  Two addresses and two proxies are enough for an address to be used
again while events of its first owner are on their way.  Rectangles have corners
from -1 to 1 and sides from 0 to 2: disjoint, touching, overlapping, nested and
empty ones; what holds for the others is proved.  The builders and sizes are the
ones the tests use, with one buffer smaller than the builder's offsets.

What the code is not written for happens in the runs.  A history variable
records that it has, and the properties say what still holds then: `crowded` (an
interface with several globals at a time), `together` (two release notifiers that
finish on one release), `doubled` (a second object of a capability), `crossed` (a
frame as above), `revived` (a handle moved twice), `mistakable` (two mice),
`last.settled` (a movement called while Mir has still to tell of an earlier one),
`timeouts` (waits that timed out).  The section on disagreements says what the
code does in each of these cases.  `registry_declared` is of an integration that
declares its extensions; the other case is proved (`SkipCorrect`).

Deadlock is checked where the system never stops: in the proxy and the lifecycle
runs, the latter with an explicit step when the test is over.  In the others a
behaviour ends when a bound is reached.

Symmetry is used in runs without liveness only.

### Fairness

* `ThreadProxy`: a thread inside an invocation and the event loop take their
  next step if they can.  The mutex needs no strong fairness: `MaxCalls` bounds
  how often another thread can take it.
* `ServerLifecycle`: the fixture's steps follow one another and the main loop
  keeps dispatching until it is stopped, as its documentation asks; a test body
  is finite (strong fairness of `EndBody`, which hook calls interrupt).
* `EventReading`: the client runs, time passes, and the compositor answers
  `sync`.  That it sends the awaited event is *not* assumed.
* `PointerInput` (for `DanglingEnds`): the client dispatches, the compositor
  ends its frames and handles every destroy request in the end.
* `MirExecutor`: a spawning thread goes on to notify, and the event loop wakes
  when its fd is readable.  `MirDevices`: the create function goes on and the
  hub serves both of its queues.

### Assumptions about external code

libwayland: events arrive in order; an event for a destroyed proxy is dropped,
and a destroyed surface named by an event comes as null; a second listener of a
proxy is refused; a read with other readers announced waits for them.
Mir: the seat observer is told of the cursor before it is told of the event that
moved it, both in order and on the Wayland thread; the device hub tells a new
observer of the devices that exist, tells observers of new ones, ends both with
`changes_complete()`, and serves observers and devices from two queues.  The
repository does not contain Mir; these are what `mir_integration.cpp` relies on.

## Proofs

TLAPS checks the following for every value of the constants, so for any number
of threads, calls, globals, surfaces, objects, tests or work items, and for any
bounds.  Every safety property that a passing run checks is a theorem.  The
assumptions are the `ASSUME`s of the modules, which TLC evaluates in the runs
(that numbers are numbers, that a special value is not a member of a set, that
an output has finitely many properties), and the hypotheses named here.

The properties are rarely inductive: they speak of what a test can see, and
what keeps them true is where things are on their way.  Each module below
first has the inductive invariant, then a lemma for each action that can
disturb it, then the theorem.

**`ThreadProxyProofs`.**  `TypeCorrect` and `SerialiserCorrect` hold whatever
fails and whoever registers: `TypeInv` adds to the types that the mutex is held
by at most one thread, exactly by the one in its exchange, and that opcodes held
by threads are indices of `handlers`.  `ExchangeCorrect` (one request in flight,
replies to their own request, one run for one return) and `RunsOnlyDuringCall`
need two hypotheses, both of which the disagreements below show to be necessary:
no `recv()` is interrupted, and one thread registers operations.  Their
invariant `IInv` says where the request of a waiting thread is: in the socket
and not yet run (`Sent`), in the loop (`Handled`), or answered and run once
(`Answered`); that nobody waits means that both sockets are empty and the loop
polls.  That an argument identifies an invocation (`FreshInv`) and that an
opcode leads to its callable (`FunctorInv`) make it inductive.
`ImplementsRemoteCall` is the refinement, from the same invariant.
`SingleThreadStable`: with a single thread `handlers` never grows under the
loop, which is how WLCS uses the class.

**`SessionProofs`.**  The server, the reading loop and the globals.

* `ServersDestroyedInOrder` and `HooksCalledInLifetime`: `LifeInv` says, phase by
  phase of either fixture, how far the main loop is, which devices are left and
  where the one call is that the test thread waits for.  The first needs `StopContract`, which
  `wlcs/display_server.h` asks of the `stop` hook: it blocks when the integration
  has a thread of its own.
* `TimeoutsAreReal` and `NoReadLeftAnnounced`: `Unmet` (none of the events
  dispatched was awaited, and `poll()` ends after the deadline) and `Balanced`
  with `LateCall` (in a prompt system a call past its deadline is in `poll()` or
  returns because of the awaited event).
* `SelectsNewestCandidate`: each version specifier returns the newest version that
  the test accepts, the compositor offers and WLCS knows.  `TypeCorrect`,
  `BoundVersionCorrect` and `SkipCorrect` follow from an invariant that says that
  events and tables speak of globals the compositor announced.
* `GlobalsCorrect` needs the order of the events on their way: `NameInv` says
  which globals the client has a name for, `SingleInv` that every entry is of one
  of these and, of an interface that is not `crowded`, that between two
  announcements there is a removal.

**`ClientInputProofs`.**  The listeners of the seat.  A client lags behind the
seat, and the invariant says by what: `Path(Steps, wire, a, z)` holds when the
events on the wire lead from the state `a` of the seat to its state `z` now, by
steps that are what each event says; the client has caught up with `a`
(`PointerLag`, `ButtonLag`, `PointLag`, `KeyboardLag`).  A step of the compositor
makes the path longer at its end, a handler takes its first step, and when the
wire is empty `a` is `z`.  The lag says what the pending members mean: where the
client will be when the open frame ends.  For pointer and touch this is claimed
while `PointerPlain` and `TouchPlain` hold: one object, and no frame that crosses.
From it follow `ClientFollowsSeat` and `HandlersNeverFail`, since a handler fails
the test only on an event that is no step from `a`.  Of the keyboard it holds for
two objects as well, in whatever order their events come (`Moving`).
`WatchersAgree` (`PointerWatch`) is inductive with the types and holds in any
case.  `MembersReceive`: the
last event on its way is what the seat has, and when none is, the objects the
client holds are asked for or receive.  `MethodsInterchange`: the hooks still to
be called are a tail of those of the current call, and between two calls the
server is where the device is.

**`SurfaceObjectsProofs`.**  `CallbacksCorrect`: a callback object is entered for
one living surface or runs, not both (`CallbackInv`), though a running callback
destroys surfaces and dispatches.  `EndsCorrect`: among the requests on their way
no surface is destroyed before its role (`InOrder`), and when the client has gone
nothing is left.  `ConfiguresCorrect`: `AckInv` puts an acknowledgement before
every buffer, `OwnInv` says in which of five places the answer to the caller's
own commit is, `XdgInv` what is special to the mock's single wait.

**`ObserverObjectsProofs`.**  `StatesCorrect` is the theorem of `StateArrives`, by
paths again, one for each thing that is kept: `<<current, pending>>` of an output,
the outputs of a surface, the serial of a mock.  The nodes of a path are
the states the listener may have on the way, so that it also says that what a
test reads in between is a state of the compositor and not half of one.  The
events of an output and of its xdg_output may come in either order
(`PathEither`).  For an xdg_output there are two cases: the compositor has taken
the request for it (`Told`) and the path leads to its state, or the request is
the last on its way and no event is for the object (`Untold`).  `OwnersCorrect`:
which object is at an address when an event for a proxy is dispatched, as long as
no handle that was moved from is moved again.

**`HelperObjectsProofs`.**  `BuffersCorrect`, `BuildersCorrect`,
`RectanglesCorrect`, `DimensionsCorrect` and `SelectionsCorrect`.  `BuffersCorrect`
follows the erasing of any number of notifiers, position by position (`Leaves`):
what stays was added, once; until two finish together it is those that have not
finished.  Rectangles are reduced to inequalities between sides, for all integers.
`DimensionInv` says that the two frames of reference differ by the shift of the value's sort.
`SelectionInv` relates the sets of active listeners to what is at each address.

**`TestProgramProofs`.**  `TypeCorrect`, `NamesCorrect` and `ExitCorrect` of the
listener: the invariant adds where GoogleTest is, that nothing is recorded of
iterations to come, and what `failed_` means between iterations.  `ProgramListens`:
the whole program implements the listener, so they hold of it.  `ModuleCorrect`:
`Kept` says who holds the module at each step of `main()`.

**`MirIntegrationProofs`.**  `TypeCorrect`, `WakeupCorrect` and `OrderCorrect` are
inductive together.  `DevicesCorrect`: the hub has every device an observer was
told of, and an observer takes another device for its own only if that one is
`mistakable`.  `WindowsCorrect`: one client is being connected at a time, and no two
resources are one object.  `SuccessCorrect`: two events of one time are never both
in use, because the clock advances when a wait ends without its signal.
`LandingCorrect`: the last place Mir has still to tell is where the cursor is, and
is told before the event that moved it (`CursorInv`), so a movement called when
there is nothing to tell goes out with the distance from where the cursor really
is (`OnItsWay`, `Landed`); while no wait has timed out every movement is such a
one (`AwaitedInv`).  A release is at the place of the last touch event before it
(`Follows`).  Both hold after timeouts.

Only model-checked: liveness (`CallsEnd` of the proxy and of the reading loop,
`TestEnds`, `DanglingEnds`, `WorkRuns`, `CreationEnds`), which needs `ENABLED`, out
of the prover's reach.  The three runs that expect a violation are
counterexamples and prove nothing.

## Disagreements

Three runs expect a violation, `lifecycle_touch_direct`, `reading_late` and
`configure_builder`; the findings in `PROJECT.json` quote the lines that disagree.  Modelling met others.
Where a constant or a history variable is named, changing the one, or leaving the
other out of the property, shows them.

* `thread_proxy.h:284`: a functor whose `recv()` fails throws and leaves its
  reply in the socket; the next functor takes it for its own.  The comment at
  269 wants one request at a time.  Add `"recv"` to `Faults` in
  `proxy_two_threads`: `IsSynchronousCall` and `OneRequestInFlight` are violated.
* `thread_proxy.h:366`: `register_op()` grows `handlers` unlocked while the loop
  may be in one of its elements.  Check `HandlersStable` in `proxy_two_threads`.
* `thread_proxy.h:430`: by the time `~ThreadProxy` asks the loop to remove its
  source, the loop has ended; `source` stays `"added"` in `ServerLifecycle`.
* `in_process_server.cpp:642`: `stop()` is dispatched on the loop that
  `wlcs/display_server.h` asks it to wait for.  With `stopBlocks` and without
  `start`, `TestEnds` is violated.
* `in_process_server.cpp:1118`: an extension that is advertised but not declared
  is bound; the declared list is consulted only when the global is missing.
* `in_process_server.cpp:1770`: `globals` has one entry per interface; the
  removal of one of two outputs can erase the entry of the other (`crowded` in
  `GlobalsAreCurrent`).
* `in_process_server.cpp:1674`: each capabilities event makes the objects of the
  seat again without destroying the old ones, which go on receiving events: the
  one listener sees an enter or a down twice and fails the test (`doubled` in
  `NoSpuriousFailure`).
* `in_process_server.cpp:1413`: a leave in the frame of its enter fails the test
  (`crossed` of `PointerInput`).
* `in_process_server.cpp:1586` and 1642: down, motion and up of one touch point
  in one frame fail the test or leave the touch (`crossed` of `TouchInput`).
* `in_process_server.cpp:1343`: the leave of a destroyed surface comes with a
  null surface and does not clear `keyboard_focused_surface`.
* `in_process_server.cpp:1903`: the index one past the last output passes.
* `in_process_server.cpp:2357`: when two notifiers finish on one release
  (`together` in `NotifiersExact`), the second `erase()` hits the element after the
  one that was meant.
* `primary_selection.cpp:82` and the gtk version: the fd of a `send` that finds
  no listener is not closed.
* `mir_integration.cpp:204`: after a wait that timed out, the late client is
  taken for the one of the next socket (`MovesOwnWindow` says so of
  `timeouts = 0`).
* `mir_integration.cpp:685`: a mouse is recognised by its uid, which is the same
  for all mice; while one exists the next is returned before the hub has it
  (`mistakable` in `CreatedIsPresent`).
* `mir_integration.cpp:545`: `wlcs_server_start()` ignores whether `started` was
  raised; a client accepted before `init()` has run is one the mapper never
  hears of.
* `in_process_server.cpp:633`: a `Server` releases its share of the integration
  module before it destroys the compositor through a function of that module.
  It is safe because `main()` holds the module, as `ModuleServes` shows.
* `create_xdg_shell_v6_surface()` commits its buffer without waiting for the
  configure too (`Shells = {"xdg_v6"}` in `configure_builder`).
* `linux_dmabuf_v1.cpp`: the `impl` of a `LinuxDmabufFeedbackV1` is never set, so
  its proxy is never destroyed; `tranche_target_device` compares a size in bytes
  with 1, so that `devnum` is 0 for any device.
* `in_process_server.cpp:917`: a second configure in the batch of the first fails
  the test; `ConfiguresAnswered` says that it is the only way to fail.
* `wl_handle.h:59`: moving a handle that was moved from makes a handle that owns
  a proxy it should not (`revived` in `ObjectsOwnProxies`); callers move only what a
  function has just returned.

## What is not modelled

* The conformance tests and the protocol XML: they exercise a compositor; how
  they use the infrastructure decides the inputs of the modules.
* Requests of the protocol wrappers that only forward their arguments, and what
  a test expects of a mock.
* `copy_cut_paste.h`, the interface descriptors, assertion macros, colours,
  time-out helpers and the configuration of Mir in `wlcs_create_server()`: tables,
  I/O and configuration without state.
* In the geometry headers: comparison, stream output, and the explicit
  conversions (`as_x`, `as_delta`, ...), whose purpose is to get around the types.
* Within modelled parts: the index of `output_state()`; the keymap, of which
  `keyboard_keymap` only closes the fd; pixels; more than two objects of a seat
  capability, and a capability that goes while the focus stays; the `send` thunk
  of a `DataSource`, which looks nothing up and is safe because a `DataSource`
  cannot be copied and destroys its proxy when it goes; places between two
  pixels in the example integration, which no test asks for.
* Failures that need a system the code does not run on: `recv()` and `send()` on the
  loop's side of the proxy, whose socket is readable, or has a caller waiting at
  its other end; `eventfd_write()` in the executor, whose counter would have to
  overflow.
* Failures of GoogleTest outside a test: WLCS has neither environments nor set-ups
  of a suite.
