-------------------------- MODULE SurfaceLifetime --------------------------
(***************************************************************************)
(* The life of wlcs::Surface and its frame callbacks, until the end of     *)
(* their client (src/in_process_server.cpp: Surface::Impl, Client::Impl,   *)
(* create_visible_surface and its helpers, Subsurface::create_visible).    *)
(*                                                                         *)
(* A frame callback is a wl_callback proxy, a std::function on the heap    *)
(* and an entry of the static vector pending_callbacks.  Whoever ends its  *)
(* life frees all three: frame_callback() after the function returned, or  *)
(* the destructor of the surface.  The function is the test's: it may      *)
(* destroy surfaces, its own included, add callbacks, and dispatch events, *)
(* which nests another callback in it.                                     *)
(*                                                                         *)
(* A call that creates a visible surface waits for its first frame with a  *)
(* callback that refers to a local of the call; on Timeout the exception   *)
(* destroys the half-made surface.  The client keeps the buffers it made,  *)
(* and the main surface of a built subsurface, until its own destructor.   *)
(* Surfaces and Callbacks are addresses,                                   *)
(* used again when free.  The compositor (external) handles requests in    *)
(* order.                                                                  *)
(***************************************************************************)
EXTENDS Naturals, Sequences

CONSTANTS Surfaces, Callbacks,
          MaxDepth,     \* bound: frame callbacks nested in each other
          MaxRequests,  \* bound: requests on their way to the compositor
          None

VARIABLES surface,            \* surfaces that exist
          role,               \* surfaces whose role object (xdg_toplevel, ...) exists
          pending_callbacks,  \* pairs of a surface and a callback
          proxy, heap,        \* callbacks whose wl_callback, std::function exist
          running,            \* callbacks being called, innermost last
          creating,           \* the surface a create call waits for
          connected,          \* has the client not been destroyed?
          kept,               \* surfaces, and "buffer", in destruction_callbacks
          locals,             \* callbacks that refer to a local of that call
          corrupted,          \* was something freed twice, or erased that was not there?
          requests, compositorRole, protocolError

callbackVars == <<pending_callbacks, proxy, heap, running, locals, corrupted>>
wireVars == <<requests, compositorRole, protocolError>>
clientVars == <<connected, kept>>
vars == <<surface, role, callbackVars, creating, clientVars, wireVars>>

Init ==
    /\ surface = {} /\ role = {}
    /\ pending_callbacks = {} /\ proxy = {} /\ heap = {} /\ running = <<>>
    /\ creating = None /\ locals = {} /\ corrupted = FALSE
    /\ connected = TRUE /\ kept = {}
    /\ requests = <<>> /\ compositorRole = {} /\ protocolError = "none"

Room(n) == Len(requests) + n <= MaxRequests
Send(rs) == requests' = requests \o rs

-----------------------------------------------------------------------------
Add(s, c) ==
    /\ c \notin proxy \cup heap
    /\ pending_callbacks' = pending_callbacks \cup { <<s, c>> }
    /\ proxy' = proxy \cup {c}
    /\ heap' = heap \cup {c}

add_frame_callback(s, c) ==
    /\ s \in surface
    /\ Add(s, c)
    /\ UNCHANGED <<surface, role, running, locals, corrupted, creating, clientVars, wireVars>>

(* Mutant: the entry is not erased before the function runs.               *)
FrameDoneNotErased(c) ==
    /\ c \in proxy /\ ~ \E k \in DOMAIN running : running[k] = c
    /\ Len(running) < MaxDepth
    /\ running' = Append(running, c)
    /\ locals' = locals \ {c}
    /\ UNCHANGED <<surface, role, pending_callbacks, proxy, heap, corrupted, creating, clientVars, wireVars>>

(* The entry is erased first, then the test's function runs.               *)
FrameDone(c) ==
    /\ c \in proxy /\ ~ \E k \in DOMAIN running : running[k] = c
    /\ Len(running) < MaxDepth
    /\ corrupted' = (corrupted \/ \A s \in Surfaces : <<s, c>> \notin pending_callbacks)
    /\ pending_callbacks' = { p \in pending_callbacks : p[2] # c }
    /\ running' = Append(running, c)
    /\ locals' = locals \ {c}
    /\ UNCHANGED <<surface, role, proxy, heap, creating, clientVars, wireVars>>

(* The function returns; wl_callback and std::function are freed.          *)
FrameReturn ==
    /\ running # <<>>
    /\ LET c == running[Len(running)]
       IN /\ corrupted' = (corrupted \/ c \notin proxy \cap heap)
          /\ proxy' = proxy \ {c}
          /\ heap' = heap \ {c}
    /\ running' = SubSeq(running, 1, Len(running) - 1)
    /\ UNCHANGED <<surface, role, pending_callbacks, locals, creating, clientVars, wireVars>>

Own(s) == { p[2] : p \in { q \in pending_callbacks : q[1] = s } }

(* The loop over pending_callbacks in the destructor.                      *)
FreeCallbacks(s) ==
    /\ corrupted' = (corrupted \/ ~(Own(s) \subseteq proxy \cap heap))
    /\ pending_callbacks' = { p \in pending_callbacks : p[1] # s }
    /\ heap' = heap \ Own(s)
    /\ proxy' = proxy \ Own(s)
    /\ locals' = locals \ Own(s)

(* Mutant: the wl_surface is destroyed before the destruction callbacks.   *)
DestroyRequestsSwapped(s) ==
    IF s \in role THEN << <<"destroy_surface", s>>, <<"destroy_role", s>> >>
    ELSE << <<"destroy_surface", s>> >>

(* The destruction callbacks destroy the role objects, then the wl_surface *)
(* goes.                                                                   *)
DestroyRequests(s) ==
    IF s \in role THEN << <<"destroy_role", s>>, <<"destroy_surface", s>> >>
    ELSE << <<"destroy_surface", s>> >>

Destroy(s) ==
    /\ Room(2)
    /\ FreeCallbacks(s)
    /\ Send(DestroyRequests(s))
    /\ surface' = surface \ {s}
    /\ role' = role \ {s}
    /\ UNCHANGED <<running, clientVars, compositorRole, protocolError>>

(* A test destroys a surface, in its body or in a frame callback.          *)
DestroySurface(s) ==
    /\ s \in surface \ kept /\ s # creating
    /\ Destroy(s)
    /\ UNCHANGED creating

-----------------------------------------------------------------------------
(* A plain Surface.                                                        *)
CreateSurface(s) ==
    /\ connected /\ s \notin surface /\ Room(1)
    /\ surface' = surface \cup {s}
    /\ Send(<< <<"create_surface", s>> >>)
    /\ UNCHANGED <<role, callbackVars, creating, clientVars, compositorRole, protocolError>>

(* create_wl_shell_surface, create_xdg_shell_*_surface, create_visible:    *)
(* surface, role, buffer and a callback for the first frame.               *)
CreateVisible(s, c) ==
    /\ connected /\ creating = None /\ running = <<>> /\ s \notin surface /\ Room(2)
    /\ surface' = surface \cup {s}
    /\ role' = role \cup {s}
    /\ Add(s, c)
    /\ locals' = locals \cup {c}
    /\ creating' = s
    /\ kept' = kept \cup {"buffer"}
    /\ Send(<< <<"create_surface", s>>, <<"create_role", s>> >>)
    /\ UNCHANGED <<running, corrupted, connected, compositorRole, protocolError>>

(* dispatch_until() sees that the first frame came.                        *)
CreateReturns ==
    /\ creating # None /\ running = <<>> /\ locals = {}
    /\ creating' = None
    /\ UNCHANGED <<surface, role, callbackVars, clientVars, wireVars>>

(* dispatch_until() throws; unwinding destroys the surface.                *)
CreateThrows ==
    /\ creating # None /\ running = <<>> /\ locals # {}
    /\ Destroy(creating)
    /\ creating' = None

(* SubsurfaceBuilder leaves the surface it made visible to the client.     *)
KeepMainSurface(s) ==
    /\ s \in role /\ s # creating /\ running = <<>>
    /\ kept' = kept \cup {s}
    /\ UNCHANGED <<surface, role, callbackVars, creating, connected, wireVars>>

(* The members of a set, at most MaxRequests, in any order.                *)
Orders(S) ==
    { f \in UNION { [1 .. n -> S] : n \in 0 .. MaxRequests } :
        /\ \A x \in S : \E k \in DOMAIN f : f[k] = x
        /\ \A i, j \in DOMAIN f : f[i] = f[j] => i = j }

(* The client's destructor, when the test's own surfaces are gone: the     *)
(* globals, then destruction_callbacks, then the display.  A surface that  *)
(* is kept has a role, and so two requests to destroy it.                  *)
DestroyClient ==
    /\ connected /\ surface \subseteq kept /\ creating = None /\ running = <<>> /\ Room(1)
    /\ LET entries == { p \in pending_callbacks : p[1] \in kept }
           freed == { p[2] : p \in entries }
       IN /\ corrupted' = (corrupted \/ ~(freed \subseteq proxy \cap heap))
          /\ pending_callbacks' = pending_callbacks \ entries
          /\ heap' = heap \ freed
          /\ proxy' = proxy \ freed
    /\ \E order \in Orders(kept \cap surface) :
          Send(<< <<"destroy_shells", None>> >>
               \o [ k \in 1 .. 2 * Len(order) |-> DestroyRequests(order[(k + 1) \div 2])[2 - (k % 2)] ])
    /\ surface' = surface \ kept
    /\ role' = role \ kept
    /\ kept' = {}
    /\ connected' = FALSE
    /\ UNCHANGED <<running, locals, creating, compositorRole, protocolError>>

(* The compositor handles a request; a surface with a role may not go      *)
(* before the role object, and a shell not before its surfaces.            *)
HandleRequest ==
    /\ requests # <<>>
    /\ LET r == Head(requests)
       IN /\ compositorRole' = CASE r[1] = "create_role" -> compositorRole \cup {r[2]}
                                 [] r[1] = "destroy_role" -> compositorRole \ {r[2]}
                                 [] OTHER -> compositorRole
          /\ protocolError' =
                IF protocolError # "none" THEN protocolError
                ELSE CASE r[1] = "destroy_surface" /\ r[2] \in compositorRole -> "role"
                       [] r[1] = "destroy_shells" /\ compositorRole # {} -> "defunct"
                       [] OTHER -> "none"
    /\ requests' = Tail(requests)
    /\ UNCHANGED <<surface, role, callbackVars, creating, clientVars>>

Next ==
    \/ \E s \in Surfaces : CreateSurface(s) \/ DestroySurface(s) \/ KeepMainSurface(s)
    \/ \E s \in Surfaces, c \in Callbacks : add_frame_callback(s, c) \/ CreateVisible(s, c)
    \/ \E c \in Callbacks : FrameDone(c)
    \/ FrameReturn
    \/ CreateReturns \/ CreateThrows
    \/ DestroyClient
    \/ HandleRequest

Spec == Init /\ [][Next]_vars

-----------------------------------------------------------------------------
Running == { running[k] : k \in DOMAIN running }

(* Type invariant.                                                         *)
TypeOK ==
    /\ role \subseteq surface /\ surface \subseteq Surfaces
    /\ pending_callbacks \subseteq Surfaces \X Callbacks
    /\ proxy \subseteq Callbacks /\ heap = proxy /\ locals \subseteq proxy
    /\ creating \in Surfaces \cup {None} /\ kept \subseteq surface \cup {"buffer"}
    /\ protocolError \in {"none", "role", "defunct"}

(* No callback is freed twice or erased when it is not there, whatever     *)
(* surfaces a running callback destroys; one that is not running belongs   *)
(* to a surface that exists, and none is lost without being freed; one     *)
(* that refers to a local of a create call is called only while that call  *)
(* waits for it.                                                           *)
CallbacksOwned ==
    /\ ~corrupted
    /\ \A p \in pending_callbacks : p[1] \in surface /\ p[2] \notin Running
    /\ proxy = { p[2] : p \in pending_callbacks } \cup Running
    /\ locals # {} => creating # None /\ locals \subseteq Own(creating)

(* A surface is not destroyed before its role object; the destructor of a  *)
(* client may leave its shells to a surface it keeps, but then nobody is   *)
(* connected to be told.                                                   *)
RoleGoesFirst == protocolError # "role" /\ (protocolError = "defunct" => ~connected)

(* When the client has disconnected nothing made with it is left: no       *)
(* surface, no callback and no buffer refers to the freed display.         *)
NothingOutlivesClient ==
    ~connected => surface = {} /\ proxy = {} /\ heap = {} /\ kept = {}
=============================================================================
