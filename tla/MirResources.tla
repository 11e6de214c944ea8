---------------------------- MODULE MirResources ----------------------------
(***************************************************************************)
(* How the example integration (example/mir_integration.cpp) starts and    *)
(* finds the window a test wants to move: ResourceMapper keeps the client  *)
(* of a socket, and the window of a wl_surface.                            *)
(*                                                                         *)
(* The test's thread waits, in vain perhaps, until Mir has started; opens  *)
(* a socket and waits until the Wayland thread has seen a new client,      *)
(* which it takes to be the one of that socket, or gives up; and moves     *)
(* windows.  fds, the addresses of resources and the ids a client gives    *)
(* its objects are used again.                                             *)
(***************************************************************************)
EXTENDS Naturals, Sequences

CONSTANTS Fds, Resources, Ids,
          MaxClients, MaxWindows,   \* bounds
          MaxTimeouts               \* how often a wait may time out

VARIABLES server, listening,        \* "created", "starting" or "started"; init() has run
          clients, connecting,      \* clients so far; those Mir has not accepted
          missed,                   \* those it accepted before init() had run
          waiting, owner,           \* the fd being associated, or 0; whose the open fds are
          latest_client, client_session_map,
          object,                   \* the client and the id of a wl_surface, or NoObject
          windows, window,          \* windows so far; the window of a resource in use, or 0
          last_wl_surface, last_wl_window,   \* 0 for null; whether one was seen
          stream_map, surface_map,  \* the resources with a stream; their windows
          moved,                    \* the last window a test asked to move, and the one that did
          timeouts

socketVars == <<server, listening, missed, clients, connecting, waiting, owner, latest_client,
                client_session_map, timeouts>>
windowVars == <<object, windows, window, last_wl_surface, last_wl_window, stream_map, surface_map>>
vars == <<socketVars, windowVars, moved>>

(* The owner of an fd that was opened and given up.                        *)
Lost == MaxClients + 1

NoObject == <<0, 0>>

(* wlcs_create_server() makes the mapper; nothing has run yet.             *)
Init ==
    /\ server = "created" /\ listening = FALSE
    /\ clients = 0 /\ connecting = <<>> /\ missed = {} /\ waiting = 0
    /\ owner = [f \in Fds |-> 0] /\ latest_client = 0
    /\ client_session_map = [f \in Fds |-> 0]
    /\ object = [r \in Resources |-> NoObject]
    /\ windows = 0 /\ window = [r \in Resources |-> 0]
    /\ last_wl_surface = 0 /\ last_wl_window = FALSE
    /\ stream_map = {} /\ surface_map = [r \in Resources |-> 0]
    /\ moved = <<0, 0>> /\ timeouts = 0

-----------------------------------------------------------------------------
(* wlcs_server_start(): Mir's threads run ...                              *)
start_server ==
    /\ server = "created"
    /\ server' = "starting"
    /\ UNCHANGED <<listening, missed, clients, connecting, waiting, owner, latest_client,
                   client_session_map, timeouts, windowVars, moved>>

(* ... the callback of wlcs_create_server() on the Wayland thread calls    *)
(* init(), which listens for clients, and raises started ...               *)
init ==
    /\ server # "created" /\ ~listening
    /\ listening' = TRUE
    /\ UNCHANGED <<server, missed, clients, connecting, waiting, owner, latest_client,
                   client_session_map, timeouts, windowVars, moved>>

(* ... and start returns, whether started was raised or not.               *)
started ==
    /\ server = "starting"
    /\ server' = "started"
    /\ \/ listening /\ UNCHANGED timeouts
       \/ ~listening /\ timeouts < MaxTimeouts /\ timeouts' = timeouts + 1
    /\ UNCHANGED <<listening, missed, clients, connecting, waiting, owner, latest_client,
                   client_session_map, windowVars, moved>>

(* wlcs_server_create_client_socket(): the socket is opened ...            *)
OpenSocket(f) ==
    /\ server = "started" /\ waiting = 0 /\ owner[f] = 0 /\ clients < MaxClients
    /\ clients' = clients + 1
    /\ connecting' = Append(connecting, clients')
    /\ owner' = [owner EXCEPT ![f] = clients']
    /\ waiting' = f
    /\ UNCHANGED <<server, listening, missed, latest_client, client_session_map, timeouts,
                   windowVars, moved>>

(* Mir accepts a client, which the mapper misses if it does not listen.    *)
client_created ==
    /\ connecting # <<>>
    /\ latest_client' = IF listening THEN Head(connecting) ELSE latest_client
    /\ missed' = IF listening THEN missed ELSE missed \cup {Head(connecting)}
    /\ connecting' = Tail(connecting)
    /\ UNCHANGED <<server, listening, clients, waiting, owner, client_session_map, timeouts,
                   windowVars, moved>>

(* Mutant: the latest client is not taken away.                            *)
associate_client_socket_kept ==
    /\ waiting # 0 /\ latest_client # 0
    /\ client_session_map' = [client_session_map EXCEPT ![waiting] = latest_client]
    /\ waiting' = 0
    /\ UNCHANGED <<server, listening, missed, clients, connecting, owner, latest_client, timeouts,
                   windowVars, moved>>

(* ... and associated with the latest client ...                           *)
associate_client_socket ==
    /\ waiting # 0 /\ latest_client # 0
    /\ client_session_map' = [client_session_map EXCEPT ![waiting] = latest_client]
    /\ latest_client' = 0
    /\ waiting' = 0
    /\ UNCHANGED <<server, listening, missed, clients, connecting, owner, timeouts, windowVars, moved>>

(* ... or the wait times out, -1 is returned and the fd is lost.           *)
WaitTimesOut ==
    /\ waiting # 0 /\ latest_client = 0 /\ timeouts < MaxTimeouts
    /\ timeouts' = timeouts + 1
    /\ waiting' = 0
    /\ owner' = [owner EXCEPT ![waiting] = Lost]
    /\ UNCHANGED <<server, listening, missed, clients, connecting, latest_client,
                   client_session_map, windowVars, moved>>

(* A client disconnects, which closes the fd.                              *)
CloseSocket(f) ==
    /\ owner[f] \in 1 .. clients /\ waiting # f
    /\ owner' = [owner EXCEPT ![f] = 0]
    /\ UNCHANGED <<server, listening, missed, clients, connecting, waiting, latest_client,
                   client_session_map, timeouts, windowVars, moved>>

-----------------------------------------------------------------------------
(* A client that is connected: the test has its socket and Mir its         *)
(* wl_client, whose resources the mapper listens for.  The surfaces of a   *)
(* client it missed fail in buffer_stream_created(): they are left out.    *)
Connected(f) ==
    /\ owner[f] \in (1 .. clients) \ missed /\ waiting # f
    /\ \A n \in DOMAIN connecting : connecting[n] # owner[f]

(* The Wayland thread.  resource_created() for a wl_surface ...            *)
resource_created(r) ==
    /\ last_wl_surface = 0 /\ object[r] = NoObject
    /\ \E f \in Fds, i \in Ids :
        /\ Connected(f) /\ \A q \in Resources : object[q] # <<owner[f], i>>
        /\ object' = [object EXCEPT ![r] = <<owner[f], i>>]
    /\ last_wl_surface' = r
    /\ UNCHANGED <<windows, window, last_wl_window, stream_map, surface_map, socketVars, moved>>

(* ... whose constructor makes its stream.                                 *)
buffer_stream_created ==
    /\ last_wl_surface # 0
    /\ stream_map' = stream_map \cup {last_wl_surface}
    /\ last_wl_surface' = 0
    /\ UNCHANGED <<object, windows, window, last_wl_window, surface_map, socketVars, moved>>

(* resource_created() for a wl_shell_surface or a zxdg_surface_v6.         *)
window_resource_created ==
    /\ last_wl_surface = 0 /\ stream_map # {}
    /\ last_wl_window' = TRUE
    /\ UNCHANGED <<object, windows, window, last_wl_surface, stream_map, surface_map, socketVars, moved>>

NewWindow(r) ==
    /\ last_wl_surface = 0 /\ r \in stream_map /\ window[r] = 0 /\ windows < MaxWindows
    /\ windows' = windows + 1
    /\ window' = [window EXCEPT ![r] = windows']
    /\ UNCHANGED <<object, last_wl_surface, last_wl_window, stream_map, socketVars, moved>>

(* surface_created() enters the window; without a window resource it       *)
(* throws and there is none.                                               *)
surface_created(r) ==
    /\ last_wl_window
    /\ NewWindow(r)
    /\ surface_map' = [surface_map EXCEPT ![r] = windows']

(* destroying_surface() leaves the entry, buffer_stream_destroyed() erases *)
(* the stream; the address of the wl_surface and its id are free.          *)
buffer_stream_destroyed(r) ==
    /\ last_wl_surface = 0 /\ r \in stream_map
    /\ object' = [object EXCEPT ![r] = NoObject]
    /\ window' = [window EXCEPT ![r] = 0]
    /\ stream_map' = stream_map \ {r}
    /\ UNCHANGED <<windows, last_wl_surface, last_wl_window, surface_map, socketVars, moved>>

(* surface_for_resource() of the object the client of the socket has under *)
(* an id: a window, or 0 where there is none or it is gone and the         *)
(* integration aborts.                                                     *)
surface_for_resource(f, i) ==
    LET found == {r \in Resources : object[r] = <<client_session_map[f], i>>}
        live == {r \in found : surface_map[r] # 0 /\ surface_map[r] = window[r]}
    IN IF live = {} THEN 0 ELSE window[CHOOSE r \in live : TRUE]

(* wlcs_server_position_window_absolute() for a window of a client that is *)
(* connected.                                                              *)
position_window_absolute(f, r) ==
    /\ waiting = 0 /\ Connected(f) /\ object[r][1] = owner[f] /\ window[r] # 0
    /\ moved' = <<window[r], surface_for_resource(f, object[r][2])>>
    /\ UNCHANGED <<socketVars, windowVars>>

Next ==
    \/ start_server \/ init \/ started
    \/ \E f \in Fds : OpenSocket(f) \/ CloseSocket(f)
    \/ client_created \/ associate_client_socket \/ WaitTimesOut
    \/ \E r \in Resources : resource_created(r) \/ surface_created(r) \/ buffer_stream_destroyed(r)
    \/ buffer_stream_created \/ window_resource_created
    \/ \E f \in Fds, r \in Resources : position_window_absolute(f, r)

Spec == Init /\ [][Next]_vars

-----------------------------------------------------------------------------
(* Until a wait times out, position_window_absolute() moves the window it  *)
(* was asked to and does not abort, though fds, addresses and ids are used *)
(* again and the entries of dead surfaces stay.                            *)
MovesOwnWindow == timeouts = 0 => moved[1] = moved[2]
=============================================================================
