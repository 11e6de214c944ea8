--------------------------- MODULE MirIntegration ---------------------------
(***************************************************************************)
(* The example integration: the executor, clients and windows, input       *)
(* events, and input devices.  The four share no state and the test's      *)
(* thread is in one call at a time, so a behaviour is one of a single      *)
(* part.                                                                   *)
(***************************************************************************)
EXTENDS MirExecutor, Integers

CONSTANTS Fds, Resources, Ids, Devices, Mice, None, Edge,
          MaxClients, MaxWindows, MaxEvents, MaxTime, MaxTimeouts   \* bounds

(* No fd is 0, which stands for none.                                      *)
ASSUME FdsAssumption == 0 \notin Fds

(* The output has a size.                                                  *)
ASSUME EdgeAssumption == Edge \in Nat

VARIABLES part,   \* the one that runs
          timeouts,   \* of its waits
          server, listening, missed, clients, connecting, waiting, owner, latest_client, client_session_map,
          object, windows, window, last_wl_surface, last_wl_window, stream_map, surface_map, moved,
          now, inputs, observations, position, cursor, expected_events, raised, waitingFor, last,
          last_x, touched, emitted, seen, releasedAt,
          step, creating, created, observerWork, deviceWork, observers, present, seen_device,
          done, destroyed, mistakable

Resource == INSTANCE MirResources
Input == INSTANCE MirInput WITH waiting <- waitingFor
Device == INSTANCE MirDevices

resourceVars == <<server, listening, missed, clients, connecting, waiting, owner, latest_client,
                  client_session_map, object, windows, window, last_wl_surface, last_wl_window,
                  stream_map, surface_map, moved>>
inputVars == <<now, inputs, observations, position, cursor, expected_events, raised, waitingFor,
               last, last_x, touched, emitted, seen, releasedAt>>
deviceVars == <<step, creating, created, observerWork, deviceWork, observers, present,
                seen_device, done, destroyed, mistakable>>
mirVars == <<part, timeouts, resourceVars, inputVars, deviceVars, vars>>

MirInit ==
    /\ part \in {"executor", "resources", "input", "devices"}
    /\ Init /\ Resource!Init /\ Input!Init /\ Device!Init

MirNext ==
    /\ UNCHANGED part
    /\ \/ part = "executor" /\ Next /\ UNCHANGED <<timeouts, resourceVars, inputVars, deviceVars>>
       \/ part = "resources" /\ Resource!Next /\ UNCHANGED <<vars, inputVars, deviceVars>>
       \/ part = "input" /\ Input!Next /\ UNCHANGED <<vars, resourceVars, deviceVars>>
       \/ part = "devices" /\ Device!Next /\ UNCHANGED <<vars, resourceVars, inputVars>>

MirSpec == MirInit /\ [][MirNext]_mirVars /\ Fairness /\ Device!Fairness

-----------------------------------------------------------------------------
(* Until a wait times out, position_window_absolute() moves the window it  *)
(* was asked to and does not abort, though fds, addresses and ids are used *)
(* again and the entries of dead surfaces stay.                            *)
MovesOwnWindow == Resource!MovesOwnWindow

(* emit_mir_event() reports success only after Mir has dispatched the      *)
(* event of that very call, though events of calls that timed out come     *)
(* late and the clock may not advance between calls.                       *)
SuccessIsOwn == Input!SuccessIsOwn

(* wlcs_pointer_move_absolute() has brought the cursor to its target when  *)
(* it returns, if what earlier calls left to Mir was done when it was      *)
(* called, as it always was until a call times out; wlcs_touch_up() lifts  *)
(* the finger where Mir has it, whichever calls timed out before.          *)
InputLands == Input!PointerLands /\ Input!ReleaseInPlace

(* Until a wait times out, a pointer or touch that was returned and not    *)
(* destroyed is one the hub has, whatever the observer hears of first; but *)
(* for one made while the hub has, or has yet to remove, another with the  *)
(* same uid.                                                               *)
CreatedIsPresent == Device!CreatedIsPresent

(* wlcs_server_create_pointer() and _touch() return though no wait times   *)
(* out, whichever of its queues the hub serves first, and what they return *)
(* is in the hub in the end unless it is destroyed.                        *)
CreationEnds == Device!CreationEnds
=============================================================================
