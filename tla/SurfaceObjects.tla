-------------------------- MODULE SurfaceObjects ---------------------------
(***************************************************************************)
(* The surfaces a test makes with a client: their frame callbacks and the  *)
(* objects they own, and the configures they wait for.                     *)
(***************************************************************************)
EXTENDS ObjectKinds, Integers, Sequences

CONSTANTS Surfaces, Callbacks, Shells,
          MaxDepth, MaxRequests, MaxCommits, MaxStrays   \* bounds

(* A surface is neither a buffer nor nothing.                              *)
ASSUME SurfacesAssumption == {None, "buffer"} \cap Surfaces = {}

VARIABLES surface, role, pending_callbacks, proxy, heap, running, creating, connected, kept,
          locals, corrupted, requests, compositorRole, protocolError,
          shell, caller, commits, prev_config_count, last_size_, configure_count, expectation,
          failed, batch, configureRequests, configures, handled, serial, acked, strays,
          crowded, unconfigured, inStep

Surface == INSTANCE SurfaceLifetime

Configure == INSTANCE SurfaceConfigure WITH requests <- configureRequests, events <- configures

surfaceVars == <<surface, role, pending_callbacks, proxy, heap, running, creating, connected,
                 kept, locals, corrupted, requests, compositorRole, protocolError>>
configureVars == <<shell, caller, commits, prev_config_count, last_size_, configure_count,
                   expectation, failed, batch, configureRequests, configures, handled,
                   serial, acked, strays, crowded, unconfigured, inStep>>
surfacesVars == <<kind, surfaceVars, configureVars>>

SurfacesInit ==
    /\ kind \in Kinds
    /\ Surface!Init /\ Configure!Init
    /\ kind = "configure" \/ shell = CHOOSE s \in Shells : TRUE

SurfacesNext ==
    /\ UNCHANGED kind
    /\ \/ kind = "surface" /\ Surface!Next
       \/ kind # "surface" /\ UNCHANGED surfaceVars
    /\ \/ kind = "configure" /\ Configure!Next
       \/ kind # "configure" /\ UNCHANGED configureVars

SurfacesSpec == SurfacesInit /\ [][SurfacesNext]_surfacesVars

-----------------------------------------------------------------------------
(* No callback is freed twice or erased when it is not there, whatever     *)
(* surfaces a running callback destroys; one that is not running belongs   *)
(* to a surface that exists, and none is lost without being freed; one     *)
(* that refers to a local of a create call is called only while that call  *)
(* waits for it.                                                           *)
CallbacksOwned == Surface!CallbacksOwned

(* A surface is not destroyed before its role object; the destructor of a  *)
(* client may leave its shells to a surface it keeps, but then nobody is   *)
(* connected to be told, and nothing made with the client is left: no      *)
(* surface, no callback and no buffer refers to the freed display.         *)
EndsInOrder == Surface!RoleGoesFirst /\ Surface!NothingOutlivesClient

(* A wait for a configure ends with the answer to the commit it follows,   *)
(* unless the compositor sent a configure nobody asked for; a buffer is    *)
(* attached only after the configure was acknowledged, and the mock fails  *)
(* only when a second configure overtook that acknowledgement.             *)
ConfiguresAnswered == Configure!AnswerIsOwn /\ Configure!AckBeforeBuffer
=============================================================================
