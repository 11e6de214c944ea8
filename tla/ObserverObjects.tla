-------------------------- MODULE ObserverObjects --------------------------
(***************************************************************************)
(* The objects of a client that keep what the compositor last told them:   *)
(* outputs with their xdg-output objects, the outputs a surface is on, and *)
(* the objects that own a proxy, some of which keep a serial.              *)
(***************************************************************************)
EXTENDS ObjectKinds, Integers, Sequences, FiniteSets

CONSTANTS OutputFields, XdgFields, XdgVersions, Screens,
          Places, Handles, NoHandle,
          MaxChanges, MaxObjects, MaxSurfaces, MaxUpdates, MaxQueued   \* bounds

ASSUME VersionsAssumption == XdgVersions \subseteq Nat

(* An output has finitely many properties: any of them can be listed.      *)
ASSUME FieldsAssumption ==
    \A F \in SUBSET (OutputFields \cup XdgFields) :
        /\ Cardinality(F) \in Nat
        /\ \E o \in [1 .. Cardinality(F) -> F] : \A f \in F : \E k \in DOMAIN o : o[k] = f

VARIABLES version, properties, changes, committed, resource, wire, outputRequests,
          current, pending, object, state, dirty, done_notifiers, objects,
          class, places, wl_object, owns_wl_object, listenerData, known, seen_serial, queue,
          used, stamped, stray, twice, misused, revived,
          made, alive, outputs, shown, enters, updates, threw

Output == INSTANCE Outputs WITH requests <- outputRequests

Owner == INSTANCE ProtocolObjects WITH object <- places, data <- listenerData

Shown == INSTANCE SurfaceOutputs

outputVars == <<version, properties, changes, committed, resource, wire, outputRequests,
                current, pending, object, state, dirty, done_notifiers, objects>>
ownerVars == <<class, places, wl_object, owns_wl_object, listenerData, known, seen_serial,
               queue, used, stamped, stray, twice, misused, revived>>
shownVars == <<made, alive, outputs, shown, enters, updates, threw>>
observersVars == <<kind, outputVars, ownerVars, shownVars>>

ObserversInit ==
    /\ kind \in Kinds
    /\ Output!Init /\ Owner!Init /\ Shown!Init
    /\ kind = "output" \/ version = CHOOSE v \in XdgVersions : TRUE
    /\ kind = "owner" \/ class = Owner!WlHandle

ObserversNext ==
    /\ UNCHANGED kind
    /\ \/ kind = "output" /\ Output!Next
       \/ kind # "output" /\ UNCHANGED outputVars
    /\ \/ kind = "owner" /\ Owner!Next
       \/ kind # "owner" /\ UNCHANGED ownerVars
    /\ \/ kind = "shown" /\ Shown!Next
       \/ kind # "shown" /\ UNCHANGED shownVars

ObserversSpec == ObserversInit /\ [][ObserversNext]_observersVars

-----------------------------------------------------------------------------
(* output_state() is a state the compositor had, never half of a change;   *)
(* so is XdgOutputV1::state(), or nothing yet, whenever it does not throw. *)
(* When nothing is on its way the client has the compositor's state: both  *)
(* of these, the second of which then does not throw for want of a done    *)
(* event; current_outputs() of a surface, whose listener has not thrown;   *)
(* and the serials of the mocks.                                           *)
StateArrives ==
    Output!StatesWhole /\ Output!StateArrives /\ Shown!OutputsFollow /\ Owner!SerialsFollow

(* A method is called only on the living object of its proxy, and a proxy  *)
(* is destroyed once, with the object that owns it, and not used later, as *)
(* long as no handle that was moved from is moved again.                   *)
ObjectsOwnProxies == Owner!ObjectsOwnProxies
=============================================================================
