------------------------------ MODULE Outputs ------------------------------
(***************************************************************************)
(* What a wlcs::Client knows of an output: the wl_output listener          *)
(* (src/in_process_server.cpp, Client::Impl::Output), which collects       *)
(* events in `pending' until done, and XdgOutputV1 (src/xdg_output_v1.cpp),*)
(* which writes at once and marks itself dirty until the done that ends    *)
(* the change: zxdg_output_v1.done before version 3, wl_output.done since. *)
(*                                                                         *)
(* A value is the number of the change that set it, 0 for unset.  The      *)
(* compositor (external) changes any properties together and sends what    *)
(* changed followed by the done events the version asks for.  The test     *)
(* makes and destroys an XdgOutputV1 and asks for states at any time.      *)
(***************************************************************************)
EXTENDS Naturals, Sequences, FiniteSets

CONSTANTS OutputFields, XdgFields,  \* geometry, mode, ...; logical_position, ...
          XdgVersions,              \* versions of zxdg_output_v1 considered
          MaxChanges, MaxObjects    \* bounds

Fields == OutputFields \cup XdgFields

VARIABLES version, properties, changes,   \* the compositor's output
          committed,                      \* history: the properties at every done
          resource,                       \* the xdg_output the compositor knows, or 0
          wire, requests,
          current, pending,               \* Output::current and pending
          object,                         \* the XdgOutputV1 in use, 0 if none
          state, dirty,                   \* XdgOutputV1::Impl
          done_notifiers,                 \* the objects whose notifiers were added
          objects

compositorVars == <<version, properties, changes, committed>>
outputVars == <<current, pending>>
xdgVars == <<object, state, dirty, done_notifiers, objects>>
vars == <<compositorVars, resource, wire, requests, outputVars, xdgVars>>

Unset(F) == [f \in F |-> 0]
Part(p, F) == [f \in F |-> p[f]]
Event(t, f, v) == [type |-> t, field |-> f, value |-> v, object |-> 0]
Done == [type |-> "wl_output.done", field |-> "none", value |-> 0, object |-> 0]
XdgDone(o) == [type |-> "xdg_output.done", field |-> "none", value |-> 0, object |-> o]
XdgEvent(f, v, o) == [type |-> "xdg_output", field |-> f, value |-> v, object |-> o]

(* The initial roundtrip of the client has delivered the first state.      *)
Init ==
    /\ version \in XdgVersions
    /\ properties = [f \in Fields |-> 1] /\ changes = 1
    /\ committed = { properties }
    /\ resource = 0 /\ wire = <<>> /\ requests = <<>>
    /\ current = Part(properties, OutputFields) /\ pending = Unset(OutputFields)
    /\ object = 0 /\ state = Unset(XdgFields) /\ dirty = FALSE
    /\ done_notifiers = {} /\ objects = 0

-----------------------------------------------------------------------------
(* The compositor.                                                         *)

(* Some order in which the events of some properties are sent.             *)
Order(F) ==
    CHOOSE o \in [1 .. Cardinality(F) -> F] : \A f \in F : \E k \in DOMAIN o : o[k] = f

(* The xdg_output events of a change, and the done of old versions.        *)
XdgPart(F, p, r) ==
    IF r = 0 THEN <<>>
    ELSE [k \in DOMAIN Order(F) |-> XdgEvent(Order(F)[k], p[Order(F)[k]], r)]
           \o IF version < 3 THEN <<XdgDone(r)>> ELSE <<>>

OutputPart(F, p) ==
    [k \in DOMAIN Order(F) |-> Event("wl_output", Order(F)[k], p[Order(F)[k]])]

Change(F) ==
    LET p == [f \in Fields |-> IF f \in F THEN changes + 1 ELSE properties[f]]
        xdg == XdgPart(F \cap XdgFields, p, resource)
        out == OutputPart(F \cap OutputFields, p)
    IN /\ changes < MaxChanges /\ F # {}
       /\ properties' = p
       /\ changes' = changes + 1
       /\ committed' = committed \cup {p}
       /\ wire' \in { wire \o xdg \o out \o <<Done>>, wire \o out \o xdg \o <<Done>> }
       /\ UNCHANGED <<version, resource, requests, outputVars, xdgVars>>

(* get_xdg_output is answered with the whole state.                        *)
HandleRequest ==
    /\ requests # <<>>
    /\ LET r == Head(requests)
       IN IF r[1] = "get_xdg_output"
          THEN /\ resource' = r[2]
               /\ wire' = wire \o XdgPart(XdgFields, properties, r[2])
                               \o IF version >= 3 THEN <<Done>> ELSE <<>>
          ELSE /\ resource' = 0
               /\ UNCHANGED wire
    /\ requests' = Tail(requests)
    /\ UNCHANGED <<compositorVars, outputVars, xdgVars>>

-----------------------------------------------------------------------------
(* The client.  Events for a destroyed object are dropped by libwayland.   *)

Take(type) ==
    /\ wire # <<>> /\ Head(wire).type = type
    /\ wire' = Tail(wire)
    /\ UNCHANGED <<compositorVars, resource, requests, object, done_notifiers, objects>>

(* geometry_thunk, mode_thunk, scale_thunk.                                *)
output_property ==
    /\ Take("wl_output")
    /\ pending' = [pending EXCEPT ![Head(wire).field] = Head(wire).value]
    /\ UNCHANGED <<current, state, dirty>>

(* The notifiers of the output: those whose object is alive clear its      *)
(* dirty flag.                                                             *)
Notifiers == dirty' = IF object \in done_notifiers THEN FALSE ELSE dirty

(* done_thunk: what was collected becomes current, then the notifiers run.  *)
done_thunk ==
    /\ Take("wl_output.done")
    /\ current' = [f \in OutputFields |-> IF pending[f] # 0 THEN pending[f] ELSE current[f]]
    /\ pending' = Unset(OutputFields)
    /\ Notifiers
    /\ UNCHANGED state

(* logical_position, logical_size, name, description.                      *)
xdg_property ==
    /\ Take("xdg_output")
    /\ IF Head(wire).object = object
       THEN /\ state' = [state EXCEPT ![Head(wire).field] = Head(wire).value]
            /\ dirty' = TRUE
       ELSE UNCHANGED <<state, dirty>>
    /\ UNCHANGED outputVars

(* Mutant: zxdg_output_v1.done only counts from version 3 on.              *)
xdg_done_swapped ==
    /\ Take("xdg_output.done")
    /\ dirty' = (dirty /\ ~(Head(wire).object = object /\ version >= 3))
    /\ UNCHANGED <<outputVars, state>>

xdg_done ==
    /\ Take("xdg_output.done")
    /\ dirty' = (dirty /\ ~(Head(wire).object = object /\ version < 3))
    /\ UNCHANGED <<outputVars, state>>

NewXdgOutput ==
    /\ object = 0 /\ objects < MaxObjects
    /\ objects' = objects + 1
    /\ object' = objects'
    /\ state' = Unset(XdgFields)
    /\ dirty' = FALSE
    /\ done_notifiers' = IF version >= 3 THEN done_notifiers \cup {objects'} ELSE done_notifiers
    /\ requests' = Append(requests, <<"get_xdg_output", objects'>>)
    /\ UNCHANGED <<compositorVars, resource, wire, outputVars>>

DestroyXdgOutput ==
    /\ object # 0
    /\ object' = 0
    /\ requests' = Append(requests, <<"destroy", object>>)
    /\ UNCHANGED <<compositorVars, resource, wire, outputVars, state, dirty, done_notifiers,
                   objects>>

Next ==
    \/ \E F \in SUBSET Fields : Change(F)
    \/ HandleRequest
    \/ output_property \/ done_thunk \/ xdg_property \/ xdg_done
    \/ NewXdgOutput \/ DestroyXdgOutput

Spec == Init /\ [][Next]_vars

-----------------------------------------------------------------------------
(* Settled: nothing is on its way.                                         *)
Settled == wire = <<>> /\ requests = <<>>

(* Type invariant.                                                         *)
TypeOK ==
    /\ current \in [OutputFields -> 0 .. MaxChanges]
    /\ pending \in [OutputFields -> 0 .. MaxChanges]
    /\ state \in [XdgFields -> 0 .. MaxChanges]
    /\ dirty \in BOOLEAN /\ object \in 0 .. MaxObjects
    /\ Settled => pending = Unset(OutputFields)

(* output_state() is a state the compositor had, never half of a change;   *)
(* so is XdgOutputV1::state(), or nothing yet, whenever it does not throw. *)
StatesWhole ==
    /\ \E p \in committed : current = Part(p, OutputFields)
    /\ (object # 0 /\ ~dirty) =>
          state = Unset(XdgFields) \/ \E p \in committed : state = Part(p, XdgFields)

(* When nothing is on its way the client has the compositor's state, and   *)
(* state() does not throw for want of a done event.                        *)
StateArrives ==
    Settled => /\ current = Part(properties, OutputFields)
               /\ object # 0 => ~dirty /\ state = Part(properties, XdgFields)
=============================================================================
