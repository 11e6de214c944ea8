-------------------------- MODULE ProtocolObjects --------------------------
(***************************************************************************)
(* The C++ objects that own a proxy each: WlHandle (include/wl_handle.h)   *)
(* and the classes for xdg shells, pointer constraints, relative pointers, *)
(* decorations, dmabuf feedback, text inputs and input methods.            *)
(*                                                                         *)
(* A class with events gives its proxy a listener whose data is the        *)
(* object's address; a method is called on whatever is there when the      *)
(* event is dispatched.  libwayland (external) drops the events of a proxy *)
(* that was destroyed.  Some mocks keep a serial of the events they saw.   *)
(*                                                                         *)
(* Objects of two classes share nothing but memory, so a behaviour has     *)
(* objects of one class.  Addresses are used again, proxies are not.       *)
(***************************************************************************)
EXTENDS Naturals, Sequences

CONSTANTS Places,     \* addresses
          Handles,    \* proxies
          NoHandle,
          MaxQueued   \* bound: events on their way

VARIABLES class,      \* of all objects: one of Classes
          object,     \* addresses with an object
          wl_object, owns_wl_object,    \* per address
          data,       \* per proxy, the data of its listener, or "none"
          known,      \* proxies not destroyed
          seen_serial,                  \* per address
          queue,      \* events on their way, <<proxy, event, serial>>
          used,       \* proxies ever made
          stamped,    \* per proxy, the serial the compositor sent last
          stray, twice, misused, revived   \* history, see below

objectVars == <<object, wl_object, owns_wl_object, seen_serial>>
vars == <<class, objectVars, data, known, queue, used, stamped, stray, twice, misused, revived>>

-----------------------------------------------------------------------------
(* The classes: the events with a method, those whose serial the object   *)
(* keeps and how, whether the destructor destroys the proxy, and whether   *)
(* the object can be moved.                                                *)
Object(events) ==
    [events |-> events, serials |-> {}, keeps |-> "none", destroys |-> TRUE, moves |-> FALSE]

WlHandle == [Object({}) EXCEPT !.moves = TRUE]

XdgSurfaceStable == Object({"configure"})

XdgToplevelStable == Object({"configure", "close", "configure_bounds", "wm_capabilities"})

XdgPositionerStable == Object({})

XdgPopupStable == Object({"configure", "done", "repositioned"})

XdgSurfaceV6 == Object({"configure"})

XdgToplevelV6 == Object({"configure", "close"})

XdgPositionerV6 == Object({})

XdgPopupV6 == Object({"configure", "done"})

ZwpConfinedPointerV1 == Object({"confined", "unconfined"})

ZwpLockedPointerV1 == Object({"locked", "unlocked"})

ZwpRelativePointerV1 == Object({"relative_motion"})

ZxdgToplevelDecorationV1 == Object({"configure"})

(* serial has no initial value.                                            *)
MockTextInputV2 ==
    [Object({"enter", "leave", "input_panel_state", "preedit_string", "predit_styling",
             "preedit_cursor", "commit_string", "cursor_position", "delete_surrounding_text",
             "modifiers_map", "keysym", "language", "text_direction",
             "configure_surrounding_text", "input_method_changed"})
     EXCEPT !.serials = {"enter", "leave", "input_method_changed"}, !.keeps = "unset_last"]

MockTextInputV3 ==
    Object({"enter", "leave", "preedit_string", "commit_string", "delete_surrounding_text",
            "done"})

MockInputMethodV2 ==
    [Object({"activate", "deactivate", "surrounding_text", "text_change_cause",
             "content_type", "done", "unavailable"})
     EXCEPT !.serials = {"done"}, !.keeps = "count"]

MockInputMethodContextV1 ==
    [Object({"surrounding_text", "reset", "content_type", "invoke_action", "commit_state",
             "preferred_language"})
     EXCEPT !.serials = {"commit_state"}, !.keeps = "last"]

(* Its impl, which would hold the handle, is never set.                    *)
LinuxDmabufFeedbackV1 ==
    [Object({"done", "format_table", "main_device", "tranche_done", "tranche_target_device",
             "tranche_formats", "tranche_flags"})
     EXCEPT !.destroys = FALSE]

Classes ==
    {WlHandle, XdgSurfaceStable, XdgToplevelStable, XdgPositionerStable, XdgPopupStable,
     XdgSurfaceV6, XdgToplevelV6, XdgPositionerV6, XdgPopupV6, ZwpConfinedPointerV1,
     ZwpLockedPointerV1, ZwpRelativePointerV1, ZxdgToplevelDecorationV1, MockTextInputV2,
     MockTextInputV3, MockInputMethodV2, MockInputMethodContextV1, LinuxDmabufFeedbackV1}

(* Events of one kind are treated alike: one of each kind is sent.         *)
Kinds == {class.serials, class.events \ class.serials} \ {{}}

Garbage == 7

-----------------------------------------------------------------------------
(* History: a method was called on an address without the object of that   *)
(* proxy; a proxy was destroyed twice; a destroyed proxy was used; a       *)
(* handle that was moved from was moved again.                             *)
Init ==
    /\ class \in Classes
    /\ object = {} /\ known = {} /\ queue = <<>> /\ used = {}
    /\ wl_object = [a \in Places |-> NoHandle]
    /\ owns_wl_object = [a \in Places |-> FALSE]
    /\ seen_serial = [a \in Places |-> 0]
    /\ data = [p \in Handles |-> "none"]
    /\ stamped = [p \in Handles |-> 0]
    /\ stray = FALSE /\ twice = FALSE /\ misused = FALSE /\ revived = FALSE

Hold(a, p) ==
    /\ object' = object \cup {a}
    /\ wl_object' = [wl_object EXCEPT ![a] = p]

(* A constructor.  It throws before it has a proxy, or it takes one.       *)
Construct(a, p) ==
    /\ a \notin object /\ p \notin used
    /\ Hold(a, p)
    /\ owns_wl_object' = [owns_wl_object EXCEPT ![a] = TRUE]
    /\ \E s \in IF class.keeps = "unset_last" THEN {0, Garbage} ELSE {0} :
         seen_serial' = [seen_serial EXCEPT ![a] = s]
    /\ known' = known \cup {p} /\ used' = used \cup {p}
    /\ data' = [data EXCEPT ![p] = IF class.events = {} THEN "none" ELSE a]
    /\ UNCHANGED <<class, queue, stamped, stray, twice, misused, revived>>

(* Mutant: both handles own the proxy.                                     *)
MoveShared(from, to) ==
    /\ class.moves /\ from \in object /\ to \notin object
    /\ Hold(to, wl_object[from])
    /\ owns_wl_object' = [owns_wl_object EXCEPT ![to] = TRUE]
    /\ UNCHANGED <<class, seen_serial, data, known, queue, used, stamped, stray, twice, misused,
                   revived>>

(* WlHandle(WlHandle&&).  The new handle is an owner whether or not the    *)
(* other was one.                                                          *)
Move(from, to) ==
    /\ class.moves /\ from \in object /\ to \notin object
    /\ Hold(to, wl_object[from])
    /\ owns_wl_object' = [owns_wl_object EXCEPT ![from] = FALSE, ![to] = TRUE]
    /\ revived' = (revived \/ ~owns_wl_object[from])
    /\ UNCHANGED <<class, seen_serial, data, known, queue, used, stamped, stray, twice, misused>>

(* operator T*() and wl_proxy(): the proxy is passed to libwayland.  A     *)
(* handle that was moved from aborts the process instead: no step follows. *)
Use(a) ==
    /\ a \in object /\ owns_wl_object[a]
    /\ misused' = (misused \/ wl_object[a] \notin known)
    /\ UNCHANGED <<class, objectVars, data, known, queue, used, stamped, stray, twice, revived>>

Destruct(a) ==
    /\ a \in object
    /\ object' = object \ {a}
    /\ IF owns_wl_object[a] /\ class.destroys
       THEN /\ twice' = (twice \/ wl_object[a] \notin known)
            /\ known' = known \ {wl_object[a]}
       ELSE UNCHANGED <<twice, known>>
    /\ UNCHANGED <<class, wl_object, owns_wl_object, seen_serial, data, queue, used, stamped,
                   stray, misused, revived>>

(* The compositor sends an event; it has not heard of the destruction.     *)
SendEvent(p, e) ==
    /\ p \in used /\ Len(queue) < MaxQueued
    /\ stamped' = [stamped EXCEPT ![p] = IF e \in class.serials THEN @ + 1 ELSE @]
    /\ stamped'[p] <= MaxQueued
    /\ queue' = Append(queue, <<p, e, stamped'[p]>>)
    /\ UNCHANGED <<class, objectVars, data, known, used, stray, twice, misused, revived>>

(* The method is called on the listener's data.                            *)
method_event_impl(a, e, serial) ==
    seen_serial' = [seen_serial EXCEPT
        ![a] = IF e \notin class.serials THEN @
               ELSE IF class.keeps = "count" THEN @ + 1 ELSE serial]

Dispatch ==
    /\ queue # <<>>
    /\ LET p == Head(queue)[1]
           a == data[p]
       IN IF p \in known
          THEN /\ stray' = (stray \/ a \notin object \/ wl_object[a] # p)
               /\ method_event_impl(a, Head(queue)[2], Head(queue)[3])
          ELSE UNCHANGED <<stray, seen_serial>>
    /\ queue' = Tail(queue)
    /\ UNCHANGED <<class, object, wl_object, owns_wl_object, data, known, used, stamped, twice,
                   misused, revived>>

Next ==
    \/ \E a \in Places : Use(a) \/ Destruct(a)
    \/ \E a \in Places, p \in Handles : Construct(a, p)
    \/ \E a, b \in Places : Move(a, b)
    \/ \E p \in Handles : \E k \in Kinds : SendEvent(p, CHOOSE e \in k : TRUE)
    \/ Dispatch

Spec == Init /\ [][Next]_vars

-----------------------------------------------------------------------------
(* Type invariant.                                                         *)
TypeOK ==
    /\ class \in Classes /\ object \subseteq Places /\ known \subseteq used
    /\ used \subseteq Handles
    /\ \A a \in object : wl_object[a] \in used
    /\ \A k \in DOMAIN queue : queue[k] \in used \X class.events \X (0..MaxQueued)

(* A method is called only on the living object of its proxy, also when    *)
(* the event was on its way while that object was destroyed and another    *)
(* was made at the same address; a proxy is destroyed once, with the       *)
(* object that owns it and by nothing else, and is not used after that     *)
(* through a handle it was moved out of.  A handle that was moved from is  *)
(* not moved again: the new one would own a proxy that has an owner.       *)
(* LinuxDmabufFeedbackV1 does not destroy its proxy: nothing is said of it.*)
ObjectsOwnProxies ==
    class.destroys /\ ~revived =>
        /\ ~stray /\ ~twice /\ ~misused
        /\ known = { wl_object[a] : a \in { b \in object : owns_wl_object[b] } }

(* When no event is on its way, and one with a serial has arrived, a       *)
(* mock's serial is the last one the compositor sent to its proxy, so a    *)
(* request made with it is not stale; the one that counts has counted all. *)
SerialsFollow ==
    queue = <<>> /\ class.serials # {} =>
        \A a \in object : stamped[wl_object[a]] > 0 =>
            seen_serial[a] = stamped[wl_object[a]]
=============================================================================
