--------------------------- MODULE KeyboardInput ---------------------------
(***************************************************************************)
(* How a wlcs::Client follows the keyboard focus and the keys              *)
(* (src/in_process_server.cpp: keyboard_enter, keyboard_leave,             *)
(* keyboard_key).  The compositor (external) moves the focus, taking it    *)
(* away and giving it in either order, and takes it off a surface it       *)
(* learns was destroyed; an event for a surface the client has destroyed   *)
(* comes with a null surface.  When the client was made to ask for a       *)
(* second wl_keyboard, it sends everything to both, by event or by object. *)
(* Only the surfaces in Destroyable are destroyed.  keymap, modifiers and  *)
(* repeat_info change no state.                                            *)
(***************************************************************************)
EXTENDS Naturals, Sequences

CONSTANTS Surfaces, Destroyable, Keys,
          MaxWire,    \* bound: events on the connection
          MaxSerial,  \* bound: serials the compositor gives out
          Null

VARIABLES focus, down, serial, known,   \* the compositor's seat
          doubled,                      \* has the client a second wl_keyboard?
          wire, destroys, live,
          keyboard_focused_surface, latest_serial, last_key_event

seatVars == <<focus, down, serial, known, doubled>>
clientVars == <<keyboard_focused_surface, latest_serial, last_key_event>>
vars == <<seatVars, wire, destroys, live, clientVars>>

NoKey == [scancode |-> Null, is_down |-> FALSE, serial |-> 0]

Init ==
    /\ focus = Null /\ down = {} /\ serial = 0 /\ known = Surfaces /\ doubled = FALSE
    /\ wire = <<>> /\ destroys = {} /\ live = Surfaces
    /\ keyboard_focused_surface = Null
    /\ latest_serial = 0
    /\ last_key_event = NoKey

-----------------------------------------------------------------------------
(* The compositor.                                                         *)

Enter(s, n) == [type |-> "enter", surface |-> s, serial |-> n]
Leave(s, n) == [type |-> "leave", surface |-> s, serial |-> n]
Room == Len(wire) < MaxWire /\ serial + 1 < MaxSerial

(* The events go to one object and then to the other, or one by one to     *)
(* both.                                                                   *)
Post(es) ==
    \E sent \in IF doubled THEN {es \o es, [k \in 1 .. 2 * Len(es) |-> es[(k + 1) \div 2]]}
               ELSE {es} :
        wire' = wire \o sent

(* The focus moves to s, or to nothing; leave and enter go out in either   *)
(* order.                                                                  *)
MoveFocus(s) ==
    /\ Room /\ s # focus /\ s \in known \cup {Null}
    /\ LET gone(n) == IF focus = Null THEN <<>> ELSE <<Leave(focus, n)>>
           come(n) == IF s = Null THEN <<>> ELSE <<Enter(s, n)>>
       IN \/ Post(gone(serial + 1) \o come(serial + 2))
          \/ Post(come(serial + 1) \o gone(serial + 2))
    /\ focus' = s
    /\ serial' = serial + 2
    /\ UNCHANGED <<down, known, doubled, destroys, live, clientVars>>

SendKey(k) ==
    /\ Room /\ focus # Null
    /\ Post(<< [type |-> "key", key |-> k, is_down |-> k \notin down, serial |-> serial + 1] >>)
    /\ down' = IF k \in down THEN down \ {k} ELSE down \cup {k}
    /\ serial' = serial + 1
    /\ UNCHANGED <<focus, known, doubled, destroys, live, clientVars>>

HandleDestroy(s) ==
    /\ s \in destroys
    /\ destroys' = destroys \ {s}
    /\ known' = known \ {s}
    /\ IF focus = s
       THEN /\ Post(<<Leave(s, serial + 1)>>)
            /\ focus' = Null
            /\ serial' = serial + 1
       ELSE UNCHANGED <<wire, focus, serial>>
    /\ UNCHANGED <<down, doubled, live, clientVars>>

(* wl_seat.get_keyboard: the second object is told of the focus.           *)
GetKeyboard ==
    /\ ~doubled /\ Room
    /\ doubled' = TRUE
    /\ wire' = IF focus = Null THEN wire ELSE Append(wire, Enter(focus, serial + 1))
    /\ serial' = serial + 1
    /\ UNCHANGED <<focus, down, known, destroys, live, clientVars>>

-----------------------------------------------------------------------------
(* The client.                                                             *)

DestroySurface(s) ==
    /\ s \in live \cap Destroyable
    /\ live' = live \ {s}
    /\ destroys' = destroys \cup {s}
    /\ UNCHANGED <<seatVars, wire, clientVars>>

Dispatch(type) ==
    /\ wire # <<>> /\ Head(wire).type = type
    /\ wire' = Tail(wire)
    /\ UNCHANGED <<seatVars, destroys, live>>

Resolve(s) == IF s \in live THEN s ELSE Null

keyboard_enter ==
    /\ Dispatch("enter")
    /\ keyboard_focused_surface' = Resolve(Head(wire).surface)
    /\ latest_serial' = Head(wire).serial
    /\ UNCHANGED last_key_event

keyboard_leave ==
    /\ Dispatch("leave")
    /\ keyboard_focused_surface' =
           IF keyboard_focused_surface = Resolve(Head(wire).surface) THEN Null
           ELSE keyboard_focused_surface
    /\ latest_serial' = Head(wire).serial
    /\ UNCHANGED last_key_event

keyboard_key ==
    /\ Dispatch("key")
    /\ latest_serial' = Head(wire).serial
    /\ last_key_event' = [scancode |-> Head(wire).key, is_down |-> Head(wire).is_down,
                          serial |-> Head(wire).serial]
    /\ UNCHANGED keyboard_focused_surface

Next ==
    \/ \E s \in Surfaces \cup {Null} : MoveFocus(s)
    \/ \E k \in Keys : SendKey(k)
    \/ GetKeyboard
    \/ \E s \in Destroyable : HandleDestroy(s) \/ DestroySurface(s)
    \/ keyboard_enter \/ keyboard_leave \/ keyboard_key

Spec == Init /\ [][Next]_vars

-----------------------------------------------------------------------------
(* When everything was dispatched, keyboard_focused_window() is the        *)
(* surface that has the seat's focus, and no surface that still exists is  *)
(* named for another.  (A destroyed one may be.)                           *)
FocusIsCurrent ==
    (wire = <<>> /\ destroys = {}) =>
        /\ focus # Null => keyboard_focused_surface = focus
        /\ keyboard_focused_surface \in live => keyboard_focused_surface = focus
=============================================================================
