---------------------------- MODULE InputMethods ----------------------------
(***************************************************************************)
(* InputMethod (src/input_method.cpp): one interface through which a test  *)
(* presses, moves and releases a pointer's left button or a finger, and    *)
(* asks a client which of its surfaces that is on and where.               *)
(*                                                                         *)
(* A Device keeps whether it is down and refuses, with a failure that ends *)
(* the call but not the test, what does not fit.  Its calls become hooks   *)
(* of the integration.  The server, external, keeps a button that is       *)
(* pressed or a finger that is down on the surface where it began and      *)
(* tells the client; handlers, which other modules cover, leave the client *)
(* with what the last event says.  Places have one dimension.              *)
(***************************************************************************)
EXTENDS Integers, Sequences

CONSTANTS Positions,    \* where the test points, integers
          Windows,      \* the surfaces, named by the place of their left edge
          Width,        \* of each of them
          None,
          MaxCalls      \* bound on the calls of the test

VARIABLES method,       \* "pointer" or "touch"
          is_down,      \* button_down or is_down of the device
          hooks,        \* the hooks the call in progress has yet to make
          at, grab,     \* the server: the place, in wl_fixed_t; the surface kept while down, or Up
          wire, view,   \* what the client is to be told; what it knows: surface and local place
          began, last,  \* history: the places of the latest press and of the latest call
          calls

vars == <<method, is_down, hooks, at, grab, wire, view, began, last, calls>>

Up == <<>>

wl_fixed_from_int(i) == 256 * i

wl_fixed_to_int(f) == IF f < 0 THEN -((-f) \div 256) ELSE f \div 256

(* The surface at a place, or None.                                        *)
WindowAt(f) ==
    LET found == {w \in Windows : (f \div 256) \in w .. w + Width - 1}
    IN IF found = {} THEN None ELSE CHOOSE w \in found : TRUE

(* What a client is told of a place on a surface.                          *)
On(w, f) == <<w, IF w = None THEN 0 ELSE f - wl_fixed_from_int(w)>>

Nowhere == On(None, 0)

(* create_device() of one of all_input_methods(); the pointer is somewhere *)
(* off the surfaces.                                                       *)
Init ==
    /\ method \in {"pointer", "touch"}
    /\ is_down = FALSE /\ hooks = <<>>
    /\ at = wl_fixed_from_int(-1) /\ grab = Up
    /\ wire = <<>> /\ view = Nowhere
    /\ began = -1 /\ last = -1 /\ calls = 0

-----------------------------------------------------------------------------
(* wlcs::Pointer: the hooks of move_to() and of the left button.           *)
move_to(x) == <<"move_absolute", wl_fixed_from_int(x)>>
left_button_down == <<"button_down", 0>>
left_button_up == <<"button_up", 0>>

(* Mutant: the button is pressed before the pointer is there.              *)
Pointer_down_at_early(x) == <<left_button_down, move_to(x)>>

(* PointerInputMethod::Pointer.                                            *)
Pointer_down_at(x) == <<move_to(x), left_button_down>>
Pointer_move_to(x) == <<move_to(x)>>
Pointer_up == <<left_button_up>>

(* TouchInputMethod::Touch; the hooks take integers.                       *)
Touch_down_at(x) == << <<"touch_down", x>> >>
Touch_move_to(x) == << <<"touch_move", x>> >>
Touch_up == << <<"touch_up", 0>> >>

(* The test calls down_at(), move_to() or up(): the assertion fails and    *)
(* nothing is done, or the hooks are called and is_down is set.            *)
Call(when, pointer, touch, after) ==
    /\ hooks = <<>> /\ calls < MaxCalls
    /\ calls' = calls + 1
    /\ IF is_down # when
         THEN UNCHANGED <<is_down, hooks>>
         ELSE /\ hooks' = IF method = "pointer" THEN pointer ELSE touch
              /\ is_down' = after
    /\ UNCHANGED <<method, at, grab, wire, view>>

down_at(x) ==
    /\ Call(FALSE, Pointer_down_at(x), Touch_down_at(x), TRUE)
    /\ last' = IF is_down THEN last ELSE x
    /\ began' = IF is_down THEN began ELSE x

DeviceMoveTo(x) ==
    /\ Call(TRUE, Pointer_move_to(x), Touch_move_to(x), TRUE)
    /\ last' = IF is_down THEN x ELSE last
    /\ UNCHANGED began

up ==
    /\ Call(TRUE, Pointer_up, Touch_up, FALSE)
    /\ UNCHANGED <<began, last>>

-----------------------------------------------------------------------------
Tell(v) == wire' = Append(wire, v)

(* The server acts on the next hook.                                       *)
Hook ==
    /\ hooks # <<>>
    /\ hooks' = Tail(hooks)
    /\ LET name == Head(hooks)[1]
           x == Head(hooks)[2]
       IN \/ /\ name = "move_absolute" /\ at' = x
             /\ Tell(On(IF grab = Up THEN WindowAt(x) ELSE grab[1], x))
             /\ UNCHANGED grab
          \/ /\ name = "button_down" /\ grab' = <<WindowAt(at)>>
             /\ UNCHANGED <<at, wire>>
          \/ /\ name = "button_up" /\ grab' = Up
             /\ Tell(On(WindowAt(at), at)) /\ UNCHANGED at
          \/ /\ name = "touch_down" /\ at' = wl_fixed_from_int(x)
             /\ grab' = <<WindowAt(at')>> /\ Tell(On(WindowAt(at'), at'))
          \/ /\ name = "touch_move" /\ at' = wl_fixed_from_int(x)
             /\ Tell(On(grab[1], at')) /\ UNCHANGED grab
          \/ /\ name = "touch_up" /\ grab' = Up
             /\ Tell(Nowhere) /\ UNCHANGED at
    /\ UNCHANGED <<method, is_down, view, began, last, calls>>

(* The client dispatches an event.                                         *)
Dispatch ==
    /\ hooks = <<>> /\ wire # <<>>
    /\ view' = Head(wire)
    /\ wire' = Tail(wire)
    /\ UNCHANGED <<method, is_down, hooks, at, grab, began, last, calls>>

Next ==
    \/ \E x \in Positions : down_at(x) \/ DeviceMoveTo(x)
    \/ up \/ Hook \/ Dispatch

Spec == Init /\ [][Next]_vars

-----------------------------------------------------------------------------
(* current_surface() and position_on_surface() of the two methods.         *)
current_surface == view[1]
position_on_surface == wl_fixed_to_int(view[2])

(* A test need not know which input method it uses: once its call is over  *)
(* and everything dispatched, a device that is down is on the surface      *)
(* where it was put down, at the place it was moved to last, on or off     *)
(* that surface, whatever calls were refused in between; a pointer that is *)
(* up is on the surface under it, and a finger that is up on none.         *)
MethodsAgree ==
    (hooks = <<>> /\ wire = <<>>) =>
        LET put == wl_fixed_from_int(IF is_down THEN began ELSE last)
            on == IF is_down \/ method = "pointer" THEN WindowAt(put) ELSE None
        IN /\ is_down = (grab # Up)
           /\ current_surface = on
           /\ on # None => position_on_surface = last - on
=============================================================================
