---------------------------- MODULE ClientInput ----------------------------
(***************************************************************************)
(* The listeners of a client's seat: seat_capabilities and the             *)
(* pointer, touch and keyboard handlers, and the input methods on top of   *)
(* them.  The objects of one kind share a listener and its members of      *)
(* Client::Impl; that a capabilities event gives the client a second       *)
(* object is a step of that listener (GetPointer, GetTouch, GetKeyboard).  *)
(* Handlers of two kinds share no member but latest_serial_, which no      *)
(* property below is about, and every handler runs to its end, so their    *)
(* steps commute: what one listener can reach does not depend on the       *)
(* others.  A behaviour is therefore one of a single listener, or of an    *)
(* input method.                                                           *)
(***************************************************************************)
EXTENDS Integers, Sequences

CONSTANTS Surfaces, Destroyable, KeyboardSurfaces, Places, Buttons, Observers, Ids, Keys,
          Positions, Windows, Width,
          None, Null, Gone,
          PointerWire, TouchWire, KeyboardWire, MaxCrossed, MaxSerial, SeatEvents, MethodCalls   \* bounds

(* No surface is null, no location is the empty optional, and what the     *)
(* getters answer with is no surface.                                      *)
ASSUME InputAssumption ==
    /\ Null \notin Surfaces \cup KeyboardSurfaces
    /\ None \notin [surface : Surfaces \cup {Null}, coordinates : Places]
    /\ {"nullptr", "Multiple surfaces have active touches"} \cap Surfaces = {}

VARIABLES listener,   \* the one that runs
          focus, held, batch, known, doubled, later, crossed, wire, destroys, live,
          current_pointer_location, pending_pointer_location, pending_pointer_leave,
          pending_buttons, failed, view, pressed,
          touches, touchBatch, touchDoubled, touchLater, touchCrossed, touchWire,
          current_touches, pending_touches, pending_up_touches, touchFailed,
          keyFocus, down, serial, keyKnown, keyDoubled, keyWire, keyDestroys, keyLive,
          keyboard_focused_surface, latest_serial, last_key_event,
          capabilities, had, receiving, events, seatWire, requests, member, made, error,
          method, is_down, hooks, at, grab, methodWire, methodView, began, last, methodCalls

Pointer == INSTANCE PointerInput WITH MaxWire <- PointerWire

Touch == INSTANCE TouchInput WITH
    MaxWire <- TouchWire,
    batch <- touchBatch, doubled <- touchDoubled, later <- touchLater, crossed <- touchCrossed,
    wire <- touchWire, failed <- touchFailed

Keyboard == INSTANCE KeyboardInput WITH
    Surfaces <- KeyboardSurfaces, MaxWire <- KeyboardWire,
    focus <- keyFocus, known <- keyKnown, doubled <- keyDoubled,
    wire <- keyWire, destroys <- keyDestroys, live <- keyLive

Seat == INSTANCE SeatObjects WITH MaxEvents <- SeatEvents, wire <- seatWire

Method == INSTANCE InputMethods WITH
    MaxCalls <- MethodCalls, calls <- methodCalls, wire <- methodWire, view <- methodView

(* Places are integers, a surface is not the absence of one, and a pointer *)
(* starts off the surfaces.                                                *)
ASSUME WindowsAssumption ==
    /\ Positions \subseteq Int /\ Windows \subseteq Int /\ Width \in Nat /\ None \notin Windows
    /\ Method!WindowAt(Method!wl_fixed_from_int(-1)) = None

pointerVars == <<focus, held, batch, known, doubled, later, crossed, wire, destroys, live,
                 current_pointer_location, pending_pointer_location, pending_pointer_leave,
                 pending_buttons, failed, view, pressed>>
touchVars == <<touches, touchBatch, touchDoubled, touchLater, touchCrossed, touchWire,
               current_touches, pending_touches, pending_up_touches, touchFailed>>
keyboardVars == <<keyFocus, down, serial, keyKnown, keyDoubled, keyWire, keyDestroys, keyLive,
                  keyboard_focused_surface, latest_serial, last_key_event>>
seatVars == <<capabilities, had, receiving, events, seatWire, requests, member, made, error>>
methodVars == <<method, is_down, hooks, at, grab, methodWire, methodView, began, last, methodCalls>>
inputVars == <<listener, pointerVars, touchVars, keyboardVars, seatVars, methodVars>>

InputInit ==
    /\ listener \in {"pointer", "touch", "keyboard", "seat", "method"}
    /\ Pointer!Init /\ Touch!Init /\ Keyboard!Init
    /\ Seat!Init /\ Method!Init
    /\ listener # "seat" => capabilities = {}
    /\ listener # "method" => method = "pointer"

InputNext ==
    /\ UNCHANGED listener
    /\ \/ /\ listener = "pointer" /\ Pointer!Next
          /\ UNCHANGED <<touchVars, keyboardVars, seatVars, methodVars>>
       \/ /\ listener = "touch" /\ Touch!Next
          /\ UNCHANGED <<pointerVars, keyboardVars, seatVars, methodVars>>
       \/ /\ listener = "keyboard" /\ Keyboard!Next
          /\ UNCHANGED <<pointerVars, touchVars, seatVars, methodVars>>
       \/ /\ listener = "seat" /\ Seat!Next
          /\ UNCHANGED <<pointerVars, touchVars, keyboardVars, methodVars>>
       \/ /\ listener = "method" /\ Method!Next
          /\ UNCHANGED <<pointerVars, touchVars, keyboardVars, seatVars>>

InputSpec == InputInit /\ [][InputNext]_inputVars /\ Pointer!Fairness

-----------------------------------------------------------------------------
(* A handler FAILs the test only if the client was made to ask for a       *)
(* second object of its kind, or if one frame moved the pointer on after   *)
(* an enter or had several kinds of events for a touch point; whatever     *)
(* surfaces the test destroys meanwhile.  The seat never raises a protocol *)
(* error for an object of a capability it never had.                       *)
NoSpuriousFailure ==
    Pointer!NoSpuriousFailure /\ Touch!NoSpuriousFailure /\ Seat!NeverMissing

(* When everything was dispatched and no frame is open, second objects or  *)
(* not, but for a frame that moved the pointer on after an enter or had    *)
(* several kinds of events for a touch point:                              *)
(* current_pointer_location is where the seat's pointer is, notifiers were *)
(* told of every button, current_touches is what the seat has, and         *)
(* touched_window() names a surface that is touched.  Then                 *)
(* keyboard_focused_window() is the surface with the focus, and no surface *)
(* that exists is named for another.                                       *)
FollowsSeat == Pointer!FollowsSeat /\ Touch!FollowsSeat /\ Keyboard!FocusIsCurrent

(* Whoever watches the enter, leave and motion notifications knows where   *)
(* window_under_cursor() and pointer_position() say the pointer is.        *)
NotificationsAgree == Pointer!NotificationsAgree

(* window_under_cursor() stops naming a surface that the test destroyed,   *)
(* but for a frame that moved the pointer on after an enter.               *)
DanglingEnds == Pointer!DanglingEnds

(* Once everything has arrived, the object the client holds for a          *)
(* capability the seat has is one that receives its events.                *)
MemberReceives == Seat!MemberReceives

(* A test need not know which input method it uses: once its call is over  *)
(* and everything dispatched, a device that is down is on the surface      *)
(* where it was put down, at the place it was moved to last, whatever      *)
(* calls were refused in between; a pointer that is up is on the surface   *)
(* under it, and a finger that is up on none.                              *)
MethodsAgree == Method!MethodsAgree
=============================================================================
