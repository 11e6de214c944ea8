---------------------------- MODULE PointerInput ----------------------------
(***************************************************************************)
(* How a wlcs::Client follows the pointer (src/in_process_server.cpp).     *)
(* wl_pointer events are accumulated in pending_* members; a wl_pointer    *)
(* frame makes them current and tells the notifiers the test registered.   *)
(*                                                                         *)
(* The compositor (external) moves the focus of the seat, presses buttons  *)
(* and sends events over an ordered connection.  A frame may move the      *)
(* focus more than once.  The client may destroy a surface at any time:    *)
(* events already sent for it then come with a null surface, and the       *)
(* compositor, once it learns of it, takes the pointer off it with a       *)
(* leave.                                                                  *)
(*                                                                         *)
(* A further capabilities event of the seat makes seat_capabilities() ask  *)
(* for a second wl_pointer, and the first is not released: the compositor  *)
(* sends every event, or every frame, to one object and then to the other, *)
(* and both call the handlers below with the same Impl.  (More objects     *)
(* than two, and a seat that loses the capability without a leave, are not *)
(* modelled.)                                                              *)
(*                                                                         *)
(* Serials and times are left out; axis events have empty handlers.        *)
(***************************************************************************)
EXTENDS Naturals, Sequences

CONSTANTS Surfaces,   \* the client's surfaces
          Places,     \* coordinates
          Buttons,
          Observers,  \* sets of notifiers registered together by a test
          Destroyable, \* the surfaces that are destroyed
          MaxWire,    \* bound: events on the connection
          MaxCrossed, \* bound on crossed
          None, Null, Gone

VARIABLES focus, held, known,                  \* the compositor's seat
          batch,                               \* changes of focus and others in its open frame
          doubled,                             \* what is sent twice, "events" or "frames", or "no"
          later,                               \* the open frame, if it will be sent again
          crossed,                             \* changes of focus after an enter in the same frame
          wire, destroys,                      \* the connection, both ways
          live,                                \* surfaces the client has
          current_pointer_location, pending_pointer_location,
          pending_pointer_leave, pending_buttons,
          failed,                              \* has a handler FAILed the test?
          view, pressed                        \* what notifiers were told

seatVars == <<focus, held, batch, known, doubled, later, crossed>>
clientVars == <<current_pointer_location, pending_pointer_location,
                pending_pointer_leave, pending_buttons, failed>>
toldVars == <<view, pressed>>
vars == <<seatVars, wire, destroys, live, clientVars, toldVars>>

SurfaceLocation(s, p) == [surface |-> s, coordinates |-> p]
Locations == [surface : Surfaces \cup {Null}, coordinates : Places]

Init ==
    /\ focus = None /\ held = {} /\ batch = {} /\ known = Surfaces
    /\ doubled = "no" /\ later = <<>> /\ crossed = 0
    /\ wire = <<>> /\ destroys = {} /\ live = Surfaces
    /\ current_pointer_location = None
    /\ pending_pointer_location = None
    /\ pending_pointer_leave = FALSE
    /\ pending_buttons = << >>
    /\ failed = FALSE
    /\ view = [o \in Observers |-> Gone]
    /\ pressed = {}

-----------------------------------------------------------------------------
(* The compositor.                                                         *)

Post(e) ==
    /\ wire' = IF doubled = "events" THEN wire \o <<e, e>> ELSE Append(wire, e)
    /\ later' = IF doubled = "frames" THEN Append(later, e) ELSE later
    /\ UNCHANGED doubled

Room == Len(wire) < MaxWire /\ Len(later) < MaxWire /\ crossed < MaxCrossed
quietClient == UNCHANGED <<destroys, live, clientVars, toldVars>>

InFrame(e) ==
    /\ batch' = batch \cup {e}
    /\ crossed' = IF e # "other" /\ "enter" \in batch THEN crossed + 1 ELSE crossed

SendEnter(s, p) ==
    /\ Room /\ focus = None /\ s \in known
    /\ focus' = SurfaceLocation(s, p)
    /\ InFrame("enter")
    /\ Post([type |-> "enter", surface |-> s, coordinates |-> p])
    /\ UNCHANGED <<held, known>> /\ quietClient

Leave(s) ==
    /\ focus' = None
    /\ InFrame("leave")
    /\ Post([type |-> "leave", surface |-> s])

SendLeave ==
    /\ Room /\ focus # None
    /\ Leave(focus.surface)
    /\ UNCHANGED <<held, known>> /\ quietClient

SendMotion(p) ==
    /\ Room /\ focus # None /\ p # focus.coordinates
    /\ focus' = SurfaceLocation(focus.surface, p)
    /\ InFrame("other")
    /\ Post([type |-> "motion", coordinates |-> p])
    /\ UNCHANGED <<held, known>> /\ quietClient

SendButton(b) ==
    /\ Room /\ focus # None
    /\ held' = IF b \in held THEN held \ {b} ELSE held \cup {b}
    /\ InFrame("other")
    /\ Post([type |-> "button", button |-> b, down |-> b \notin held])
    /\ UNCHANGED <<focus, known>> /\ quietClient

frame == [type |-> "frame"]

SendFrame ==
    /\ batch # {}
    /\ batch' = {}
    /\ wire' = CASE doubled = "events" -> wire \o <<frame, frame>>
                 [] doubled = "frames" -> Append(wire, frame) \o Append(later, frame)
                 [] OTHER -> Append(wire, frame)
    /\ later' = <<>>
    /\ UNCHANGED <<focus, held, known, doubled, crossed>> /\ quietClient

(* wl_seat.get_pointer: the second object is told where the pointer is.    *)
GetPointer ==
    /\ doubled = "no" /\ batch = {}
    /\ doubled' \in {"events", "frames"}
    /\ wire' = IF focus = None THEN wire
               ELSE wire \o << [type |-> "enter", surface |-> focus.surface,
                                coordinates |-> focus.coordinates], frame >>
    /\ UNCHANGED <<focus, held, batch, known, crossed, later>> /\ quietClient

(* The compositor handles wl_surface.destroy, between two frames.          *)
HandleDestroy(s) ==
    /\ s \in destroys /\ batch = {}
    /\ destroys' = destroys \ {s}
    /\ known' = known \ {s}
    /\ IF focus # None /\ focus.surface = s
       THEN Leave(s)
       ELSE UNCHANGED <<focus, batch, wire, later, doubled, crossed>>
    /\ UNCHANGED <<held, live, clientVars, toldVars>>

-----------------------------------------------------------------------------
(* The client.                                                             *)

DestroySurface(s) ==
    /\ s \in live \cap Destroyable
    /\ live' = live \ {s}
    /\ destroys' = destroys \cup {s}
    /\ UNCHANGED <<seatVars, wire, clientVars, toldVars>>

(* The test registers notifiers, having looked where the pointer is.       *)
AddNotifications(o) ==
    /\ view[o] = Gone
    /\ view' = [view EXCEPT ![o] = current_pointer_location]
    /\ UNCHANGED <<seatVars, wire, destroys, live, clientVars, pressed>>

(* FAIL() records a failure and returns from the handler.                  *)
FAIL ==
    /\ failed' = TRUE
    /\ UNCHANGED <<current_pointer_location, pending_pointer_location,
                   pending_pointer_leave, pending_buttons, toldVars>>

Dispatch(type) ==
    /\ wire # <<>> /\ Head(wire).type = type
    /\ wire' = Tail(wire)
    /\ UNCHANGED <<seatVars, destroys, live>>

Resolve(s) == IF s \in live THEN s ELSE Null

(* Mutant: the check that the pointer may enter forgets the pending leave. *)
pointer_enter_leave_ignored ==
    /\ Dispatch("enter")
    /\ IF current_pointer_location # None
       THEN FAIL
       ELSE /\ pending_pointer_location' =
                   SurfaceLocation(Resolve(Head(wire).surface), Head(wire).coordinates)
            /\ UNCHANGED <<current_pointer_location, pending_pointer_leave,
                           pending_buttons, failed, toldVars>>

pointer_enter ==
    /\ Dispatch("enter")
    /\ IF current_pointer_location # None /\ ~pending_pointer_leave
       THEN FAIL
       ELSE /\ pending_pointer_location' =
                   SurfaceLocation(Resolve(Head(wire).surface), Head(wire).coordinates)
            /\ UNCHANGED <<current_pointer_location, pending_pointer_leave,
                           pending_buttons, failed, toldVars>>

(* Mutant: a motion earlier in the frame survives the leave.               *)
pointer_leave_motion_kept ==
    LET s == Resolve(Head(wire).surface)
    IN /\ Dispatch("leave")
       /\ IF \/ current_pointer_location = None
             \/ s # Null /\ s # current_pointer_location.surface
          THEN FAIL
          ELSE /\ pending_pointer_leave' = TRUE
               /\ UNCHANGED <<current_pointer_location, pending_pointer_location,
                              pending_buttons, failed, toldVars>>

(* Mutant: a leave whose surface is gone is taken for a leave of another   *)
(* surface.                                                                *)
pointer_leave_null_refused ==
    LET s == Resolve(Head(wire).surface)
    IN /\ Dispatch("leave")
       /\ IF \/ current_pointer_location = None
             \/ s # current_pointer_location.surface
          THEN FAIL
          ELSE /\ pending_pointer_location' = None
               /\ pending_pointer_leave' = TRUE
               /\ UNCHANGED <<current_pointer_location, pending_buttons, failed, toldVars>>

pointer_leave ==
    LET s == Resolve(Head(wire).surface)
    IN /\ Dispatch("leave")
       /\ IF \/ current_pointer_location = None
             \/ s # Null /\ s # current_pointer_location.surface
          THEN FAIL
          ELSE /\ pending_pointer_location' = None
               /\ pending_pointer_leave' = TRUE
               /\ UNCHANGED <<current_pointer_location, pending_buttons, failed, toldVars>>

pointer_motion ==
    LET from == IF pending_pointer_location # None THEN pending_pointer_location
                ELSE current_pointer_location
    IN /\ Dispatch("motion")
       /\ IF from = None
          THEN FAIL
          ELSE /\ pending_pointer_location' =
                      SurfaceLocation(from.surface, Head(wire).coordinates)
               /\ UNCHANGED <<current_pointer_location, pending_pointer_leave,
                              pending_buttons, failed, toldVars>>

(* pending_buttons is a map: a later event for a button replaces an earlier. *)
pointer_button ==
    /\ Dispatch("button")
    /\ pending_buttons' = [b \in DOMAIN pending_buttons \cup {Head(wire).button} |->
                                IF b = Head(wire).button THEN Head(wire).down
                                ELSE pending_buttons[b]]
    /\ UNCHANGED <<current_pointer_location, pending_pointer_location,
                   pending_pointer_leave, failed, toldVars>>

(* What an observer knows after the notifications of a frame: a leave, then *)
(* an enter or a motion.                                                    *)
Told(before, left, moved) ==
    LET onSurface == IF left THEN None ELSE before
    IN IF moved = None THEN onSurface
       ELSE IF onSurface = None THEN moved
       ELSE SurfaceLocation(onSurface.surface, moved.coordinates)

(* A notifier that returns false is erased from its vector.                *)
Notify(left, moved) ==
    \E declining \in SUBSET Observers :
        /\ (~left /\ moved = None) => declining = {}
        /\ view' = [o \in Observers |-> IF view[o] = Gone \/ o \in declining THEN Gone
                                        ELSE Told(view[o], left, moved)]

(* Mutant: a frame in which the pointer left and entered tells only the    *)
(* enter.                                                                  *)
pointer_frame_leave_not_told ==
    LET left == pending_pointer_leave
        stays == IF left THEN None ELSE current_pointer_location
    IN /\ Dispatch("frame")
       /\ IF left /\ current_pointer_location = None
          THEN FAIL
          ELSE /\ current_pointer_location' = IF pending_pointer_location # None
                                              THEN pending_pointer_location ELSE stays
               /\ pending_pointer_location' = None
               /\ pending_pointer_leave' = FALSE
               /\ Notify(left /\ pending_pointer_location = None, pending_pointer_location)
               /\ pressed' = (pressed \ { b \in DOMAIN pending_buttons : ~pending_buttons[b] })
                             \cup { b \in DOMAIN pending_buttons : pending_buttons[b] }
               /\ pending_buttons' = << >>
               /\ UNCHANGED failed

pointer_frame ==
    LET left == pending_pointer_leave
        stays == IF left THEN None ELSE current_pointer_location
    IN /\ Dispatch("frame")
       /\ IF left /\ current_pointer_location = None
          THEN FAIL
          ELSE /\ current_pointer_location' = IF pending_pointer_location # None
                                              THEN pending_pointer_location ELSE stays
               /\ pending_pointer_location' = None
               /\ pending_pointer_leave' = FALSE
               /\ Notify(left, pending_pointer_location)
               /\ pressed' = (pressed \ { b \in DOMAIN pending_buttons : ~pending_buttons[b] })
                             \cup { b \in DOMAIN pending_buttons : pending_buttons[b] }
               /\ pending_buttons' = << >>
               /\ UNCHANGED failed

Handle == pointer_enter \/ pointer_leave \/ pointer_motion \/ pointer_button \/ pointer_frame

Next ==
    \/ \E s \in Surfaces, p \in Places : SendEnter(s, p)
    \/ SendLeave
    \/ \E p \in Places : SendMotion(p)
    \/ \E b \in Buttons : SendButton(b)
    \/ SendFrame
    \/ GetPointer
    \/ \E s \in Surfaces : HandleDestroy(s) \/ DestroySurface(s)
    \/ \E o \in Observers : AddNotifications(o)
    \/ Handle

(* The client dispatches what it receives; the compositor ends its frames  *)
(* and handles every request it receives in the end.                       *)
Fairness ==
    /\ WF_vars(Handle) /\ WF_vars(SendFrame)
    /\ \A s \in Surfaces : SF_vars(HandleDestroy(s))

Spec == Init /\ [][Next]_vars /\ Fairness

-----------------------------------------------------------------------------
(* window_under_cursor(), pointer_position(), which throws when there is   *)
(* none, and pointer_events_pending().                                     *)
window_under_cursor ==
    IF current_pointer_location = None THEN Null ELSE current_pointer_location.surface

pointer_position ==
    IF current_pointer_location = None THEN None ELSE current_pointer_location.coordinates

pointer_events_pending == pending_buttons # << >> \/ pending_pointer_location # None

(* Type invariant of the members of Client::Impl that follow the pointer;  *)
(* a pending leave needs a surface to leave.                               *)
TypeOK ==
    /\ focus \in Locations \cup {None} /\ held \subseteq Buttons
    /\ known \subseteq Surfaces /\ live \subseteq Surfaces /\ destroys \subseteq Surfaces
    /\ current_pointer_location \in Locations \cup {None}
    /\ pending_pointer_location \in Locations \cup {None}
    /\ pending_pointer_leave \in BOOLEAN /\ failed \in BOOLEAN
    /\ pending_pointer_leave => current_pointer_location # None
    /\ DOMAIN pending_buttons \subseteq Buttons
    /\ \A b \in DOMAIN pending_buttons : pending_buttons[b] \in BOOLEAN
    /\ view \in [Observers -> Locations \cup {None, Gone}]
    /\ pressed \subseteq Buttons

(* A pointer handler FAILs the test only if the client was given a second  *)
(* wl_pointer, or if a frame moved the focus on after an enter; whatever   *)
(* surfaces the test destroys meanwhile.                                   *)
NoSpuriousFailure == failed => doubled # "no" \/ crossed > 0

(* When every event was dispatched and no frame is open, the client is     *)
(* where the seat's pointer is and notifiers were told of every button,    *)
(* unless a frame moved the focus on after an enter.                       *)
FollowsSeat ==
    (wire = <<>> /\ batch = {} /\ destroys = {} /\ crossed = 0) =>
        /\ focus = None => window_under_cursor = Null
        /\ focus # None => window_under_cursor = focus.surface /\ pointer_position = focus.coordinates
        /\ ~pointer_events_pending /\ ~pending_pointer_leave
        /\ pressed = held

(* Whoever watches the enter, leave and motion notifications knows where   *)
(* window_under_cursor() and pointer_position() say the pointer is.        *)
NotificationsAgree ==
    \A o \in Observers : view[o] \in {Gone, current_pointer_location}

(* The pointer does not stay on a destroyed surface, unless a frame moved  *)
(* the focus on after an enter.                                            *)
DanglingEnds ==
    \A s \in Surfaces :
        (current_pointer_location # None /\ current_pointer_location.surface = s /\ s \notin live)
            ~> (current_pointer_location = None \/ current_pointer_location.surface # s \/ crossed > 0)
=============================================================================
