----------------------------- MODULE TouchInput -----------------------------
(***************************************************************************)
(* How a wlcs::Client follows the touch points of the seat                 *)
(* (src/in_process_server.cpp): down and motion events are collected in    *)
(* pending_touches, up events in pending_up_touches, and a frame applies   *)
(* the ups and then the others to current_touches.                         *)
(*                                                                         *)
(* The compositor (external) puts fingers down, moves and lifts them, in   *)
(* frames that may have several events for a touch point.  When the client *)
(* was made to ask for a second wl_touch, it sends every event, or every   *)
(* frame, to one object and then to the other.  The listener has no        *)
(* handler for cancel, shape and orientation, which the compositor         *)
(* therefore never sends.                                                  *)
(***************************************************************************)
EXTENDS Naturals, Sequences

CONSTANTS Ids,       \* touch point ids
          Surfaces, Places,
          MaxWire,    \* bound: events on the connection
          MaxCrossed  \* bound on crossed

VARIABLES touches,                    \* the seat: points that are down
          batch,                      \* what its open frame has for each of them
          doubled,                    \* what is sent twice, "events" or "frames", or "no"
          later,                      \* the open frame, if it will be sent again
          crossed,                    \* events after another kind for the point in the frame
          wire,
          current_touches, pending_touches, pending_up_touches,
          failed                      \* has a handler FAILed the test?

clientVars == <<current_touches, pending_touches, pending_up_touches, failed>>
seatVars == <<touches, batch, doubled, later, crossed>>
vars == <<seatVars, wire, clientVars>>

SurfaceLocation(s, p) == [surface |-> s, coordinates |-> p]
Locations == [surface : Surfaces, coordinates : Places]
Maps == UNION { [D -> Locations] : D \in SUBSET Ids }
With(f, j, t) == [i \in DOMAIN f \cup {j} |-> IF i = j THEN t ELSE f[i]]

Init ==
    /\ touches = << >> /\ batch = [i \in Ids |-> "nothing"] /\ wire = <<>>
    /\ doubled = "no" /\ later = <<>> /\ crossed = 0
    /\ current_touches = << >>
    /\ pending_touches = << >>
    /\ pending_up_touches = {}
    /\ failed = FALSE

-----------------------------------------------------------------------------
(* The compositor.                                                         *)

Post(e) ==
    /\ wire' = IF doubled = "events" THEN wire \o <<e, e>> ELSE Append(wire, e)
    /\ later' = IF doubled = "frames" THEN Append(later, e) ELSE later
    /\ UNCHANGED doubled

Alone(i, e) == batch[i] = "nothing" \/ (batch[i] = "motion" /\ e = "motion")

InFrame(i, e) ==
    /\ Len(wire) < MaxWire /\ Len(later) < MaxWire /\ crossed < MaxCrossed
    /\ crossed' = IF Alone(i, e) THEN crossed ELSE crossed + 1
    /\ batch' = [batch EXCEPT ![i] = e]

SendDown(i, s, p) ==
    /\ i \notin DOMAIN touches /\ InFrame(i, "down")
    /\ touches' = With(touches, i, SurfaceLocation(s, p))
    /\ Post([type |-> "down", id |-> i, surface |-> s, coordinates |-> p])
    /\ UNCHANGED clientVars

SendMotion(i, p) ==
    /\ i \in DOMAIN touches /\ InFrame(i, "motion")
    /\ touches' = [touches EXCEPT ![i] = SurfaceLocation(@.surface, p)]
    /\ Post([type |-> "motion", id |-> i, coordinates |-> p])
    /\ UNCHANGED clientVars

SendUp(i) ==
    /\ i \in DOMAIN touches /\ InFrame(i, "up")
    /\ touches' = [j \in DOMAIN touches \ {i} |-> touches[j]]
    /\ Post([type |-> "up", id |-> i])
    /\ UNCHANGED clientVars

Between == \A i \in Ids : batch[i] = "nothing"

frame == [type |-> "frame"]

SendFrame ==
    /\ ~Between
    /\ batch' = [i \in Ids |-> "nothing"]
    /\ wire' = CASE doubled = "events" -> wire \o <<frame, frame>>
                 [] doubled = "frames" -> Append(wire, frame) \o Append(later, frame)
                 [] OTHER -> Append(wire, frame)
    /\ later' = <<>>
    /\ UNCHANGED <<touches, doubled, crossed, clientVars>>

(* wl_seat.get_touch: nothing is sent for the touches that are down.       *)
GetTouch ==
    /\ doubled = "no" /\ Between
    /\ doubled' \in {"events", "frames"}
    /\ UNCHANGED <<touches, batch, later, crossed, wire, clientVars>>

-----------------------------------------------------------------------------
(* The client.                                                             *)

Dispatch(type) ==
    /\ wire # <<>> /\ Head(wire).type = type
    /\ wire' = Tail(wire)
    /\ UNCHANGED seatVars

(* FAIL() records a failure and returns from the handler.                  *)
FAIL ==
    /\ failed' = TRUE
    /\ UNCHANGED <<current_touches, pending_touches, pending_up_touches>>

touch_down ==
    LET i == Head(wire).id
    IN /\ Dispatch("down")
       /\ IF i \in DOMAIN current_touches
          THEN FAIL
          ELSE /\ pending_touches' =
                      With(pending_touches, i,
                           SurfaceLocation(Head(wire).surface, Head(wire).coordinates))
               /\ UNCHANGED <<current_touches, pending_up_touches, failed>>

touch_up ==
    LET i == Head(wire).id
    IN /\ Dispatch("up")
       /\ IF i \notin DOMAIN current_touches
          THEN FAIL
          ELSE /\ pending_up_touches' = pending_up_touches \cup {i}
               /\ UNCHANGED <<current_touches, pending_touches, failed>>

touch_motion ==
    LET i == Head(wire).id
    IN /\ Dispatch("motion")
       /\ IF i \notin DOMAIN current_touches
          THEN FAIL
          ELSE /\ pending_touches' =
                      With(pending_touches, i,
                           SurfaceLocation(current_touches[i].surface, Head(wire).coordinates))
               /\ UNCHANGED <<current_touches, pending_up_touches, failed>>

touch_frame ==
    /\ Dispatch("frame")
    /\ LET kept == DOMAIN current_touches \ pending_up_touches
       IN current_touches' = [i \in DOMAIN pending_touches \cup kept |->
                                  IF i \in DOMAIN pending_touches THEN pending_touches[i]
                                  ELSE current_touches[i]]
    /\ pending_up_touches' = {}
    /\ pending_touches' = << >>
    /\ UNCHANGED failed

Next ==
    \/ \E i \in Ids, s \in Surfaces, p \in Places : SendDown(i, s, p)
    \/ \E i \in Ids, p \in Places : SendMotion(i, p)
    \/ \E i \in Ids : SendUp(i)
    \/ SendFrame
    \/ GetTouch
    \/ touch_down \/ touch_up \/ touch_motion \/ touch_frame

Spec == Init /\ [][Next]_vars

-----------------------------------------------------------------------------
(* touched_window(): the surface of every current touch, or the exception  *)
(* for touches on several surfaces.                                        *)
touched_window ==
    LET on == { current_touches[i].surface : i \in DOMAIN current_touches }
    IN IF on = {} THEN "nullptr"
       ELSE IF \E s \in on : on = {s} THEN CHOOSE s \in on : TRUE
       ELSE "Multiple surfaces have active touches"

(* touch_position(), which throws unless there is one touch, and           *)
(* touch_events_pending().                                                 *)
touch_position ==
    IF DOMAIN current_touches = {} THEN "No touches"
    ELSE IF \E i \in Ids : DOMAIN current_touches = {i}
         THEN current_touches[CHOOSE i \in DOMAIN current_touches : TRUE].coordinates
         ELSE "More than one touches"

touch_events_pending == DOMAIN pending_touches # {} \/ pending_up_touches # {}

-----------------------------------------------------------------------------
(* Type invariant of the members that follow the touches; an up is pending *)
(* only for a current touch, and in frames with one kind of event per      *)
(* point no touch is both pending and going up.                            *)
TypeOK ==
    /\ touches \in Maps /\ current_touches \in Maps /\ pending_touches \in Maps
    /\ pending_up_touches \subseteq DOMAIN current_touches
    /\ crossed = 0 => DOMAIN pending_touches \cap pending_up_touches = {}
    /\ failed \in BOOLEAN

(* A touch handler FAILs the test only if the client was given a second    *)
(* wl_touch, or if a frame had several kinds of events for a touch point.  *)
NoSpuriousFailure == failed => doubled # "no" \/ crossed > 0

(* When everything was dispatched and no frame is open, current_touches    *)
(* is what the seat has: a point that was lifted is gone, the others are   *)
(* where they are, touched_window() names a surface that is touched, and   *)
(* touch_position() of a single touch is where it is; unless a frame had   *)
(* several kinds of events for a touch point.                              *)
FollowsSeat ==
    (wire = <<>> /\ Between /\ crossed = 0) =>
        /\ current_touches = touches /\ ~touch_events_pending
        /\ \A i \in Ids : DOMAIN touches = {i} => touch_position = touches[i].coordinates
        /\ touched_window \in Surfaces => \E i \in DOMAIN touches : touches[i].surface = touched_window
=============================================================================
