------------------------------ MODULE MirInput ------------------------------
(***************************************************************************)
(* How the example integration injects input                               *)
(* (example/mir_integration.cpp): emit_mir_event() stamps an event, notes  *)
(* the time in expected_events, hands the event to Mir and waits for the   *)
(* seat observer to see an event of that time, for at most a_long_time.    *)
(* The pointer is moved to a place by moving it relative to where the      *)
(* integration believes the cursor to be.                                  *)
(*                                                                         *)
(* Mir (external) handles input on a thread of its own: it moves the       *)
(* cursor, tells the cursor listener at once, and has the observer told of *)
(* the cursor and then of the event, in order, on the Wayland thread.      *)
(* Places are one-dimensional; the output is 0 .. Edge.                    *)
(***************************************************************************)
EXTENDS Integers, Sequences

CONSTANTS Edge,
          MaxEvents, MaxTime, MaxTimeouts   \* bounds

VARIABLES now,                   \* the steady clock
          inputs, observations,  \* what Mir's threads have still to do
          position,              \* where Mir has the cursor
          cursor,                \* runner->cursor_x
          expected_events,       \* pairs of a time and the event that waits for it
          raised,                \* the events whose signals are raised
          waiting,               \* the event the test's thread waits for, or 0
          last,                  \* the last call: its kind, target and result, and
                                 \* whether Mir was at rest when it was made
          last_x,                \* FakeTouch::last_x
          touched,               \* Mir's contact: its place, or NotTouching
          emitted, seen, timeouts,  \* history
          releasedAt                \* history: where Mir's last release was, and the contact

vars == <<now, inputs, observations, position, cursor, expected_events, raised, waiting, last,
          last_x, touched, emitted, seen, timeouts, releasedAt>>

touchVars == <<last_x, touched, releasedAt>>

NotTouching == -1

Init ==
    /\ now = 0 /\ inputs = <<>> /\ observations = <<>>
    /\ position = 0 /\ cursor = 0 /\ expected_events = {} /\ raised = {}
    /\ waiting = 0 /\ last = [kind |-> "none", target |-> 0, ok |-> FALSE, settled |-> TRUE]
    /\ last_x = 0 /\ touched = NotTouching
    /\ emitted = 0 /\ seen = {} /\ timeouts = 0 /\ releasedAt = <<0, 0>>

wl_fixed_from_int(i) == i * 256

(* A C division: towards zero.                                             *)
wl_fixed_to_int(f) == IF f < 0 THEN -((-f) \div 256) ELSE f \div 256

Clamped(x) == IF x < 0 THEN 0 ELSE IF x > Edge THEN Edge ELSE x

(* Mir has handled every event and told of every place of the cursor.      *)
Settled == inputs = <<>> /\ \A n \in DOMAIN observations : observations[n][1] # "cursor"

-----------------------------------------------------------------------------
(* Mutant: any event may answer, whatever its time.                        *)
emit_mir_event_untimed(kind, target, amount) ==
    /\ waiting = 0 /\ emitted < MaxEvents
    /\ emitted' = emitted + 1
    /\ expected_events' = { <<t, emitted'>> : t \in 0 .. MaxTime }
    /\ inputs' = Append(inputs, [kind |-> kind, amount |-> amount, time |-> now, event |-> emitted'])
    /\ waiting' = emitted'
    /\ last' = [kind |-> kind, target |-> target, ok |-> FALSE, settled |-> Settled]
    /\ UNCHANGED <<now, observations, position, cursor, raised, seen, timeouts, touched, releasedAt>>

(* emit_mir_event() up to its wait; insert() keeps an entry that is there. *)
emit_mir_event(kind, target, amount) ==
    /\ waiting = 0 /\ emitted < MaxEvents
    /\ emitted' = emitted + 1
    /\ expected_events' = IF \E e \in expected_events : e[1] = now THEN expected_events
                          ELSE expected_events \cup { <<now, emitted'>> }
    /\ inputs' = Append(inputs, [kind |-> kind, amount |-> amount, time |-> now, event |-> emitted'])
    /\ waiting' = emitted'
    /\ last' = [kind |-> kind, target |-> target, ok |-> FALSE, settled |-> Settled]
    /\ UNCHANGED <<now, observations, position, cursor, raised, seen, timeouts, touched, releasedAt>>

pointer_move_relative(dx) ==
    /\ emit_mir_event("relative", 0, wl_fixed_to_int(dx))
    /\ UNCHANGED last_x

(* Mutant: the place is taken for a movement.                              *)
pointer_move_absolute_raw(x) ==
    /\ emit_mir_event("absolute", x \div 256, wl_fixed_to_int(x))
    /\ UNCHANGED last_x

(* The movement is the distance from where the cursor is believed to be.   *)
pointer_move_absolute(x) ==
    /\ emit_mir_event("absolute", x \div 256, wl_fixed_to_int(x - wl_fixed_from_int(cursor)))
    /\ UNCHANGED last_x

pointer_button ==
    /\ emit_mir_event("button", 0, 0)
    /\ UNCHANGED last_x

touch_down(x) ==
    /\ emit_mir_event("down", 0, x)
    /\ last_x' = x

touch_move(x) ==
    /\ emit_mir_event("motion", 0, x)
    /\ last_x' = x

(* The release is where the last touch event was.                          *)
touch_up ==
    /\ emit_mir_event("up", 0, last_x)
    /\ UNCHANGED last_x

(* wait_for() returns with the signal raised ...                           *)
WaitRaised ==
    /\ waiting \in raised
    /\ waiting' = 0
    /\ last' = [last EXCEPT !.ok = TRUE]
    /\ UNCHANGED <<now, inputs, observations, position, cursor, expected_events, raised, emitted,
                   seen, timeouts, touchVars>>

(* ... or after a_long_time; the entry stays.                              *)
WaitTimesOut ==
    /\ waiting # 0 /\ waiting \notin raised
    /\ timeouts < MaxTimeouts /\ now < MaxTime
    /\ timeouts' = timeouts + 1
    /\ now' = now + 1
    /\ waiting' = 0
    /\ UNCHANGED <<inputs, observations, position, cursor, expected_events, raised, last, emitted,
                   seen, touchVars>>

Tick ==
    /\ now < MaxTime
    /\ now' = now + 1
    /\ UNCHANGED <<inputs, observations, position, cursor, expected_events, raised, waiting, last,
                   emitted, seen, timeouts, touchVars>>

-----------------------------------------------------------------------------
(* Mir handles an input event.                                             *)
HandlePointer ==
    /\ inputs # <<>> /\ Head(inputs).kind \in {"relative", "absolute"}
    /\ inputs' = Tail(inputs)
    /\ position' = Clamped(position + Head(inputs).amount)
    /\ cursor' = position'                   \* cursor_moved_to()
    /\ observations' = observations \o << <<"cursor", position'>>,
                                          <<"event", Head(inputs).time, Head(inputs).event>> >>
    /\ UNCHANGED <<now, expected_events, raised, waiting, last, emitted, seen, timeouts, touchVars>>

HandleOther ==
    /\ inputs # <<>> /\ Head(inputs).kind \notin {"relative", "absolute"}
    /\ inputs' = Tail(inputs)
    /\ LET i == Head(inputs)
           touching == touched # NotTouching
       IN /\ touched' = CASE i.kind = "down" \/ (i.kind = "motion" /\ touching) -> i.amount
                          [] i.kind = "up" -> NotTouching
                          [] OTHER -> touched
          /\ releasedAt' = IF i.kind = "up" /\ touching THEN <<i.amount, touched>> ELSE releasedAt
          /\ observations' = Append(observations, <<"event", i.time, i.event>>)
    /\ UNCHANGED <<now, position, cursor, last_x, expected_events, raised, waiting, last, emitted,
                   seen, timeouts>>

seat_set_cursor_position ==
    /\ observations # <<>> /\ Head(observations)[1] = "cursor"
    /\ cursor' = Head(observations)[2]
    /\ observations' = Tail(observations)
    /\ UNCHANGED <<now, inputs, position, expected_events, raised, waiting, last, emitted, seen,
                   timeouts, touchVars>>

seat_dispatch_event ==
    /\ observations # <<>> /\ Head(observations)[1] = "event"
    /\ LET found == { e \in expected_events : e[1] = Head(observations)[2] }
       IN /\ raised' = raised \cup { e[2] : e \in found }
          /\ expected_events' = expected_events \ found
    /\ seen' = seen \cup {Head(observations)[3]}
    /\ observations' = Tail(observations)
    /\ UNCHANGED <<now, inputs, position, cursor, waiting, last, emitted, timeouts, touchVars>>

Next ==
    \/ \E dx \in -1 .. 1 : pointer_move_relative(wl_fixed_from_int(dx))
    \/ \E x \in 0 .. Edge : pointer_move_absolute(wl_fixed_from_int(x)) \/ touch_down(x) \/ touch_move(x)
    \/ pointer_button \/ touch_up
    \/ WaitRaised \/ WaitTimesOut \/ Tick
    \/ HandlePointer \/ HandleOther \/ seat_set_cursor_position \/ seat_dispatch_event

Spec == Init /\ [][Next]_vars

-----------------------------------------------------------------------------
(* A call that reports success returns after Mir has dispatched the event  *)
(* of that very call, though events of calls that timed out come late and  *)
(* the clock may not advance between calls.                                *)
SuccessIsOwn == \A e \in raised : e \in seen

(* An absolute movement that returned has brought the cursor to its       *)
(* target, if what earlier calls left to Mir was done when it was called;  *)
(* until a call times out it always was.                                   *)
PointerLands ==
    /\ waiting = 0 /\ last.ok /\ last.kind = "absolute" /\ last.settled => position = last.target
    /\ timeouts = 0 => last.settled

(* A finger is lifted where Mir has it, whichever calls timed out before.  *)
ReleaseInPlace == releasedAt[1] = releasedAt[2]
=============================================================================
