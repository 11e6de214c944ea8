---------------------------- MODULE EventReading ----------------------------
(***************************************************************************)
(* How a wlcs::Client reads and dispatches events                          *)
(* (src/in_process_server.cpp: dispatch_until, server_roundtrip).          *)
(*                                                                         *)
(* libwayland (external) counts the readers that have announced a read     *)
(* with wl_display_prepare_read.  Each must read or cancel: a read with    *)
(* readers left waits for the others to read.                              *)
(*                                                                         *)
(* dispatch_until stops when an event made its predicate true, modelled    *)
(* by the event Awaited, or with Timeout.  Time is counted in ticks, of    *)
(* which Millisecond make one unit of poll(); time can pass wherever the   *)
(* client is.  A prompt system is one in which it passes only while the    *)
(* client waits in poll(), and nothing but Awaited arrives after the       *)
(* deadline.                                                               *)
(***************************************************************************)
EXTENDS Integers, Sequences

CONSTANTS Awaited, Other, Done,  \* events; Done answers wl_display.sync
          Timeouts,              \* what dispatch_until is called with, in ticks
          Millisecond,           \* ticks in a millisecond
          MaxTime, MaxEvents, MaxCalls,
          Prompts                \* the kinds of system considered, see prompt

ASSUME TimeAssumption == Timeouts \subseteq Nat /\ Millisecond \in Nat \ {0} /\ Prompts \subseteq BOOLEAN

VARIABLES time, sent,                   \* the compositor: what it sent so far
          syncs,                        \* wl_display.sync requests not yet answered
          socket, queue, readers,       \* libwayland's wl_display
          broken,                       \* has the connection failed?
          error,                        \* the display's last_error: has a dispatch met that?
          pc, inRoundtrip, deadline, pollEnd, dispatched, result, calls,
          prompt                        \* does time pass only in poll()?

serverVars == <<time, sent, syncs, broken>>
display == <<socket, queue, readers>>
vars == <<serverVars, display, error, pc, inRoundtrip, deadline, pollEnd, dispatched, result,
          calls, prompt>>

Results == {"none", "returned", "Timeout", "system_error", "wayland_error"}

Init ==
    /\ time = 0 /\ sent = <<>> /\ syncs = 0 /\ broken = FALSE
    /\ socket = <<>> /\ queue = <<>> /\ readers = 0 /\ error = FALSE
    /\ pc = "idle" /\ inRoundtrip = FALSE /\ deadline = 0 /\ pollEnd = 0
    /\ dispatched = <<>> /\ result = "none" /\ calls = 0
    /\ prompt \in Prompts

-----------------------------------------------------------------------------
(* The clock and the compositor.                                           *)

Tick ==
    /\ time < MaxTime
    /\ prompt => pc = "poll" /\ socket = <<>>
    /\ time' = time + 1
    /\ UNCHANGED <<sent, syncs, broken, display, pc, inRoundtrip, deadline, pollEnd,
                   dispatched, result, calls>>

Send(e) ==
    /\ ~broken
    /\ sent' = Append(sent, e)
    /\ socket' = Append(socket, e)
    /\ UNCHANGED <<time, broken, queue, readers, pc, inRoundtrip, deadline, pollEnd,
                   dispatched, result, calls>>

SendEvent(e) ==
    /\ Len(sent) < MaxEvents
    /\ prompt /\ pc # "idle" /\ ~inRoundtrip /\ e = Other => time < deadline
    /\ Send(e)
    /\ UNCHANGED syncs

AnswerSync ==
    /\ syncs > 0
    /\ syncs' = syncs - 1
    /\ Send(Done)

(* The compositor disconnects the client, or reports a protocol error.     *)
Break ==
    /\ ~broken
    /\ broken' = TRUE
    /\ UNCHANGED <<time, sent, syncs, display, pc, inRoundtrip, deadline, pollEnd,
                   dispatched, result, calls>>

-----------------------------------------------------------------------------
(* The client.                                                             *)

DispatchUntil(timeout) ==
    /\ pc = "idle" /\ calls < MaxCalls /\ time + timeout + Millisecond <= MaxTime
    /\ calls' = calls + 1
    /\ inRoundtrip' = FALSE
    /\ deadline' = time + timeout
    /\ result' = "none"
    /\ pc' = "check"
    /\ UNCHANGED <<serverVars, display, pollEnd, dispatched>>

(* wl_display_roundtrip (external) sends a sync and reads until its Done.   *)
(* A failed connection is found when it reads.                             *)
Roundtrip ==
    /\ pc = "idle" /\ calls < MaxCalls
    /\ calls' = calls + 1
    /\ inRoundtrip' = TRUE
    /\ result' = "none"
    /\ syncs' = syncs + 1
    /\ pc' = "check"
    /\ UNCHANGED <<time, sent, broken, display, deadline, pollEnd, dispatched>>

(* client_flush(): a full send buffer is ignored, a failed connection not.  *)
client_flush ==
    /\ pc = "idle" /\ calls < MaxCalls
    /\ calls' = calls + 1
    /\ result' = IF broken THEN "wayland_error" ELSE "returned"
    /\ UNCHANGED <<serverVars, display, pc, inRoundtrip, deadline, pollEnd, dispatched>>

Has(events, e) == \E k \in DOMAIN events : events[k] = e

(* What the loop waits for.                                                *)
Predicate == IF inRoundtrip THEN syncs = 0 /\ ~Has(queue, Done) /\ ~Has(socket, Done)
             ELSE Has(dispatched, Awaited)

Finish(how) == pc' = "idle" /\ result' = how

CheckPredicate ==
    /\ pc = "check"
    /\ IF Predicate THEN Finish("returned")
       ELSE pc' = "prepare" /\ UNCHANGED result
    /\ UNCHANGED <<serverVars, display, inRoundtrip, deadline, pollEnd, dispatched, calls>>

(* wl_display_dispatch_pending.                                            *)
Dispatch == dispatched' = dispatched \o queue /\ queue' = <<>>

(* The loop around wl_display_prepare_read: events already queued must be  *)
(* dispatched before a read can be announced.                              *)
PrepareRead ==
    /\ pc = "prepare"
    /\ IF queue # <<>>
       THEN ~error /\ Dispatch /\ UNCHANGED <<pc, readers>>
       ELSE /\ readers' = readers + 1
            /\ pc' = "time"
            /\ UNCHANGED <<queue, dispatched>>
    /\ UNCHANGED <<serverVars, socket, inRoundtrip, deadline, pollEnd, result, calls>>

(* Mutant: the fraction of a millisecond is dropped.                       *)
WaitFromTruncated(t, left) == t + (left \div Millisecond) * Millisecond

(* When poll() gives up: the time left in whole milliseconds and one more. *)
WaitFrom(t, left) == t + (left \div Millisecond) * Millisecond + Millisecond

(* The deadline is checked before every poll(); Timeout leaves the read    *)
(* announced.                                                              *)
CheckTime ==
    /\ pc = "time"
    /\ IF ~inRoundtrip /\ deadline - time < 0
       THEN Finish("Timeout") /\ UNCHANGED pollEnd
       ELSE /\ pollEnd' = IF inRoundtrip THEN 0 ELSE WaitFrom(time, deadline - time)
            /\ pc' = "poll"
            /\ UNCHANGED result
    /\ UNCHANGED <<serverVars, display, inRoundtrip, deadline, dispatched, calls>>

PollReady ==
    /\ pc = "poll" /\ (socket # <<>> \/ broken)
    /\ pc' = "read"
    /\ UNCHANGED <<serverVars, display, inRoundtrip, deadline, pollEnd, dispatched, result, calls>>

(* Mutant: the announced read is not cancelled.                            *)
PollTimesOutNotCancelled ==
    /\ pc = "poll" /\ ~inRoundtrip /\ socket = <<>> /\ ~broken /\ time >= pollEnd
    /\ Finish("Timeout")
    /\ UNCHANGED <<serverVars, display, inRoundtrip, deadline, pollEnd, dispatched, calls>>

PollTimesOut ==
    /\ pc = "poll" /\ ~inRoundtrip /\ socket = <<>> /\ ~broken /\ time >= pollEnd
    /\ readers' = readers - 1
    /\ Finish("Timeout")
    /\ UNCHANGED <<serverVars, socket, queue, inRoundtrip, deadline, pollEnd, dispatched, calls>>

(* poll() is interrupted by a signal.                                      *)
PollFails ==
    /\ pc = "poll" /\ ~inRoundtrip
    /\ readers' = readers - 1
    /\ Finish("system_error")
    /\ UNCHANGED <<serverVars, socket, queue, inRoundtrip, deadline, pollEnd, dispatched, calls>>

(* The last announced reader reads; another waits for it.  A failed        *)
(* connection makes throw_wayland_error() throw.                           *)
ReadEvents ==
    /\ pc = "read"
    /\ readers' = readers - 1
    /\ CASE readers > 1 -> pc' = "waiting" /\ UNCHANGED <<socket, queue, result>>
         [] readers = 1 /\ broken -> Finish("wayland_error") /\ UNCHANGED <<socket, queue>>
         [] OTHER -> /\ queue' = queue \o socket
                     /\ socket' = <<>>
                     /\ pc' = "dispatch"
                     /\ UNCHANGED result
    /\ UNCHANGED <<serverVars, inRoundtrip, deadline, pollEnd, dispatched, calls>>

DispatchPending ==
    /\ pc = "dispatch"
    /\ Dispatch
    /\ pc' = "check"
    /\ UNCHANGED <<serverVars, socket, readers, inRoundtrip, deadline, pollEnd, result, calls>>

(* wl_display_dispatch_pending meets the error that was reported, and then *)
(* fails always; what is queued stays.                                     *)
DispatchFails ==
    /\ broken
    /\ pc = "dispatch" \/ (pc = "prepare" /\ queue # <<>>)
    /\ error' = TRUE
    /\ Finish("wayland_error")
    /\ UNCHANGED <<serverVars, display, inRoundtrip, deadline, pollEnd, dispatched, calls>>

ClientStep ==
    \/ CheckPredicate \/ PrepareRead \/ CheckTime \/ PollReady
    \/ PollTimesOut \/ ReadEvents \/ DispatchPending

Next ==
    /\ \/ /\ \/ Tick
             \/ \E e \in {Awaited, Other} : SendEvent(e)
             \/ AnswerSync \/ Break
             \/ \E t \in Timeouts : DispatchUntil(t)
             \/ Roundtrip \/ client_flush
             \/ ClientStep \/ PollFails
          /\ UNCHANGED error
       \/ DispatchFails
    /\ UNCHANGED prompt

(* The client runs, time passes and the compositor answers.                *)
Spec == /\ Init /\ [][Next]_vars
        /\ WF_vars(((ClientStep /\ UNCHANGED error) \/ DispatchFails) /\ UNCHANGED prompt)
        /\ WF_vars(Tick /\ UNCHANGED <<error, prompt>>)
        /\ WF_vars(AnswerSync /\ UNCHANGED <<error, prompt>>)

-----------------------------------------------------------------------------
(* Type invariant of the display and of the call in progress.              *)
TypeOK ==
    /\ time \in 0 .. MaxTime /\ syncs \in 0 .. MaxCalls /\ broken \in BOOLEAN
    /\ error \in {FALSE, broken}
    /\ readers \in 0 .. MaxCalls + 1
    /\ pc \in {"idle", "check", "prepare", "time", "poll", "read", "dispatch", "waiting"}
    /\ inRoundtrip \in BOOLEAN /\ result \in Results

(* In a prompt system, whatever way dispatch_until() or roundtrip() ended, *)
(* no read is left announced, so that a later call can read.               *)
ReadersBalanced == prompt /\ pc = "idle" => readers = 0

(* Timeout is thrown only after the time asked for                         *)
(* (dispatch_until_times_out_at_the_right_time in tests/self_test.cpp),    *)
(* and not when an event made the predicate true.                          *)
TimeoutIsReal == result = "Timeout" => time > deadline /\ ~Has(dispatched, Awaited)

(* In a prompt system every dispatch_until() and every roundtrip() ends:   *)
(* by returning or by throwing.                                            *)
CallsEnd == (prompt /\ pc # "idle") ~> (pc = "idle")

(* roundtrip() ends: "This blocks until all previous client requests have  *)
(* been processed by the server" (include/in_process_server.h).            *)
RoundtripEnds == (pc # "idle" /\ inRoundtrip) ~> (pc = "idle")
=============================================================================
