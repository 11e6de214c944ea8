--------------------------- MODULE SurfaceOutputs ---------------------------
(***************************************************************************)
(* The outputs a wlcs::Surface is on (src/in_process_server.cpp:           *)
(* Surface::Impl::on_enter, on_leave, current_outputs).  The listener      *)
(* throws on an enter for an output the surface is on and on a leave for   *)
(* one it is not on.                                                       *)
(*                                                                         *)
(* The compositor (external) tells the surface what changed since it told  *)
(* it last; an output may go, and its proxy stays with the client.  The    *)
(* test may destroy the surface and make another: the number of a surface  *)
(* is its proxy.                                                           *)
(***************************************************************************)
EXTENDS Naturals, Sequences

CONSTANTS Screens,
          MaxSurfaces, MaxUpdates   \* bounds

VARIABLES made, alive,    \* surfaces ever made; does the last one exist?
          outputs,        \* of the last surface: Surface::Impl::outputs
          shown,          \* per surface, the outputs the compositor has it on
          enters,         \* enter and leave events on their way
          updates, threw

vars == <<made, alive, outputs, shown, enters, updates, threw>>

Init ==
    /\ made = 0 /\ alive = FALSE /\ outputs = {} /\ shown = <<>> /\ enters = <<>>
    /\ updates = 0 /\ threw = FALSE

CreateSurface ==
    /\ ~alive /\ made < MaxSurfaces
    /\ made' = made + 1 /\ alive' = TRUE
    /\ outputs' = {}
    /\ shown' = Append(shown, {})
    /\ UNCHANGED <<enters, updates, threw>>

DestroySurface ==
    /\ alive
    /\ alive' = FALSE
    /\ UNCHANGED <<made, outputs, shown, enters, updates, threw>>

(* The surface s comes to be on o, or leaves it; the compositor may not    *)
(* yet know that the surface was destroyed.                                *)
Update(s, o) ==
    /\ updates < MaxUpdates
    /\ updates' = updates + 1
    /\ shown' = [shown EXCEPT ![s] = IF o \in @ THEN @ \ {o} ELSE @ \cup {o}]
    /\ enters' = Append(enters, [surface |-> s, output |-> o,
                                 type |-> IF o \in shown[s] THEN "leave" ELSE "enter"])
    /\ UNCHANGED <<made, alive, outputs, threw>>

on_enter(o) ==
    /\ outputs' = outputs \cup {o}
    /\ threw' = (threw \/ o \in outputs)

on_leave(o) ==
    /\ outputs' = outputs \ {o}
    /\ threw' = (threw \/ o \notin outputs)

Dispatch ==
    /\ enters # <<>>
    /\ LET e == Head(enters)
       IN IF alive /\ e.surface = made
          THEN IF e.type = "enter" THEN on_enter(e.output) ELSE on_leave(e.output)
          ELSE UNCHANGED <<outputs, threw>>
    /\ enters' = Tail(enters)
    /\ UNCHANGED <<made, alive, shown, updates>>

Next ==
    \/ CreateSurface \/ DestroySurface \/ Dispatch
    \/ \E s \in 1..made, o \in Screens : Update(s, o)

Spec == Init /\ [][Next]_vars

-----------------------------------------------------------------------------
(* Type invariant.                                                         *)
TypeOK == outputs \subseteq Screens /\ Len(shown) = made /\ shown \in Seq(SUBSET Screens)

(* A compositor that reports changes never makes the listener throw, also  *)
(* when a surface is made while events of an earlier one are on their way; *)
(* when none is, current_outputs() is what the compositor shows.           *)
OutputsFollow ==
    /\ ~threw
    /\ alive /\ enters = <<>> => outputs = shown[made]
=============================================================================
