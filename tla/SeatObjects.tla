---------------------------- MODULE SeatObjects ----------------------------
(***************************************************************************)
(* The wl_keyboard, wl_pointer and wl_touch of a client                    *)
(* (src/in_process_server.cpp, seat_capabilities()).  Every capabilities   *)
(* event makes a new object of each kind the seat has and forgets the old  *)
(* one; the loss of a capability is not handled.                           *)
(*                                                                         *)
(* The compositor (external) follows wl_seat: an object receives events    *)
(* from its creation until the seat loses the capability.                  *)
(***************************************************************************)
EXTENDS Naturals, Sequences

CONSTANT MaxEvents        \* bound on the capabilities events

Kinds == {"keyboard", "pointer", "touch"}

VARIABLES capabilities,   \* what the seat has
          had,            \* what it has had
          receiving,      \* objects the compositor sends events to
          events,         \* capabilities events so far
          wire, requests,
          member,         \* Impl::keyboard, pointer and touch: 0 for null
          made,           \* how many objects of each kind the client has made
          error           \* history: missing_capability was raised

vars == <<capabilities, had, receiving, events, wire, requests, member, made, error>>

Init ==
    /\ capabilities \in SUBSET Kinds
    /\ had = capabilities
    /\ wire = <<capabilities>>
    /\ events = 1 /\ receiving = {} /\ requests = <<>>
    /\ member = [k \in Kinds |-> 0] /\ made = [k \in Kinds |-> 0] /\ error = FALSE

(* Devices are plugged in and removed.                                     *)
ChangeCapabilities(new) ==
    /\ events < MaxEvents /\ new # capabilities
    /\ capabilities' = new
    /\ had' = had \cup new
    /\ events' = events + 1
    /\ receiving' = { o \in receiving : o.kind \in capabilities \cap new }
    /\ wire' = Append(wire, new)
    /\ UNCHANGED <<requests, member, made, error>>

(* wl_seat.get_keyboard, get_pointer and get_touch.                        *)
HandleRequest ==
    /\ requests # <<>>
    /\ LET o == Head(requests)
       IN /\ error' = (error \/ o.kind \notin had)
          /\ receiving' = IF o.kind \in capabilities
                          THEN receiving \cup {o} ELSE receiving
    /\ requests' = Tail(requests)
    /\ UNCHANGED <<capabilities, had, events, wire, member, made>>

-----------------------------------------------------------------------------
Object(k, n) == [kind |-> k, number |-> n]

(* One object of each kind in K is made, in the order of the code.         *)
Create(K) ==
    LET get(k) == IF k \in K THEN << Object(k, made[k] + 1) >> ELSE <<>>
    IN /\ made' = [k \in Kinds |-> IF k \in K THEN made[k] + 1 ELSE made[k]]
       /\ member' = [k \in Kinds |-> IF k \in K THEN made[k] + 1 ELSE member[k]]
       /\ requests' = requests \o get("keyboard") \o get("pointer") \o get("touch")

(* Mutant: only the first event makes an object.                           *)
seat_capabilities_once ==
    /\ wire # <<>>
    /\ wire' = Tail(wire)
    /\ Create({ k \in Head(wire) : member[k] = 0 })
    /\ UNCHANGED <<capabilities, had, receiving, events, error>>

seat_capabilities ==
    /\ wire # <<>>
    /\ wire' = Tail(wire)
    /\ Create(Head(wire))
    /\ UNCHANGED <<capabilities, had, receiving, events, error>>

Next ==
    \/ \E new \in SUBSET Kinds : ChangeCapabilities(new)
    \/ HandleRequest
    \/ seat_capabilities

Spec == Init /\ [][Next]_vars

-----------------------------------------------------------------------------
Settled == wire = <<>> /\ requests = <<>>

(* Once everything has arrived, the object the client holds for a          *)
(* capability the seat has is one that receives its events, however often  *)
(* the capability was lost and regained on the way.                        *)
MemberReceives ==
    Settled => \A k \in capabilities : Object(k, member[k]) \in receiving

(* The client never asks for an object of a capability the seat never had. *)
NeverMissing == ~error
=============================================================================
