----------------------------- MODULE Selections -----------------------------
(***************************************************************************)
(* The listeners of the selection protocols (wl_data_device, primary       *)
(* selection and its gtk version: src/data_device.cpp,                     *)
(* src/primary_selection.cpp, src/gtk_primary_selection.cpp).  A listener  *)
(* may be destroyed before the proxy it listens to; its class keeps a set  *)
(* of the addresses of live listeners (ActiveListeners), and a thunk calls *)
(* the listener only if its address is in the set of the thunk's class.    *)
(*                                                                         *)
(* Addresses are reused, by listeners of any class.  A proxy keeps the     *)
(* first listener it was given: libwayland (external) refuses a second.    *)
(* The wrappers of sources and devices destroy their proxy when the last   *)
(* shared_ptr to it is reset.  The fd of a send is for the listener to     *)
(* close: nobody else knows it.                                            *)
(***************************************************************************)
EXTENDS Naturals

CONSTANTS Addresses, Proxies,
          ClassOf,       \* the class of listeners a proxy calls, "source" among them
          Free           \* no object, no listener

Classes == { ClassOf[p] : p \in Proxies }

VARIABLES memory,              \* the class of the object at an address, or Free
          active_listeners,    \* one set for each class
          data,                \* the listener data of a proxy, or Free
          destroyed,           \* proxies that were destroyed
          called,              \* history: the last thunk's class, its object's, and whether
                               \* the object was called
          fd                   \* history: the last send's fd and its object's class

vars == <<memory, active_listeners, data, destroyed, called, fd>>

Init ==
    /\ memory = [a \in Addresses |-> Free]
    /\ active_listeners = [c \in Classes |-> {}]
    /\ data = [p \in Proxies |-> Free]
    /\ destroyed = {} /\ called = <<Free, Free, TRUE>> /\ fd = <<"closed", "source">>

AddListener(p, a) == data' = IF data[p] = Free THEN [data EXCEPT ![p] = a] ELSE data

(* DataDeviceListener and the listeners of devices and sources: the        *)
(* constructor adds itself and listens to the proxy.                       *)
NewListener(p, a) ==
    /\ ClassOf[p] # "offer" /\ p \notin destroyed /\ memory[a] = Free
    /\ memory' = [memory EXCEPT ![a] = ClassOf[p]]
    /\ active_listeners' = [active_listeners EXCEPT ![ClassOf[p]] = @ \cup {a}]
    /\ AddListener(p, a)
    /\ UNCHANGED <<destroyed, called, fd>>

(* DataOfferListener and the listeners of offers ...                       *)
NewOfferListener(a) ==
    /\ memory[a] = Free
    /\ memory' = [memory EXCEPT ![a] = "offer"]
    /\ active_listeners' = [active_listeners EXCEPT !["offer"] = @ \cup {a}]
    /\ UNCHANGED <<data, destroyed, called, fd>>

(* ... which are told of the offer when it comes.                          *)
listen_to(a, p) ==
    /\ memory[a] = "offer" /\ ClassOf[p] = "offer" /\ p \notin destroyed
    /\ AddListener(p, a)
    /\ UNCHANGED <<memory, active_listeners, destroyed, called, fd>>

DeleteListener(a) ==
    /\ memory[a] # Free
    /\ memory' = [memory EXCEPT ![a] = Free]
    /\ active_listeners' = [active_listeners EXCEPT ![memory[a]] = @ \ {a}]
    /\ UNCHANGED <<data, destroyed, called, fd>>

DestroyProxy(p) ==
    /\ p \notin destroyed
    /\ destroyed' = destroyed \cup {p}
    /\ UNCHANGED <<memory, active_listeners, data, called, fd>>

(* reset() of the last wrapper of a source, of a device; the tests destroy *)
(* offers themselves.                                                      *)
ResetSource(p) == ClassOf[p] = "source" /\ DestroyProxy(p)

ResetDevice(p) == ClassOf[p] = "device" /\ DestroyProxy(p)

DestroyOffer(p) == ClassOf[p] = "offer" /\ DestroyProxy(p)

(* Mutant: the classes share one set of listeners.                         *)
IncludesAny(c, a) == \E d \in Classes : a \in active_listeners[d]

includes(c, a) == a \in active_listeners[c]

(* What every thunk does.                                                  *)
CallIfActive(p) ==
    /\ p \notin destroyed /\ data[p] # Free
    /\ called' = <<ClassOf[p], memory[data[p]], includes(ClassOf[p], data[p])>>
    /\ UNCHANGED <<memory, active_listeners, data, destroyed>>

(* data_offer, enter, leave, motion, drop, selection.                      *)
DeviceThunk(p) == ClassOf[p] = "device" /\ CallIfActive(p) /\ UNCHANGED fd

(* offer, source_actions, action.                                          *)
OfferThunk(p) == ClassOf[p] = "offer" /\ CallIfActive(p) /\ UNCHANGED fd

(* cancelled of the two primary selections.                                *)
SourceThunk(p) == ClassOf[p] = "source" /\ CallIfActive(p) /\ UNCHANGED fd

(* send of the two primary selections: a listener that is called closes    *)
(* the fd.                                                                 *)
SendThunk(p) ==
    /\ ClassOf[p] = "source" /\ CallIfActive(p)
    /\ fd' = <<IF called'[3] THEN "closed" ELSE "open", called'[2]>>

Next ==
    \/ \E a \in Addresses : NewOfferListener(a) \/ DeleteListener(a)
    \/ \E p \in Proxies, a \in Addresses : NewListener(p, a) \/ listen_to(a, p)
    \/ \E p \in Proxies : ResetSource(p) \/ ResetDevice(p) \/ DestroyOffer(p)
    \/ \E p \in Proxies : DeviceThunk(p) \/ OfferThunk(p) \/ SourceThunk(p) \/ SendThunk(p)

Spec == Init /\ [][Next]_vars

-----------------------------------------------------------------------------
(* A thunk calls a live object of its own class, never one that was        *)
(* destroyed or that another class has put at the same address, and never  *)
(* passes over one that lives: the fd of a send stays open only when no    *)
(* listener of sources is there to close it.                               *)
CallsOwnClass ==
    /\ called[3] <=> called[1] = called[2]
    /\ fd[1] = "closed" <=> fd[2] = "source"
=============================================================================
