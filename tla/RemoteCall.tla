----------------------------- MODULE RemoteCall -----------------------------
(***************************************************************************)
(* What ThreadProxy promises its users: a functor obtained from            *)
(* register_op() behaves like an ordinary synchronous call.  An invocation *)
(* runs its callable at most once, between the moment it is made and the   *)
(* moment it ends; if it returns, the callable it was registered with has  *)
(* run on its argument.  An invocation may also throw without having run   *)
(* anything (the request could not be sent).                               *)
(***************************************************************************)
EXTENDS Naturals

CONSTANTS Callers,    \* threads that invoke functors
          Callables,  \* what was passed to register_op()
          Args        \* one value per invocation: it identifies the invocation

VARIABLES stage,      \* stage[c]: "idle", "called" or "ran"
          current,    \* current[c]: the invocation c is in
          runs,       \* runs[a]: how often the invocation with argument a was run
          returned    \* the invocations that returned

rcVars == <<stage, current, runs, returned>>

Invocation == [callable : Callables, arg : Args]

RCInit == /\ stage = [c \in Callers |-> "idle"]
          /\ current \in [Callers -> Invocation]
          /\ runs = [a \in Args |-> 0]
          /\ returned = {}

RCInvoke(c) == /\ stage[c] = "idle"
               /\ stage' = [stage EXCEPT ![c] = "called"]
               /\ \E i \in Invocation :
                     /\ runs[i.arg] = 0
                     /\ \A d \in Callers : stage[d] # "idle" => current[d].arg # i.arg
                     /\ current' = [current EXCEPT ![c] = i]
               /\ UNCHANGED <<runs, returned>>

RCRun(c) == /\ stage[c] = "called"
            /\ stage' = [stage EXCEPT ![c] = "ran"]
            /\ runs' = [runs EXCEPT ![current[c].arg] = @ + 1]
            /\ UNCHANGED <<current, returned>>

RCReturn(c) == /\ stage[c] = "ran"
               /\ stage' = [stage EXCEPT ![c] = "idle"]
               /\ returned' = returned \cup {current[c]}
               /\ UNCHANGED <<current, runs>>

RCThrow(c) == /\ stage[c] = "called"
              /\ stage' = [stage EXCEPT ![c] = "idle"]
              /\ UNCHANGED <<current, runs, returned>>

RCNext == \E c \in Callers : RCInvoke(c) \/ RCRun(c) \/ RCReturn(c) \/ RCThrow(c)

RCSpec == RCInit /\ [][RCNext]_rcVars
=============================================================================
