---------------------------- MODULE ThreadProxy ----------------------------
(***************************************************************************)
(* ThreadProxy (src/thread_proxy.h): functors that, invoked on any thread, *)
(* run a callable on the Wayland event loop.  A request packet goes down a *)
(* SOCK_SEQPACKET socket pair, the loop runs the handler the packet names, *)
(* and a reply packet comes back.                                          *)
(*                                                                         *)
(* The argument tuple of an invocation is abstracted to one number that no *)
(* other invocation has; a reply carries the callable that produced it and *)
(* the argument that callable was given.  Of the size of a reply only "is  *)
(* it the one-byte reply of a void callable" is kept.                      *)
(***************************************************************************)
EXTENDS Naturals, Sequences

CONSTANTS Callers,      \* threads that use the proxy
          Registrars,   \* those among them that call register_op()
          Callables,    \* what register_op() is given
          Void,         \* the callables that return void
          Registered,   \* callables registered before the proxy is shared
          MaxCalls,     \* bound: number of invocations
          MaxFaults,    \* bound: number of failing system calls
          Faults        \* which system calls fail: "send", "recv"

ASSUME ConstantsAssumption ==
    /\ Registrars \subseteq Callers
    /\ Void \subseteq Callables
    /\ Callables # {}
    /\ MaxCalls \in Nat \ {0}
    /\ MaxFaults \in Nat
    /\ Faults \subseteq {"send", "recv"}
    /\ Registered \in Seq(Callables)
    /\ \A i, j \in 1 .. Len(Registered) : Registered[i] = Registered[j] => i = j

VARIABLES handlers,   \* the handlers after entry 0, which is the destructor's
          functors,   \* what register_op() returned: callable and opcode
          pc,         \* where each thread is
          adding,     \* adding[c]: the functor c's register_op() is about to return
          call,       \* call[c]: the functor c invokes or last invoked, with its argument
          holder,     \* the thread holding message_serialiser, if any
          requests,   \* packets sent on fds[Client], not yet received
          replies,    \* packets sent on fds[Wayland], not yet received
          loop,       \* the event loop: where it is in socket_readable()
          handling,   \* the callable and argument of the packet it handles
          runs,       \* history: runs[a] counts the handler's runs on argument a
          returned,   \* history: invocations that returned, with their reply
          nextArg,    \* argument of the next invocation
          faults,     \* system calls that failed so far
          crashed     \* undefined behaviour has ended the process

opVars   == <<handlers, functors, adding>>
sockets  == <<requests, replies>>
loopVars == <<loop, handling>>
histVars == <<runs, returned>>
vars == <<opVars, pc, call, holder, sockets, loopVars, histVars, nextArg, faults,
          crashed>>

Args == 1 .. MaxCalls
Functor == [callable : Callables, opcode : Nat]
Call    == [callable : Callables, opcode : Nat, arg : Args]
Reply   == [callable : Callables, arg : Args]

(* Value of a variable before its first use. *)
SomeCallable == CHOOSE f \in Callables : TRUE

Init ==
    /\ handlers = Registered
    /\ functors = { [callable |-> Registered[i], opcode |-> i] : i \in 1 .. Len(Registered) }
    /\ pc = [c \in Callers |-> "idle"]
    /\ adding = [c \in Callers |-> [callable |-> SomeCallable, opcode |-> 0]]
    /\ call = [c \in Callers |-> [callable |-> SomeCallable, opcode |-> 0, arg |-> 1]]
    /\ holder = {}
    /\ requests = <<>>
    /\ replies = <<>>
    /\ loop = "poll"
    /\ handling = [callable |-> SomeCallable, arg |-> 1]
    /\ runs = [a \in Args |-> 0]
    /\ returned = {}
    /\ nextArg = 1
    /\ faults = 0
    /\ crashed = FALSE

-----------------------------------------------------------------------------
(* register_op(): the size of the vector is read, then the handler is       *)
(* appended; neither happens under message_serialiser.                      *)

RegisterOp(c, f) ==
    /\ pc[c] = "idle"
    /\ c \in Registrars
    /\ \A fn \in functors : fn.callable # f
    /\ \A d \in Callers : pc[d] = "emplace" => adding[d].callable # f
    /\ adding' = [adding EXCEPT ![c] = [callable |-> f, opcode |-> Len(handlers) + 1]]
    /\ pc' = [pc EXCEPT ![c] = "emplace"]
    /\ UNCHANGED <<handlers, functors, call, holder, sockets, loopVars,
                   histVars, nextArg, faults, crashed>>

Emplace(c) ==
    /\ pc[c] = "emplace"
    /\ handlers' = Append(handlers, adding[c].callable)
    /\ functors' = functors \cup {adding[c]}
    /\ pc' = [pc EXCEPT ![c] = "idle"]
    /\ UNCHANGED <<adding, call, holder, sockets, loopVars, histVars, nextArg,
                   faults, crashed>>

-----------------------------------------------------------------------------
(* The functor made by make_send_functor(): lock message_serialiser,        *)
(* send_message(), wait_for_reply(), unlock.                                *)

Invoke(c, fn) ==
    /\ pc[c] = "idle"
    /\ nextArg <= MaxCalls
    /\ call' = [call EXCEPT ![c] = [callable |-> fn.callable, opcode |-> fn.opcode,
                                    arg |-> nextArg]]
    /\ nextArg' = nextArg + 1
    /\ pc' = [pc EXCEPT ![c] = "lock"]
    /\ UNCHANGED <<opVars, holder, sockets, loopVars, histVars, faults,
                   crashed>>

(* Mutant: message_serialiser is not taken. *)
LockNotTaken(c) ==
    /\ pc[c] = "lock"
    /\ pc' = [pc EXCEPT ![c] = "send"]
    /\ UNCHANGED <<opVars, call, holder, sockets, loopVars, histVars, nextArg,
                   faults, crashed>>

Lock(c) ==
    /\ pc[c] = "lock"
    /\ holder = {}
    /\ holder' = {c}
    /\ pc' = [pc EXCEPT ![c] = "send"]
    /\ UNCHANGED <<opVars, call, sockets, loopVars, histVars, nextArg, faults,
                   crashed>>

Send(c) ==
    /\ pc[c] = "send"
    /\ requests' = Append(requests, [opcode |-> call[c].opcode, arg |-> call[c].arg])
    /\ pc' = [pc EXCEPT ![c] = "recv"]
    /\ UNCHANGED <<opVars, call, holder, replies, loopVars, histVars, nextArg,
                   faults, crashed>>

(* Mutant: the exception leaves the mutex locked. *)
ThrowLocked(c) ==
    /\ pc' = [pc EXCEPT ![c] = "idle"]
    /\ UNCHANGED <<opVars, call, holder, requests, loopVars, histVars, nextArg,
                   crashed>>

(* An exception leaves the functor; the lock_guard releases the mutex.      *)
Throw(c) ==
    /\ pc' = [pc EXCEPT ![c] = "idle"]
    /\ holder' = holder \ {c}
    /\ UNCHANGED <<opVars, call, requests, loopVars, histVars, nextArg,
                   crashed>>

(* Mutant: the packet went out although send() is taken to have failed. *)
SendFailsLate(c) ==
    /\ pc[c] = "send"
    /\ "send" \in Faults /\ faults < MaxFaults
    /\ faults' = faults + 1
    /\ requests' = Append(requests, [opcode |-> call[c].opcode, arg |-> call[c].arg])
    /\ pc' = [pc EXCEPT ![c] = "idle"]
    /\ holder' = holder \ {c}
    /\ UNCHANGED <<opVars, call, replies, loopVars, histVars, nextArg, crashed>>

SendFails(c) ==
    /\ pc[c] = "send"
    /\ "send" \in Faults /\ faults < MaxFaults
    /\ faults' = faults + 1
    /\ UNCHANGED replies
    /\ Throw(c)

(* recv() fails, for instance because a signal interrupts it.               *)
RecvFails(c) ==
    /\ pc[c] = "recv"
    /\ "recv" \in Faults /\ faults < MaxFaults
    /\ faults' = faults + 1
    /\ UNCHANGED replies
    /\ Throw(c)

(* A reply shorter than the awaited value, which is then consumed.          *)
ShortReply(c) ==
    replies # <<>> /\ call[c].callable \notin Void /\ Head(replies).callable \in Void

RecvShort(c) ==
    /\ pc[c] = "recv"
    /\ ShortReply(c)
    /\ replies' = Tail(replies)
    /\ UNCHANGED faults
    /\ Throw(c)

Recv(c) ==
    /\ pc[c] = "recv"
    /\ replies # <<>>
    /\ ~ShortReply(c)
    /\ replies' = Tail(replies)
    /\ returned' = returned \cup {[call |-> call[c], reply |-> Head(replies)]}
    /\ pc' = [pc EXCEPT ![c] = "idle"]
    /\ holder' = holder \ {c}
    /\ UNCHANGED <<opVars, call, requests, loopVars, runs, nextArg, faults,
                   crashed>>

-----------------------------------------------------------------------------
(* The event loop: socket_readable() receives a packet and looks its opcode *)
(* up in handlers; the functor made by make_recv_functor() calls the        *)
(* callable and then sends the reply.                                       *)

SocketReadable ==
    /\ loop = "poll"
    /\ requests # <<>>
    /\ requests' = Tail(requests)
    /\ loop' = "call"
    /\ handling' = [callable |-> handlers[Head(requests).opcode],
                    arg |-> Head(requests).arg]
    /\ UNCHANGED <<opVars, pc, call, holder, replies, histVars, nextArg, faults,
                   crashed>>

CallHandler ==
    /\ loop = "call"
    /\ runs' = [runs EXCEPT ![handling.arg] = @ + 1]
    /\ loop' = "reply"
    /\ UNCHANGED <<opVars, pc, call, holder, sockets, handling, returned,
                   nextArg, faults, crashed>>

(* Mutant: void callables send no reply. *)
SendReplyUnlessVoid ==
    /\ loop = "reply"
    /\ replies' = IF handling.callable \in Void THEN replies
                  ELSE Append(replies, handling)
    /\ loop' = "poll"
    /\ UNCHANGED <<opVars, pc, call, holder, requests, handling, histVars,
                   nextArg, faults, crashed>>

SendReply ==
    /\ loop = "reply"
    /\ replies' = Append(replies, handling)
    /\ loop' = "poll"
    /\ UNCHANGED <<opVars, pc, call, holder, requests, handling, histVars,
                   nextArg, faults, crashed>>

-----------------------------------------------------------------------------
(* handlers is a plain vector: growing it while the loop looks up or runs   *)
(* one of its elements, or while another thread grows it, is a data race.   *)
(* What the race does is undefined: the steps go on as above, or the        *)
(* process dies on a moved or freed element.                                *)
HandlersRaced ==
    \E c \in Callers : /\ pc[c] = "emplace"
                       /\ \/ loop # "poll"
                          \/ \E d \in Callers \ {c} : pc[d] = "emplace"

Crash ==
    /\ HandlersRaced
    /\ crashed' = TRUE
    /\ UNCHANGED <<opVars, pc, call, holder, sockets, loopVars, histVars,
                   nextArg, faults>>

ThreadStep(c) ==
    \/ \E f \in Callables : RegisterOp(c, f)
    \/ Emplace(c)
    \/ \E fn \in functors : Invoke(c, fn)
    \/ Lock(c)
    \/ Send(c)
    \/ SendFails(c)
    \/ Recv(c)
    \/ RecvShort(c)
    \/ RecvFails(c)

(* Nobody is using the proxy, or the process is gone. *)
Rest ==
    /\ crashed \/ (requests = <<>> /\ loop = "poll" /\ \A c \in Callers : pc[c] = "idle")
    /\ UNCHANGED vars

LoopStep == SocketReadable \/ CallHandler \/ SendReply

Next == \/ ~crashed /\ (LoopStep \/ Crash \/ \E c \in Callers : ThreadStep(c))
        \/ Rest

Spec == Init /\ [][Next]_vars

(* The event loop keeps dispatching and threads do not stop inside a        *)
(* functor.  Weak fairness of Lock is enough: the functors hold the mutex   *)
(* for a finite time and are invoked a finite number of times.              *)
Fairness == /\ WF_vars(~crashed /\ LoopStep)
            /\ \A c \in Callers :
                  /\ WF_vars(~crashed /\ Lock(c))
                  /\ WF_vars(~crashed /\ (Send(c) \/ SendFails(c)))
                  /\ WF_vars(~crashed /\ (Recv(c) \/ RecvShort(c)))

FairSpec == Spec /\ Fairness

-----------------------------------------------------------------------------
(* Types; an opcode that a functor or a packet carries is an index of      *)
(* handlers, so that me.handlers[opcode] in socket_readable() is in range. *)
TypeOK ==
    /\ handlers \in Seq(Callables)
    /\ functors \subseteq [callable : Callables, opcode : 1 .. Len(handlers)]
    /\ pc \in [Callers -> {"idle", "emplace", "lock", "send", "recv"}]
    /\ adding \in [Callers -> Functor]
    /\ call \in [Callers -> Call]
    /\ holder \subseteq Callers
    /\ requests \in Seq([opcode : 1 .. Len(handlers), arg : Args])
    /\ replies \in Seq(Reply)
    /\ loop \in {"poll", "call", "reply"}
    /\ handling \in Reply
    /\ runs \in [Args -> Nat]
    /\ returned \subseteq [call : Call, reply : Reply]
    /\ nextArg \in 1 .. MaxCalls + 1
    /\ faults \in 0 .. MaxFaults
    /\ crashed \in BOOLEAN

(* Requests sent and not yet answered, the one being handled included.      *)
InFlight == Len(requests) + Len(replies) + (IF loop = "poll" THEN 0 ELSE 1)

(* "it's a bit easier if only one request is in flight at once": there is   *)
(* never a second one between send_message() and wait_for_reply().          *)
OneRequestInFlight == InFlight <= 1

(* message_serialiser is held exactly by the thread between the two halves  *)
(* of its exchange, also after functors have thrown.                        *)
SerialiserHeld == \A c \in Callers : c \in holder <=> pc[c] \in {"send", "recv"}

(* A functor that returns does so on the reply to its own request, produced *)
(* by the callable that functor was registered for.                         *)
ReplyIsOwn ==
    \A r \in returned : r.reply = [callable |-> r.call.callable, arg |-> r.call.arg]

(* A functor that returned had its callable run exactly once: the dummy     *)
(* reply notifies "the other end that the call has completed".              *)
ReturnedRanOnce == \A r \in returned : runs[r.call.arg] = 1

(* handlers is never grown while the event loop is using it.                *)
HandlersStable == ~HandlersRaced

(* A handler runs only while the thread that asked for it is waiting in     *)
(* wait_for_reply(): nothing the caller does overlaps it.                   *)
RunsDuringCall ==
    [][\A a \in Args : runs'[a] # runs[a] =>
          \E c \in Callers : pc[c] = "recv" /\ pc'[c] = "recv" /\ call[c].arg = a]_vars

(* Every invocation ends.                                                   *)
CallsEnd == \A c \in Callers : pc[c] = "lock" ~> pc[c] = "idle"

(* The stage of a thread's invocation, as RemoteCall has it.                *)
StageOf(c) ==
    IF pc[c] \in {"idle", "emplace"} THEN "idle"
    ELSE IF runs[call[c].arg] = 0 THEN "called" ELSE "ran"

InvocationOf(cl) == [callable |-> cl.callable, arg |-> cl.arg]

(* The refinement mapping.  An invocation that returned is known by the     *)
(* reply it returned on, which RemoteCall wants to be its own.              *)
Abstract == INSTANCE RemoteCall WITH
    stage <- [c \in Callers |-> StageOf(c)],
    current <- [c \in Callers |-> InvocationOf(call[c])],
    returned <- { r.reply : r \in returned }

(* The proxy implements a synchronous call: a handler runs once, while its  *)
(* caller waits, and the caller returns on the reply to its own request.    *)
IsSynchronousCall == Abstract!RCSpec
=============================================================================
