------------------------- MODULE ThreadProxyProofs -------------------------
(***************************************************************************)
(* Proofs about ThreadProxy, for any threads, callables and numbers of     *)
(* calls.  TypeInv needs nothing of the environment.  IInv adds where the  *)
(* one request of a waiting thread is (ExchangeInv), that opcodes lead to  *)
(* their callables (FunctorInv) and that arguments are fresh (FreshInv);   *)
(* it is inductive when no recv() is interrupted and one thread registers. *)
(***************************************************************************)
EXTENDS ThreadProxy, TLAPS

(* A sequence over a set is one over any larger set.                       *)
LEMMA SeqMonotonic ==
  ASSUME NEW S, NEW T, S \subseteq T, NEW s \in Seq(S)
  PROVE  s \in Seq(T)
OBVIOUS

(* Taking the head of a non-empty sequence.                                *)
LEMMA TailType ==
  ASSUME NEW S, NEW s \in Seq(S), s # <<>>
  PROVE  /\ Head(s) \in S
         /\ Tail(s) \in Seq(S)
         /\ Len(Tail(s)) = Len(s) - 1
OBVIOUS

(* A sequence of one element has that head and nothing after it.           *)
LEMMA Singleton ==
  ASSUME NEW S, NEW x \in S, NEW s \in Seq(S), s = <<x>>
  PROVE  Head(s) = x /\ Tail(s) = <<>> /\ s # <<>>
OBVIOUS

(* Putting the first element into an empty socket.                         *)
LEMMA AppendEmpty ==
  ASSUME NEW x
  PROVE  Append(<<>>, x) = <<x>>
OBVIOUS

(* What Append adds and what it keeps.                                     *)
LEMMA AppendKeeps ==
  ASSUME NEW S, NEW s \in Seq(S), NEW x \in S
  PROVE  /\ Append(s, x) \in Seq(S)
         /\ Len(Append(s, x)) = Len(s) + 1
         /\ Append(s, x)[Len(s) + 1] = x
         /\ \A i \in 1 .. Len(s) : Append(s, x)[i] = s[i]
OBVIOUS

-----------------------------------------------------------------------------
(* The mutex: it is held by the thread inside its exchange, and by no other. *)
MutexInv ==
    /\ SerialiserHeld
    /\ \A c, d \in holder : c = d

(* Opcodes held by threads stay indices of handlers. *)
OpcodeInv ==
    /\ \A c \in Callers : pc[c] = "emplace" => adding[c].opcode \in 1 .. Len(handlers) + 1
    /\ \A c \in Callers : pc[c] \in {"lock", "send", "recv"} =>
          call[c].opcode \in 1 .. Len(handlers)

(* A functor's opcode leads to its callable. *)
FunctorInv ==
    /\ \A c \in Callers : pc[c] = "emplace" =>
          c \in Registrars /\ adding[c].opcode = Len(handlers) + 1
    /\ \A fn \in functors : fn.opcode \in 1 .. Len(handlers) /\ handlers[fn.opcode] = fn.callable
    /\ \A c \in Callers : pc[c] \in {"lock", "send", "recv"} =>
          /\ call[c].opcode \in 1 .. Len(handlers)
          /\ handlers[call[c].opcode] = call[c].callable

Request(c) == [opcode |-> call[c].opcode, arg |-> call[c].arg]

(* Where the request of a waiting thread can be, and what has been run of it. *)
Sent(c)     == /\ requests = <<Request(c)>> /\ replies = <<>> /\ loop = "poll"
               /\ runs[call[c].arg] = 0
Handled(c)  == /\ requests = <<>> /\ replies = <<>> /\ loop \in {"call", "reply"}
               /\ handling.arg = call[c].arg /\ handling.callable = call[c].callable
               /\ runs[call[c].arg] = IF loop = "call" THEN 0 ELSE 1
Answered(c) == /\ requests = <<>> /\ replies = <<InvocationOf(call[c])>> /\ loop = "poll"
               /\ runs[call[c].arg] = 1

ExchangeInv ==
    /\ \A c \in Callers : pc[c] = "recv" => Sent(c) \/ Handled(c) \/ Answered(c)
    /\ (\A c \in Callers : pc[c] # "recv") =>
          requests = <<>> /\ replies = <<>> /\ loop = "poll"

(* Invocations have their own arguments, and run only once sent. *)
FreshInv ==
    /\ \A c \in Callers : pc[c] \in {"lock", "send", "recv"} => call[c].arg < nextArg
    /\ \A c \in Callers : pc[c] \in {"lock", "send"} => runs[call[c].arg] = 0
    /\ \A c, d \in Callers :
          /\ pc[c] \in {"lock", "send", "recv"}
          /\ pc[d] \in {"lock", "send", "recv"}
          /\ call[c].arg = call[d].arg
          => c = d
    /\ \A a \in Args : a >= nextArg => runs[a] = 0

TypeInv == TypeOK /\ MutexInv /\ OpcodeInv

ReturnInv == ReplyIsOwn /\ ReturnedRanOnce

IInv == TypeInv /\ FunctorInv /\ ExchangeInv /\ FreshInv /\ ReturnInv
-----------------------------------------------------------------------------
(* Types, the mutex and the opcodes: for any number of threads, whichever    *)
(* of them register operations, and whatever system calls fail.              *)

(* The initial state has the types, a free mutex and no opcodes.           *)
LEMMA TypeInit ==
  ASSUME Init
  PROVE  TypeInv
<1>1. SomeCallable \in Callables
  BY ConstantsAssumption, Zenon DEF SomeCallable
<1>2. TypeOK
  <2>1. functors \subseteq [callable : Callables, opcode : 1 .. Len(handlers)]
    BY ConstantsAssumption DEF Init
  <2>2. 1 \in Args /\ nextArg \in 1 .. MaxCalls + 1 /\ faults \in 0 .. MaxFaults
    BY ConstantsAssumption DEF Init, Args
  <2>3. adding \in [Callers -> Functor] /\ call \in [Callers -> Call] /\ handling \in Reply
    BY <1>1, <2>2, Zenon DEF Init, Functor, Call, Reply
  <2>4. runs \in [Args -> Nat] /\ requests \in Seq([opcode : 1 .. Len(handlers), arg : Args])
    BY DEF Init
  <2>5. /\ handlers \in Seq(Callables) /\ replies \in Seq(Reply)
        /\ returned \subseteq [call : Call, reply : Reply] /\ holder \subseteq Callers
    BY ConstantsAssumption DEF Init
  <2>6. /\ pc \in [Callers -> {"idle", "emplace", "lock", "send", "recv"}]
        /\ loop \in {"poll", "call", "reply"} /\ crashed \in BOOLEAN
    BY Zenon DEF Init
  <2> QED
    BY <2>1, <2>2, <2>3, <2>4, <2>5, <2>6, Zenon DEF TypeOK
<1>3. MutexInv /\ OpcodeInv
  BY Zenon DEF Init, MutexInv, SerialiserHeld, OpcodeInv
<1> QED BY <1>2, <1>3 DEF TypeInv

(* Every step keeps the types, the mutex discipline and the opcodes.       *)
LEMMA TypeStep ==
  ASSUME TypeInv, [Next]_vars
  PROVE  TypeInv'
<1> USE ConstantsAssumption DEF opVars, sockets, loopVars, histVars
<1>1. ASSUME NEW c \in Callers, NEW f \in Callables, RegisterOp(c, f)
      PROVE  TypeInv'
  <2>1. TypeOK'
    BY <1>1 DEF RegisterOp, TypeInv, TypeOK, Functor
  <2>2. MutexInv'
    BY <1>1, Zenon DEF RegisterOp, TypeInv, TypeOK, MutexInv, SerialiserHeld
  <2>3. OpcodeInv'
    BY <1>1 DEF RegisterOp, TypeInv, TypeOK, OpcodeInv, Functor
  <2> QED BY <2>1, <2>2, <2>3 DEF TypeInv
<1>2. ASSUME NEW c \in Callers, Emplace(c)
      PROVE  TypeInv'
  <2>1. /\ handlers' \in Seq(Callables)
        /\ Len(handlers') = Len(handlers) + 1
        /\ Len(handlers) \in Nat
    BY <1>2, AppendKeeps DEF Emplace, TypeInv, TypeOK, Functor
  <2>2. requests' \in Seq([opcode : 1 .. Len(handlers'), arg : Args])
    <3>1. [opcode : 1 .. Len(handlers), arg : Args] \subseteq [opcode : 1 .. Len(handlers'), arg : Args]
      BY <2>1
    <3>2. requests' = requests /\ requests \in Seq([opcode : 1 .. Len(handlers), arg : Args])
      BY <1>2, Zenon DEF Emplace, TypeInv, TypeOK
    <3> QED BY <3>1, <3>2, SeqMonotonic, Zenon
  <2>3. functors' \subseteq [callable : Callables, opcode : 1 .. Len(handlers')]
    BY <1>2, <2>1 DEF Emplace, TypeInv, TypeOK, OpcodeInv, Functor
  <2>4. TypeOK'
    BY <1>2, <2>1, <2>2, <2>3, Zenon DEF Emplace, TypeInv, TypeOK
  <2>5. MutexInv'
    BY <1>2, Zenon DEF Emplace, TypeInv, TypeOK, MutexInv, SerialiserHeld
  <2>6. OpcodeInv'
    BY <1>2, <2>1, SMTT(30) DEF Emplace, TypeInv, TypeOK, OpcodeInv, Functor, Call
  <2> QED BY <2>4, <2>5, <2>6 DEF TypeInv
<1>3. ASSUME NEW c \in Callers, NEW fn \in functors, Invoke(c, fn)
      PROVE  TypeInv'
  <2>1. TypeOK'
    <3>1. nextArg \in Args /\ nextArg' \in 1 .. MaxCalls + 1
      BY <1>3 DEF Invoke, TypeInv, TypeOK, Args
    <3>2. fn \in Functor
      BY <1>3 DEF TypeInv, TypeOK, Functor
    <3>3. call' \in [Callers -> Call]
      BY <1>3, <3>1, <3>2, Zenon DEF Invoke, TypeInv, TypeOK, Call, Functor
    <3> QED BY <1>3, <3>1, <3>3 DEF Invoke, TypeInv, TypeOK
  <2>2. MutexInv'
    BY <1>3, Zenon DEF Invoke, TypeInv, TypeOK, MutexInv, SerialiserHeld
  <2>3. OpcodeInv'
    BY <1>3, Zenon DEF Invoke, TypeInv, TypeOK, OpcodeInv, Call
  <2> QED BY <2>1, <2>2, <2>3 DEF TypeInv
<1>4. ASSUME NEW c \in Callers, Lock(c)
      PROVE  TypeInv'
  <2>1. TypeOK'
    BY <1>4, Zenon DEF Lock, TypeInv, TypeOK
  <2>2. MutexInv'
    BY <1>4, Zenon DEF Lock, TypeInv, TypeOK, MutexInv, SerialiserHeld
  <2>3. OpcodeInv'
    BY <1>4, Zenon DEF Lock, TypeInv, TypeOK, OpcodeInv
  <2> QED BY <2>1, <2>2, <2>3 DEF TypeInv
<1>5. ASSUME NEW c \in Callers, Send(c)
      PROVE  TypeInv'
  <2>1. requests' \in Seq([opcode : 1 .. Len(handlers), arg : Args])
    BY <1>5, AppendKeeps DEF Send, TypeInv, TypeOK, OpcodeInv, Call
  <2>2. TypeOK'
    BY <1>5, <2>1, Zenon DEF Send, TypeInv, TypeOK
  <2>3. MutexInv'
    BY <1>5, Zenon DEF Send, TypeInv, TypeOK, MutexInv, SerialiserHeld
  <2>4. OpcodeInv'
    BY <1>5, Zenon DEF Send, TypeInv, TypeOK, OpcodeInv
  <2> QED BY <2>2, <2>3, <2>4 DEF TypeInv
<1>6. ASSUME NEW c \in Callers, Throw(c), replies' \in Seq(Reply), faults' \in 0 .. MaxFaults
      PROVE  TypeInv'
  <2>1. TypeOK'
    BY <1>6, Zenon DEF Throw, TypeInv, TypeOK
  <2>2. MutexInv'
    BY <1>6, Zenon DEF Throw, TypeInv, TypeOK, MutexInv, SerialiserHeld
  <2>3. OpcodeInv'
    BY <1>6, Zenon DEF Throw, TypeInv, TypeOK, OpcodeInv
  <2> QED BY <2>1, <2>2, <2>3 DEF TypeInv
<1>7. ASSUME NEW c \in Callers, SendFails(c) \/ RecvFails(c) \/ RecvShort(c)
      PROVE  TypeInv'
  <2>1. CASE SendFails(c)
    <3>1. faults' \in 0 .. MaxFaults /\ replies' \in Seq(Reply) /\ Throw(c)
      BY <2>1 DEF SendFails, TypeInv, TypeOK
    <3> QED BY <3>1, <1>6
  <2>2. CASE RecvFails(c)
    <3>1. faults' \in 0 .. MaxFaults /\ replies' \in Seq(Reply) /\ Throw(c)
      BY <2>2 DEF RecvFails, TypeInv, TypeOK
    <3> QED BY <3>1, <1>6
  <2>3. CASE RecvShort(c)
    BY <2>3, <1>6, TailType, Zenon DEF RecvShort, ShortReply, TypeInv, TypeOK
  <2> QED BY <1>7, <2>1, <2>2, <2>3
<1>8. ASSUME NEW c \in Callers, Recv(c)
      PROVE  TypeInv'
  <2>1. Head(replies) \in Reply /\ replies' \in Seq(Reply)
    BY <1>8, TailType, Zenon DEF Recv, TypeInv, TypeOK
  <2>2. TypeOK'
    BY <1>8, <2>1 DEF Recv, TypeInv, TypeOK
  <2>3. MutexInv'
    BY <1>8 DEF Recv, TypeInv, TypeOK, MutexInv, SerialiserHeld
  <2>4. OpcodeInv'
    BY <1>8, Zenon DEF Recv, TypeInv, TypeOK, OpcodeInv
  <2> QED BY <2>2, <2>3, <2>4 DEF TypeInv
<1>9. ASSUME LoopStep
      PROVE  TypeInv'
  <2>1. TypeOK'
    <3>1. CASE SocketReadable
      <4>1. /\ Head(requests) \in [opcode : 1 .. Len(handlers), arg : Args]
            /\ requests' \in Seq([opcode : 1 .. Len(handlers), arg : Args])
        BY <3>1, TailType, Zenon DEF SocketReadable, TypeInv, TypeOK
      <4>2. handling' \in Reply
        BY <3>1, <4>1 DEF SocketReadable, TypeInv, TypeOK, Reply
      <4> QED BY <3>1, <4>1, <4>2, SMTT(30) DEF SocketReadable, TypeInv, TypeOK
    <3>2. CASE CallHandler
      BY <3>2 DEF CallHandler, TypeInv, TypeOK, Reply
    <3>3. CASE SendReply
      <4>1. replies' \in Seq(Reply)
        BY <3>3, AppendKeeps, Zenon DEF SendReply, TypeInv, TypeOK, Reply
      <4> QED BY <3>3, <4>1 DEF SendReply, TypeInv, TypeOK
    <3> QED BY <1>9, <3>1, <3>2, <3>3 DEF LoopStep
  <2>2. UNCHANGED <<pc, holder, adding, call, handlers>>
    BY <1>9, Zenon DEF LoopStep, SocketReadable, CallHandler, SendReply
  <2> QED BY <2>1, <2>2 DEF TypeInv, MutexInv, SerialiserHeld, OpcodeInv
<1>10. CASE Crash
  BY <1>10, Zenon DEF Crash, TypeInv, TypeOK, MutexInv, SerialiserHeld, OpcodeInv
<1>11. CASE UNCHANGED vars
  BY <1>11, Zenon DEF vars, TypeInv, TypeOK, MutexInv, SerialiserHeld, OpcodeInv
<1> QED
  BY <1>1, <1>2, <1>3, <1>4, <1>5, <1>7, <1>8, <1>9, <1>10, <1>11, Zenon
  DEF Next, ThreadStep, Rest

(* Every variable keeps its type, and no functor or packet ever carries an   *)
(* opcode that is out of range in socket_readable().                         *)
THEOREM TypeCorrect == Spec => []TypeOK
<1>1. Init => TypeInv
  BY TypeInit, Zenon
<1>2. TypeInv /\ [Next]_vars => TypeInv'
  BY TypeStep, Zenon
<1>3. TypeInv => TypeOK
  BY Zenon DEF TypeInv
<1> QED BY <1>1, <1>2, <1>3, PTL DEF Spec

(* message_serialiser is held exactly between the two halves of an exchange, *)
(* whichever functors have thrown.                                           *)
THEOREM SerialiserCorrect == Spec => []SerialiserHeld
<1>1. Init => TypeInv
  BY TypeInit, Zenon
<1>2. TypeInv /\ [Next]_vars => TypeInv'
  BY TypeStep, Zenon
<1>3. TypeInv => SerialiserHeld
  BY Zenon DEF TypeInv, MutexInv
<1> QED BY <1>1, <1>2, <1>3, PTL DEF Spec

-----------------------------------------------------------------------------
(* The exchange: no recv() is interrupted, and one thread at most registers  *)
(* operations (in WLCS, the thread that runs the tests).                     *)

(* The initial state satisfies the inductive invariant.                    *)
LEMMA ExchangeInit ==
  ASSUME Init
  PROVE  IInv
<1>1. TypeInv
  BY TypeInit, Zenon
<1>2. FunctorInv
  BY <1>1, ConstantsAssumption DEF Init, FunctorInv
<1>3. ExchangeInv /\ ReturnInv
  BY Zenon DEF Init, ExchangeInv, ReturnInv, ReplyIsOwn, ReturnedRanOnce
<1>4. FreshInv
  BY Zenon DEF Init, FreshInv
<1> QED BY <1>1, <1>2, <1>3, <1>4 DEF IInv

(* Only one thread is inside its exchange. *)
LEMMA AloneInExchange ==
  ASSUME MutexInv, NEW c \in Callers, NEW d \in Callers,
         pc[c] \in {"send", "recv"}, pc[d] \in {"send", "recv"}
  PROVE  c = d
BY DEF MutexInv, SerialiserHeld

(* What a waiting thread receives is the reply to its own request. *)
LEMMA OwnReply ==
  ASSUME IInv, NEW c \in Callers, pc[c] = "recv", replies # <<>>
  PROVE  Answered(c) /\ Head(replies) = InvocationOf(call[c]) /\ Tail(replies) = <<>>
<1>1. Answered(c)
  BY Zenon DEF IInv, ExchangeInv, Sent, Handled
<1> QED BY <1>1 DEF Answered

(* A step that touches neither the sockets nor the threads waiting on them. *)
LEMMA ExchangeKept ==
  ASSUME ExchangeInv, UNCHANGED <<requests, replies, loop, handling, runs>>,
         \A c \in Callers : pc'[c] = "recv" <=> pc[c] = "recv",
         \A c \in Callers : pc[c] = "recv" => call'[c] = call[c]
  PROVE  ExchangeInv'
<1>1. ASSUME NEW c \in Callers, pc'[c] = "recv"
      PROVE  Sent(c)' \/ Handled(c)' \/ Answered(c)'
  <2>1. Sent(c) \/ Handled(c) \/ Answered(c)
    BY <1>1, Zenon DEF ExchangeInv
  <2>2. call'[c] = call[c]
    BY <1>1, Zenon
  <2>3. Sent(c) => Sent(c)'
    BY <2>2, Zenon DEF Sent, Request
  <2>4. Handled(c) => Handled(c)'
    BY <2>2, Zenon DEF Handled
  <2>5. Answered(c) => Answered(c)'
    BY <2>2, Zenon DEF Answered, InvocationOf
  <2> QED BY <2>1, <2>3, <2>4, <2>5
<1> QED BY <1>1 DEF ExchangeInv

(* RemoteCall's view of a thread inside a functor. *)
LEMMA StageInFunctor ==
  ASSUME NEW c \in Callers, pc[c] \in {"lock", "send", "recv"}
  PROVE  StageOf(c) = IF runs[call[c].arg] = 0 THEN "called" ELSE "ran"
BY DEF StageOf

(* When the loop has something to do, a thread is waiting for it. *)
LEMMA WaitingThread ==
  ASSUME IInv, requests # <<>> \/ loop # "poll"
  PROVE  \E c \in Callers : /\ pc[c] = "recv"
                            /\ requests # <<>> => Sent(c)
                            /\ loop # "poll" => Handled(c)
                            /\ \A d \in Callers : pc[d] = "recv" => d = c
<1>1. PICK c \in Callers : pc[c] = "recv"
  BY Zenon DEF IInv, ExchangeInv
<1>2. Sent(c) \/ Handled(c)
  BY <1>1, Zenon DEF IInv, ExchangeInv, Answered
<1>3. \A d \in Callers : pc[d] = "recv" => d = c
  BY <1>1, AloneInExchange, Zenon DEF IInv, TypeInv
<1> QED BY <1>1, <1>2, <1>3 DEF Sent, Handled

(* Every step keeps the inductive invariant of the exchange.               *)
LEMMA ExchangeStep ==
  ASSUME "recv" \notin Faults, \A x, y \in Registrars : x = y, IInv, [Next]_vars
  PROVE  IInv'
<1> USE ConstantsAssumption DEF opVars, sockets, loopVars, histVars
<1>0. TypeInv /\ TypeInv' /\ TypeOK /\ MutexInv
  BY TypeStep, Zenon DEF IInv, TypeInv
<1>1. ASSUME NEW c \in Callers, NEW f \in Callables, RegisterOp(c, f)
      PROVE  IInv'
  <2>1. FunctorInv'
    BY <1>0, <1>1 DEF RegisterOp, IInv, FunctorInv, TypeOK, Functor
  <2>2. ExchangeInv'
    <3>1. /\ UNCHANGED <<requests, replies, loop, handling, runs>>
          /\ \A d \in Callers : pc'[d] = "recv" <=> pc[d] = "recv"
          /\ \A d \in Callers : pc[d] = "recv" => call'[d] = call[d]
      BY <1>0, <1>1, Zenon DEF RegisterOp, TypeOK
    <3> QED BY <3>1, ExchangeKept DEF IInv
  <2>3. FreshInv'
    BY <1>0, <1>1 DEF RegisterOp, IInv, FreshInv, TypeOK
  <2>4. ReturnInv'
    BY <1>1, Zenon DEF RegisterOp, IInv, ReturnInv, ReplyIsOwn, ReturnedRanOnce
  <2> QED BY <1>0, <2>1, <2>2, <2>3, <2>4 DEF IInv
<1>2. ASSUME NEW c \in Callers, Emplace(c)
      PROVE  IInv'
  <2>1. FunctorInv'
    <3>1. /\ Len(handlers') = Len(handlers) + 1
          /\ Len(handlers) \in Nat
          /\ handlers'[Len(handlers) + 1] = adding[c].callable
          /\ \A i \in 1 .. Len(handlers) : handlers'[i] = handlers[i]
      <4>1. handlers' = Append(handlers, adding[c].callable) /\ adding[c].callable \in Callables
        BY <1>0, <1>2, Zenon DEF Emplace, TypeOK, Functor
      <4>2. handlers \in Seq(Callables)
        BY <1>0, Zenon DEF TypeOK
      <4> QED BY <4>1, <4>2, AppendKeeps
    <3>2. \A d \in Callers : pc'[d] # "emplace"
      BY <1>0, <1>2 DEF Emplace, IInv, FunctorInv, TypeOK
    <3>3. \A fn \in functors' : fn.opcode \in 1 .. Len(handlers') /\ handlers'[fn.opcode] = fn.callable
      BY <1>2, <3>1 DEF Emplace, IInv, FunctorInv
    <3>4. \A d \in Callers : pc'[d] \in {"lock", "send", "recv"} =>
            /\ call'[d].opcode \in 1 .. Len(handlers')
            /\ handlers'[call'[d].opcode] = call'[d].callable
      <4>1. call' = call /\ \A d \in Callers : pc'[d] = pc[d] \/ pc'[d] = "idle"
        BY <1>0, <1>2, Zenon DEF Emplace, TypeOK
      <4>2. \A d \in Callers : pc[d] \in {"lock", "send", "recv"} =>
              /\ call[d].opcode \in 1 .. Len(handlers)
              /\ handlers[call[d].opcode] = call[d].callable
        BY Zenon DEF IInv, FunctorInv
      <4>3. ASSUME NEW d \in Callers, pc'[d] \in {"lock", "send", "recv"}
            PROVE  /\ call'[d].opcode \in 1 .. Len(handlers')
                   /\ handlers'[call'[d].opcode] = call'[d].callable
        <5>1. /\ call[d].opcode \in 1 .. Len(handlers)
              /\ handlers[call[d].opcode] = call[d].callable
              /\ call'[d] = call[d]
          BY <4>1, <4>2, <4>3, Zenon
        <5> QED BY <3>1, <5>1
      <4> QED BY <4>3
    <3> QED BY <3>2, <3>3, <3>4 DEF FunctorInv
  <2>2. ExchangeInv'
    <3>1. /\ UNCHANGED <<requests, replies, loop, handling, runs>>
          /\ \A d \in Callers : pc'[d] = "recv" <=> pc[d] = "recv"
          /\ \A d \in Callers : pc[d] = "recv" => call'[d] = call[d]
      BY <1>0, <1>2, Zenon DEF Emplace, TypeOK
    <3> QED BY <3>1, ExchangeKept DEF IInv
  <2>3. FreshInv'
    BY <1>0, <1>2, ZenonT(30) DEF Emplace, IInv, FreshInv, TypeOK
  <2>4. ReturnInv'
    BY <1>2, Zenon DEF Emplace, IInv, ReturnInv, ReplyIsOwn, ReturnedRanOnce
  <2> QED BY <1>0, <2>1, <2>2, <2>3, <2>4 DEF IInv
<1>3. ASSUME NEW c \in Callers, NEW fn \in functors, Invoke(c, fn)
      PROVE  IInv'
  <2>1. FunctorInv'
    BY <1>0, <1>3, Zenon DEF Invoke, IInv, FunctorInv, TypeOK, Call
  <2>2. ExchangeInv'
    <3>1. /\ UNCHANGED <<requests, replies, loop, handling, runs>>
          /\ \A d \in Callers : pc'[d] = "recv" <=> pc[d] = "recv"
          /\ \A d \in Callers : pc[d] = "recv" => call'[d] = call[d]
      BY <1>0, <1>3, Zenon DEF Invoke, TypeOK
    <3> QED BY <3>1, ExchangeKept DEF IInv
  <2>3. FreshInv'
    <3>1. nextArg \in Args /\ nextArg \in Nat /\ nextArg' = nextArg + 1
      BY <1>0, <1>3 DEF Invoke, TypeOK, Args
    <3>2. /\ pc'[c] = "lock" /\ call'[c].arg = nextArg
          /\ \A d \in Callers \ {c} : pc'[d] = pc[d] /\ call'[d] = call[d]
          /\ \A d \in Callers : call[d].arg \in Nat
          /\ runs' = runs
      BY <1>0, <1>3 DEF Invoke, TypeOK, Call, Args
    <3> QED BY <3>1, <3>2 DEF IInv, FreshInv, Args
  <2>4. ReturnInv'
    BY <1>3, Zenon DEF Invoke, IInv, ReturnInv, ReplyIsOwn, ReturnedRanOnce
  <2> QED BY <1>0, <2>1, <2>2, <2>3, <2>4 DEF IInv
<1>4. ASSUME NEW c \in Callers, Lock(c)
      PROVE  IInv'
  <2>1. FunctorInv'
    BY <1>0, <1>4 DEF Lock, IInv, FunctorInv, TypeOK
  <2>2. ExchangeInv'
    <3>1. /\ UNCHANGED <<requests, replies, loop, handling, runs>>
          /\ \A d \in Callers : pc'[d] = "recv" <=> pc[d] = "recv"
          /\ \A d \in Callers : pc[d] = "recv" => call'[d] = call[d]
      BY <1>0, <1>4, Zenon DEF Lock, TypeOK
    <3> QED BY <3>1, ExchangeKept DEF IInv
  <2>3. FreshInv'
    BY <1>0, <1>4 DEF Lock, IInv, FreshInv, TypeOK
  <2>4. ReturnInv'
    BY <1>4, Zenon DEF Lock, IInv, ReturnInv, ReplyIsOwn, ReturnedRanOnce
  <2> QED BY <1>0, <2>1, <2>2, <2>3, <2>4 DEF IInv
<1>5. ASSUME NEW c \in Callers, Send(c)
      PROVE  IInv'
  <2>1. FunctorInv'
    BY <1>0, <1>5, Zenon DEF Send, IInv, FunctorInv, TypeOK
  <2>2. ExchangeInv'
    <3>1. \A d \in Callers : d # c => pc[d] # "recv" /\ pc'[d] # "recv"
      BY <1>0, <1>5, AloneInExchange, Zenon DEF Send, TypeOK
    <3>2. pc[c] # "recv" /\ pc'[c] = "recv"
      BY <1>0, <1>5, Zenon DEF Send, TypeOK
    <3>3. requests = <<>> /\ replies = <<>> /\ loop = "poll"
      BY <3>1, <3>2, Zenon DEF IInv, ExchangeInv
    <3>4. requests' = <<Request(c)>>
      BY <1>5, <3>3, AppendEmpty, Zenon DEF Send, Request
    <3>5. runs[call[c].arg] = 0
      BY <1>5, Zenon DEF Send, IInv, FreshInv
    <3>6. Sent(c)'
      BY <1>5, <3>3, <3>4, <3>5, Zenon DEF Send, Sent, Request
    <3> QED BY <3>1, <3>2, <3>6 DEF ExchangeInv
  <2>3. FreshInv'
    BY <1>0, <1>5, Zenon DEF Send, IInv, FreshInv, TypeOK
  <2>4. ReturnInv'
    BY <1>5, Zenon DEF Send, IInv, ReturnInv, ReplyIsOwn, ReturnedRanOnce
  <2> QED BY <1>0, <2>1, <2>2, <2>3, <2>4 DEF IInv
<1>6. ASSUME NEW c \in Callers, SendFails(c)
      PROVE  IInv'
  <2>1. FunctorInv'
    BY <1>0, <1>6, Zenon DEF SendFails, Throw, IInv, FunctorInv, TypeOK
  <2>2. ExchangeInv'
    <3>1. /\ UNCHANGED <<requests, replies, loop, handling, runs>>
          /\ \A d \in Callers : pc'[d] = "recv" <=> pc[d] = "recv"
          /\ \A d \in Callers : pc[d] = "recv" => call'[d] = call[d]
      BY <1>0, <1>6, Zenon DEF SendFails, Throw, TypeOK
    <3> QED BY <3>1, ExchangeKept DEF IInv
  <2>3. FreshInv'
    BY <1>0, <1>6 DEF SendFails, Throw, IInv, FreshInv, TypeOK
  <2>4. ReturnInv'
    BY <1>6, Zenon DEF SendFails, Throw, IInv, ReturnInv, ReplyIsOwn, ReturnedRanOnce
  <2> QED BY <1>0, <2>1, <2>2, <2>3, <2>4 DEF IInv
<1>7. ASSUME NEW c \in Callers, Recv(c)
      PROVE  IInv'
  <2>0. /\ pc[c] = "recv" /\ Answered(c)
        /\ Head(replies) = InvocationOf(call[c]) /\ replies' = <<>>
    BY <1>7, OwnReply, Zenon DEF Recv
  <2>1. FunctorInv'
    BY <1>0, <1>7 DEF Recv, IInv, FunctorInv, TypeOK
  <2>2. ExchangeInv'
    <3>0. \A d \in Callers : pc[d] = "recv" => d = c
      BY <1>0, <2>0, AloneInExchange, Zenon
    <3>1. \A d \in Callers : pc'[d] # "recv"
      BY <1>0, <1>7, <3>0, Zenon DEF Recv, TypeOK
    <3>2. requests' = <<>> /\ replies' = <<>> /\ loop' = "poll"
      BY <1>7, <2>0, Zenon DEF Recv, Answered
    <3> QED BY <3>1, <3>2 DEF ExchangeInv
  <2>3. FreshInv'
    BY <1>0, <1>7, Zenon DEF Recv, IInv, FreshInv, TypeOK
  <2>4. ReturnInv'
    <3> DEFINE last == [call |-> call[c], reply |-> InvocationOf(call[c])]
    <3>1. returned' = returned \cup {last}
      BY <1>7, <2>0, Zenon DEF Recv
    <3>5. last.call = call[c] /\ last.reply = [callable |-> last.call.callable, arg |-> last.call.arg]
      BY Zenon DEF InvocationOf
    <3> HIDE DEF last
    <3>2. runs' = runs /\ runs[call[c].arg] = 1
      BY <1>7, <2>0, Zenon DEF Recv, Answered
    <3>3. ReplyIsOwn'
      BY <3>1, <3>5, Zenon DEF IInv, ReturnInv, ReplyIsOwn
    <3>4. ReturnedRanOnce'
      BY <3>1, <3>2, <3>5, Zenon DEF IInv, ReturnInv, ReturnedRanOnce
    <3> QED BY <3>3, <3>4 DEF ReturnInv
  <2> QED BY <1>0, <2>1, <2>2, <2>3, <2>4 DEF IInv
<1>8. ASSUME NEW c \in Callers, RecvShort(c) \/ RecvFails(c)
      PROVE  FALSE
  <2>1. ~RecvFails(c)
    BY Zenon DEF RecvFails
  <2>2. RecvShort(c) => FALSE
    <3> SUFFICES ASSUME RecvShort(c) PROVE FALSE
      BY Zenon
    <3>1. pc[c] = "recv" /\ replies # <<>> /\ Head(replies).callable # call[c].callable
      BY Zenon DEF RecvShort, ShortReply
    <3>2. Head(replies) = InvocationOf(call[c])
      BY <3>1, OwnReply, Zenon
    <3> QED BY <3>1, <3>2 DEF InvocationOf
  <2> QED BY <1>8, <2>1, <2>2
<1>9. CASE SocketReadable
  <2>1. PICK c \in Callers : /\ pc[c] = "recv" /\ Sent(c)
                             /\ \A d \in Callers : pc[d] = "recv" => d = c
    BY <1>9, WaitingThread, Zenon DEF SocketReadable
  <2>2. UNCHANGED <<opVars, pc, call, holder, replies, runs, returned, nextArg>>
    BY <1>9, Zenon DEF SocketReadable
  <2>3. Head(requests) = Request(c) /\ Tail(requests) = <<>>
    <3>1. requests = <<Request(c)>>
      BY <2>1, Zenon DEF Sent
    <3> QED BY <3>1
  <2>4. handlers[call[c].opcode] = call[c].callable
    BY <2>1, Zenon DEF IInv, FunctorInv
  <2>5. Handled(c)'
    <3>1. /\ loop' = "call" /\ requests' = <<>>
          /\ handling'.callable = call[c].callable /\ handling'.arg = call[c].arg
      BY <1>9, <2>3, <2>4 DEF SocketReadable, Request
    <3>2. replies = <<>> /\ runs[call[c].arg] = 0
      BY <2>1, Zenon DEF Sent
    <3> QED BY <2>2, <3>1, <3>2, SMTT(30) DEF Handled
  <2>6. ExchangeInv'
    BY <2>1, <2>2, <2>5, Zenon DEF ExchangeInv
  <2>7. FunctorInv' /\ FreshInv' /\ ReturnInv'
    BY <2>2, Zenon DEF IInv, FunctorInv, FreshInv, ReturnInv, ReplyIsOwn, ReturnedRanOnce
  <2> QED BY <1>0, <2>6, <2>7 DEF IInv
<1>10. CASE CallHandler
  <2>1. PICK c \in Callers : /\ pc[c] = "recv" /\ Handled(c)
                             /\ \A d \in Callers : pc[d] = "recv" => d = c
    BY <1>10, WaitingThread, Zenon DEF CallHandler
  <2>2. /\ UNCHANGED <<opVars, pc, call, holder, sockets, handling, returned, nextArg>>
        /\ loop = "call" /\ loop' = "reply"
    BY <1>10, Zenon DEF CallHandler
  <2>3. /\ call[c].arg \in Args /\ runs[call[c].arg] = 0 /\ runs'[call[c].arg] = 1
        /\ \A a \in Args : a # call[c].arg => runs'[a] = runs[a]
    BY <1>0, <1>10, <2>1, <2>2 DEF CallHandler, Handled, TypeOK, Call
  <2>4. Handled(c)'
    BY <2>1, <2>2, <2>3, Zenon DEF Handled
  <2>5. ExchangeInv'
    BY <2>1, <2>2, <2>4, Zenon DEF ExchangeInv
  <2>6. FunctorInv'
    BY <2>2, Zenon DEF IInv, FunctorInv
  <2>7. FreshInv'
    <3>1. \A d \in Callers : pc[d] \in {"lock", "send"} =>
             call[d].arg \in Args /\ call[d].arg # call[c].arg
      BY <1>0, <2>1, Zenon DEF IInv, FreshInv, TypeOK, Call
    <3>2. \A a \in Args : a >= nextArg => a # call[c].arg
      BY <1>0, <2>1, <2>3, SMTT(30) DEF IInv, FreshInv, TypeOK, Args
    <3> QED BY <2>2, <2>3, <3>1, <3>2 DEF IInv, FreshInv
  <2>8. ReturnInv'
    <3>1. \A r \in returned : r.call.arg \in Args /\ r.call.arg # call[c].arg
      BY <1>0, <2>3 DEF IInv, ReturnInv, ReturnedRanOnce, TypeOK, Call
    <3> QED BY <2>2, <2>3, <3>1 DEF IInv, ReturnInv, ReplyIsOwn, ReturnedRanOnce
  <2> QED BY <1>0, <2>5, <2>6, <2>7, <2>8 DEF IInv
<1>11. CASE SendReply
  <2>1. PICK c \in Callers : /\ pc[c] = "recv" /\ Handled(c)
                             /\ \A d \in Callers : pc[d] = "recv" => d = c
    BY <1>11, WaitingThread, Zenon DEF SendReply
  <2>2. /\ UNCHANGED <<opVars, pc, call, holder, requests, handling, runs, returned, nextArg>>
        /\ loop = "reply" /\ loop' = "poll"
    BY <1>11, Zenon DEF SendReply
  <2>3. handling = InvocationOf(call[c])
    BY <1>0, <2>1, Zenon DEF Handled, InvocationOf, TypeOK, Reply, Call
  <2>4. replies' = <<InvocationOf(call[c])>>
    BY <1>11, <2>1, <2>3, AppendEmpty, Zenon DEF SendReply, Handled
  <2>5. Answered(c)'
    BY <2>1, <2>2, <2>4, Zenon DEF Handled, Answered, InvocationOf
  <2>6. ExchangeInv'
    BY <2>1, <2>2, <2>5, Zenon DEF ExchangeInv
  <2>7. FunctorInv' /\ FreshInv' /\ ReturnInv'
    BY <2>2, Zenon DEF IInv, FunctorInv, FreshInv, ReturnInv, ReplyIsOwn, ReturnedRanOnce
  <2> QED BY <1>0, <2>6, <2>7 DEF IInv
<1>12. CASE Crash \/ UNCHANGED vars
  <2>1. UNCHANGED <<opVars, pc, call, holder, sockets, loopVars, histVars, nextArg>>
    BY <1>12, Zenon DEF Crash, vars
  <2>2. FunctorInv' /\ FreshInv' /\ ReturnInv'
    BY <2>1, Zenon DEF IInv, FunctorInv, FreshInv, ReturnInv, ReplyIsOwn, ReturnedRanOnce
  <2>3. ExchangeInv'
    BY <2>1, ExchangeKept, Zenon DEF IInv
  <2> QED BY <1>0, <2>2, <2>3 DEF IInv
<1> QED
  BY <1>1, <1>2, <1>3, <1>4, <1>5, <1>6, <1>7, <1>8, <1>9, <1>10, <1>11, <1>12, Zenon
  DEF Next, ThreadStep, LoopStep, Rest

(* What the inductive invariant says in the words of the properties. *)
LEMMA ExchangeMeans ==
  ASSUME IInv
  PROVE  OneRequestInFlight /\ ReplyIsOwn /\ ReturnedRanOnce
<1>1. ASSUME \A c \in Callers : pc[c] # "recv"
      PROVE  OneRequestInFlight
  BY <1>1 DEF IInv, ExchangeInv, OneRequestInFlight, InFlight
<1>2. ASSUME NEW c \in Callers, pc[c] = "recv"
      PROVE  OneRequestInFlight
  <2>1. CASE Sent(c)
    BY <2>1 DEF Sent, OneRequestInFlight, InFlight
  <2>2. CASE Handled(c)
    BY <2>2 DEF Handled, OneRequestInFlight, InFlight
  <2>3. CASE Answered(c)
    BY <2>3 DEF Answered, OneRequestInFlight, InFlight
  <2> QED BY <1>2, <2>1, <2>2, <2>3 DEF IInv, ExchangeInv
<1>3. OneRequestInFlight
  BY <1>1, <1>2, Zenon
<1> QED BY <1>3 DEF IInv, ReturnInv

(* As long as no recv() is interrupted and one thread registers operations,  *)
(* the socket pair carries one request at a time, a functor returns the      *)
(* reply to its own request, and its callable has run exactly once by then.  *)
THEOREM ExchangeCorrect ==
  ASSUME "recv" \notin Faults, \A x, y \in Registrars : x = y
  PROVE  Spec => [](OneRequestInFlight /\ ReplyIsOwn /\ ReturnedRanOnce)
<1>1. Init => IInv
  BY ExchangeInit, Zenon
<1>2. IInv /\ [Next]_vars => IInv'
  BY ExchangeStep, Zenon
<1>3. IInv => OneRequestInFlight /\ ReplyIsOwn /\ ReturnedRanOnce
  BY ExchangeMeans, Zenon
<1> QED BY <1>1, <1>2, <1>3, PTL DEF Spec

(* With a single thread using the proxy, register_op() never grows handlers  *)
(* while the event loop is using it, although no lock orders the two.        *)
THEOREM SingleThreadStable ==
  ASSUME "recv" \notin Faults, \A x, y \in Callers : x = y
  PROVE  Spec => []HandlersStable
<1>1. Init => IInv
  BY ExchangeInit, Zenon
<1>2. IInv /\ [Next]_vars => IInv'
  BY ExchangeStep, ConstantsAssumption, Zenon
<1>3. IInv => HandlersStable
  BY Zenon DEF IInv, ExchangeInv, HandlersStable, HandlersRaced
<1> QED BY <1>1, <1>2, <1>3, PTL DEF Spec

(* A handler runs only while the thread whose request it answers waits.      *)
THEOREM RunsOnlyDuringCall ==
  ASSUME "recv" \notin Faults, \A x, y \in Registrars : x = y
  PROVE  Spec => RunsDuringCall
<1>1. Init => IInv
  BY ExchangeInit, Zenon
<1>2. IInv /\ [Next]_vars => IInv'
  BY ExchangeStep, Zenon
<1>3. ASSUME IInv, [Next]_vars
      PROVE  [\A a \in Args : runs'[a] # runs[a] =>
                \E c \in Callers : pc[c] = "recv" /\ pc'[c] = "recv" /\ call[c].arg = a]_vars
  <2>1. CASE CallHandler
    <3>1. PICK c \in Callers : pc[c] = "recv" /\ Handled(c)
      BY <1>3, <2>1, WaitingThread, Zenon DEF CallHandler
    <3>2. pc' = pc /\ \A a \in Args : a # call[c].arg => runs'[a] = runs[a]
      BY <1>3, <2>1, <3>1, Zenon DEF CallHandler, Handled, IInv, TypeInv, TypeOK
    <3> QED BY <3>1, <3>2
  <2>2. CASE ~CallHandler
    <3>1. runs' = runs
      BY <1>3, <2>2, Zenon DEF Next, ThreadStep, LoopStep, Rest, vars, RegisterOp, Emplace, Invoke,
           Lock, Send, SendFails, RecvFails, RecvShort, Throw, Recv, SocketReadable, SendReply,
           Crash, opVars, sockets, loopVars, histVars
    <3> QED BY <3>1
  <2> QED BY <2>1, <2>2
<1> QED BY <1>1, <1>2, <1>3, PTL DEF Spec, RunsDuringCall

-----------------------------------------------------------------------------
(* Refinement: each step of the proxy is a step of RemoteCall or changes     *)
(* nothing that RemoteCall sees.                                             *)

(* The initial state maps to one of the abstract call.                     *)
LEMMA RefinementInit ==
  ASSUME Init
  PROVE  Abstract!RCInit
<1>1. SomeCallable \in Callables /\ 1 \in Args
  BY ConstantsAssumption DEF SomeCallable, Args
<1>2. [c \in Callers |-> StageOf(c)] = [c \in Callers |-> "idle"]
  BY Zenon DEF Init, StageOf
<1>3. [c \in Callers |-> InvocationOf(call[c])] \in [Callers -> Abstract!Invocation]
  BY <1>1, Zenon DEF Init, InvocationOf, Abstract!Invocation
<1>4. { r.reply : r \in returned } = {}
  BY Zenon DEF Init
<1> QED BY <1>2, <1>3, <1>4 DEF Init, Abstract!RCInit

(* Every step maps to an abstract one or to a stutter.                     *)
LEMMA RefinementStep ==
  ASSUME "recv" \notin Faults, \A x, y \in Registrars : x = y, IInv, [Next]_vars
  PROVE  [Abstract!RCNext]_Abstract!rcVars
<1> USE ConstantsAssumption DEF opVars, sockets, loopVars, histVars
<1> DEFINE stages  == [c \in Callers |-> StageOf(c)]
           current == [c \in Callers |-> InvocationOf(call[c])]
           ended   == { r.reply : r \in returned }
<1>0. TypeOK /\ IInv'
  BY ExchangeStep, Zenon DEF IInv, TypeInv
(* Steps that RemoteCall does not see. *)
<1>1. ASSUME UNCHANGED <<runs, returned>>, UNCHANGED current, UNCHANGED stages
      PROVE  UNCHANGED Abstract!rcVars
  BY <1>1, Zenon DEF Abstract!rcVars
<1>2. ASSUME NEW c \in Callers, NEW f \in Callables, RegisterOp(c, f) \/ Emplace(c) \/ Lock(c) \/ Send(c)
      PROVE  UNCHANGED Abstract!rcVars
  <2>1. UNCHANGED <<runs, returned, call>>
    BY <1>2, Zenon DEF RegisterOp, Emplace, Lock, Send
  <2>2. \A d \in Callers : StageOf(d)' = StageOf(d)
    BY <1>0, <1>2, <2>1, Zenon DEF RegisterOp, Emplace, Lock, Send, StageOf, TypeOK
  <2> QED BY <1>1, <2>1, <2>2
<1>3. ASSUME SocketReadable \/ SendReply \/ Crash \/ UNCHANGED vars
      PROVE  UNCHANGED Abstract!rcVars
  <2>1. UNCHANGED <<runs, returned, call, pc>>
    BY <1>3, Zenon DEF SocketReadable, SendReply, Crash, vars
  <2>2. \A d \in Callers : StageOf(d)' = StageOf(d)
    BY <2>1, Zenon DEF StageOf
  <2> QED BY <1>1, <2>1, <2>2
(* Steps of RemoteCall. *)
<1>4. ASSUME NEW c \in Callers, NEW fn \in functors, Invoke(c, fn)
      PROVE  Abstract!RCInvoke(c)
  <2> DEFINE i == [callable |-> fn.callable, arg |-> nextArg]
  <2>1. i \in Abstract!Invocation /\ nextArg \in Args
    BY <1>0, <1>4 DEF Invoke, TypeOK, Args, Abstract!Invocation
  <2>2. runs[nextArg] = 0
    BY <1>0, <2>1 DEF IInv, FreshInv, Args
  <2>3. \A d \in Callers : StageOf(d) # "idle" => call[d].arg # nextArg
    <3> SUFFICES ASSUME NEW d \in Callers, StageOf(d) # "idle"
                 PROVE  call[d].arg # nextArg
      BY Zenon
    <3>1. pc[d] \in {"lock", "send", "recv"}
      BY <1>0, Zenon DEF StageOf, TypeOK
    <3>2. call[d].arg < nextArg /\ call[d].arg \in Nat /\ nextArg \in Nat
      <4>1. call[d].arg < nextArg
        BY <3>1, Zenon DEF IInv, FreshInv
      <4>2. call[d] \in Call /\ nextArg \in Nat
        BY <1>0 DEF TypeOK
      <4> QED BY <4>1, <4>2 DEF Call, Args
    <3> QED BY <3>2
  <2>4. /\ call'[c] = [callable |-> fn.callable, opcode |-> fn.opcode, arg |-> nextArg]
        /\ \A d \in Callers \ {c} : call'[d] = call[d] /\ pc'[d] = pc[d]
        /\ pc[c] = "idle" /\ pc'[c] = "lock"
        /\ UNCHANGED <<runs, returned>>
    BY <1>0, <1>4, Zenon DEF Invoke, TypeOK
  <2>5. StageOf(c) = "idle" /\ StageOf(c)' = "called"
    <3>1. StageOf(c) = "idle"
      BY <2>4, Zenon DEF StageOf
    <3>2. call'[c].arg = nextArg /\ runs' = runs
      BY <2>4
    <3>3. StageOf(c)' = IF runs'[call'[c].arg] = 0 THEN "called" ELSE "ran"
      BY <2>4, Zenon DEF StageOf
    <3> QED BY <2>2, <3>1, <3>2, <3>3
  <2>6. \A d \in Callers \ {c} : StageOf(d)' = StageOf(d)
    BY <2>4, Zenon DEF StageOf
  <2>7. stages' = [stages EXCEPT ![c] = "called"]
    BY <2>5, <2>6, Zenon
  <2>8. current' = [current EXCEPT ![c] = i]
    <3>1. InvocationOf(call'[c]) = i
      BY <2>4 DEF InvocationOf
    <3>2. \A d \in Callers \ {c} : InvocationOf(call'[d]) = InvocationOf(call[d])
      BY <2>4, Zenon
    <3> QED BY <3>1, <3>2, Zenon
  <2>9. \A d \in Callers : stages[d] # "idle" => current[d].arg # i.arg
    BY <2>3, Zenon DEF InvocationOf
  <2> QED BY <2>1, <2>2, <2>4, <2>5, <2>7, <2>8, <2>9, Zenon DEF Abstract!RCInvoke
<1>5. ASSUME NEW c \in Callers, SendFails(c)
      PROVE  Abstract!RCThrow(c)
  <2>1. /\ UNCHANGED <<call, runs, returned>>
        /\ pc[c] = "send" /\ pc'[c] = "idle"
        /\ \A d \in Callers \ {c} : pc'[d] = pc[d]
    BY <1>0, <1>5, Zenon DEF SendFails, Throw, TypeOK
  <2>2. StageOf(c) = "called" /\ StageOf(c)' = "idle"
    BY <2>1, Zenon DEF StageOf, IInv, FreshInv
  <2>3. stages' = [stages EXCEPT ![c] = "idle"]
    BY <2>1, <2>2, Zenon DEF StageOf
  <2> QED BY <2>1, <2>2, <2>3 DEF Abstract!RCThrow
<1>6. ASSUME NEW c \in Callers, Recv(c)
      PROVE  Abstract!RCReturn(c)
  <2>1. /\ UNCHANGED <<call, runs>>
        /\ pc[c] = "recv" /\ pc'[c] = "idle"
        /\ \A d \in Callers \ {c} : pc'[d] = pc[d]
        /\ returned' = returned \cup {[call |-> call[c], reply |-> Head(replies)]}
        /\ Answered(c) /\ Head(replies) = InvocationOf(call[c])
    BY <1>0, <1>6, OwnReply, Zenon DEF Recv, TypeOK
  <2>2. StageOf(c) = "ran" /\ StageOf(c)' = "idle"
    <3>1. runs[call[c].arg] = 1
      BY <2>1, Zenon DEF Answered
    <3>2. pc[c] = "recv"
      BY <2>1, Zenon
    <3>4. StageOf(c) = "ran"
      BY <3>1, <3>2 DEF StageOf
    <3>3. StageOf(c)' = "idle"
      BY <2>1, Zenon DEF StageOf
    <3> QED BY <3>3, <3>4
  <2>3. stages' = [stages EXCEPT ![c] = "idle"]
    BY <2>1, <2>2, Zenon DEF StageOf
  <2>4. ended' = ended \cup {current[c]}
    <3> DEFINE last == [call |-> call[c], reply |-> Head(replies)]
    <3>1. last.reply = InvocationOf(call[c]) /\ returned' = returned \cup {last}
      BY <2>1, Zenon
    <3> HIDE DEF last
    <3>2. last.reply = current[c]
      BY <3>1, Zenon
    <3>3. ended' = { r.reply : r \in returned \cup {last} }
      BY <3>1, Zenon
    <3>4. \A x : x \in ended' <=> x \in ended \/ x = current[c]
      BY <3>2, <3>3, Zenon
    <3> QED BY <3>4, Zenon
  <2> QED BY <2>1, <2>2, <2>3, <2>4 DEF Abstract!RCReturn
<1>7. ASSUME CallHandler
      PROVE  \E c \in Callers : Abstract!RCRun(c)
  <2>1. PICK c \in Callers : /\ pc[c] = "recv" /\ Handled(c)
                             /\ \A d \in Callers : pc[d] = "recv" => d = c
    BY <1>7, WaitingThread, Zenon DEF CallHandler
  <2>2. /\ UNCHANGED <<call, pc, returned>>
        /\ loop = "call"
        /\ runs' = [runs EXCEPT ![call[c].arg] = @ + 1]
        /\ runs[call[c].arg] = 0 /\ call[c].arg \in Args /\ runs \in [Args -> Nat]
    BY <1>0, <1>7, <2>1, Zenon DEF CallHandler, Handled, TypeOK, Call
  <2>3. StageOf(c) = "called" /\ StageOf(c)' = "ran"
    <3>1. StageOf(c) = "called"
      BY <2>1, <2>2, StageInFunctor, Zenon
    <3>2. runs'[call'[c].arg] = 1 /\ pc'[c] = "recv"
      BY <2>1, <2>2
    <3>3. StageOf(c)' = "ran"
      BY <3>2 DEF StageOf
    <3> QED BY <3>1, <3>3
  <2>4. \A d \in Callers \ {c} : StageOf(d)' = StageOf(d)
    <3> TAKE d \in Callers \ {c}
    <3>1. CASE pc[d] \in {"idle", "emplace"}
      BY <2>2, <3>1, Zenon DEF StageOf
    <3>2. CASE pc[d] \in {"lock", "send", "recv"}
      <4>1. call[d].arg # call[c].arg /\ call[d].arg \in Args
        BY <1>0, <2>1, <3>2, Zenon DEF IInv, FreshInv, TypeOK, Call
      <4> QED BY <2>2, <4>1 DEF StageOf
    <3> QED BY <1>0, <3>1, <3>2 DEF TypeOK
  <2>5. stages' = [stages EXCEPT ![c] = "ran"]
    BY <2>3, <2>4, Zenon
  <2>6. runs' = [runs EXCEPT ![current[c].arg] = @ + 1] /\ UNCHANGED <<current, ended>>
    BY <2>2, Zenon DEF InvocationOf
  <2> QED BY <2>3, <2>5, <2>6, Zenon DEF Abstract!RCRun
<1>8. ASSUME NEW c \in Callers, RecvShort(c) \/ RecvFails(c)
      PROVE  FALSE
  <2>1. ~RecvFails(c)
    BY Zenon DEF RecvFails
  <2>2. RecvShort(c) => FALSE
    <3> SUFFICES ASSUME RecvShort(c) PROVE FALSE
      BY Zenon
    <3>1. pc[c] = "recv" /\ replies # <<>> /\ Head(replies).callable # call[c].callable
      BY Zenon DEF RecvShort, ShortReply
    <3>2. Head(replies) = InvocationOf(call[c])
      BY <3>1, OwnReply, Zenon
    <3> QED BY <3>1, <3>2 DEF InvocationOf
  <2> QED BY <1>8, <2>1, <2>2
<1> HIDE DEF stages, current, ended
<1> QED
  BY <1>2, <1>3, <1>4, <1>5, <1>6, <1>7, <1>8, Zenon
  DEF Next, ThreadStep, LoopStep, Rest, Abstract!RCNext

(* ThreadProxy implements RemoteCall: for its users a functor is an ordinary *)
(* synchronous call, although it runs on another thread.                     *)
THEOREM ImplementsRemoteCall ==
  ASSUME "recv" \notin Faults, \A x, y \in Registrars : x = y
  PROVE  Spec => IsSynchronousCall
<1>1. Init => IInv /\ Abstract!RCInit
  BY ExchangeInit, RefinementInit, Zenon
<1>2. IInv /\ [Next]_vars => IInv'
  BY ExchangeStep, Zenon
<1>3. IInv /\ [Next]_vars => [Abstract!RCNext]_Abstract!rcVars
  BY RefinementStep, Zenon
<1> QED BY <1>1, <1>2, <1>3, PTL DEF Spec, IsSynchronousCall, Abstract!RCSpec
=============================================================================
