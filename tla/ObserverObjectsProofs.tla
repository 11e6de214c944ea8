----------------------- MODULE ObserverObjectsProofs -----------------------
(***************************************************************************)
(* The invariants of the objects that keep what the compositor last told   *)
(* them, for all outputs, surfaces and proxies and all bounds.  The kinds  *)
(* of object share no state, so each has an inductive invariant of its     *)
(* own, and a step of the composition is a step of one kind or leaves it   *)
(* alone.                                                                  *)
(***************************************************************************)
EXTENDS ObserverObjects, TLAPS

-----------------------------------------------------------------------------
(* Objects that own a proxy.                                               *)

(* Of every class: the serials are those of some of its events, and one    *)
(* whose objects move has none.                                            *)
LEMMA ClassFacts ==
  ASSUME NEW c \in Owner!Classes
  PROVE  /\ c.serials \subseteq c.events
         /\ c.destroys \in BOOLEAN /\ c.moves \in BOOLEAN
         /\ c.moves => c.events = {}
         /\ c.serials # {} => c.destroys
<1> DEFINE Good(d) == /\ d.serials \subseteq d.events
                      /\ d.destroys \in BOOLEAN /\ d.moves \in BOOLEAN
                      /\ d.moves => d.events = {}
                      /\ d.serials # {} => d.destroys
<1>2. ASSUME NEW E PROVE Good(Owner!Object(E))
  BY Zenon DEF Owner!Object
<1>3. ASSUME NEW E, NEW S \in SUBSET E, NEW k
      PROVE  Good([Owner!Object(E) EXCEPT !.serials = S, !.keeps = k])
  BY Zenon DEF Owner!Object
<1>4. ASSUME NEW E PROVE Good([Owner!Object(E) EXCEPT !.destroys = FALSE])
  BY Zenon DEF Owner!Object
<1>5. Good(Owner!WlHandle)
  BY Zenon DEF Owner!Object, Owner!WlHandle
<1> HIDE DEF Good
<1>6. Good(Owner!MockTextInputV2)
  BY <1>3, Zenon DEF Owner!MockTextInputV2
<1>7. Good(Owner!MockInputMethodV2) /\ Good(Owner!MockInputMethodContextV1)
  BY <1>3, Zenon DEF Owner!MockInputMethodV2, Owner!MockInputMethodContextV1
<1>8. Good(Owner!LinuxDmabufFeedbackV1)
  BY <1>4, Zenon DEF Owner!LinuxDmabufFeedbackV1
<1>9. \/ c \in {Owner!WlHandle, Owner!MockTextInputV2, Owner!MockInputMethodV2,
                Owner!MockInputMethodContextV1, Owner!LinuxDmabufFeedbackV1}
      \/ \E E : c = Owner!Object(E)
  BY Zenon DEF Owner!Classes, Owner!XdgSurfaceStable, Owner!XdgToplevelStable,
         Owner!XdgPositionerStable, Owner!XdgPopupStable, Owner!XdgSurfaceV6,
         Owner!XdgToplevelV6, Owner!XdgPositionerV6, Owner!XdgPopupV6,
         Owner!ZwpConfinedPointerV1, Owner!ZwpLockedPointerV1, Owner!ZwpRelativePointerV1,
         Owner!ZxdgToplevelDecorationV1, Owner!MockTextInputV3
<1>10. Good(c)
  BY <1>2, <1>5, <1>6, <1>7, <1>8, <1>9, Zenon
<1> QED
  BY <1>10, Zenon DEF Good

(* Any step is one of the objects that own a proxy or leaves them alone.   *)
LEMMA OwnerStep == [ObserversNext]_observersVars => Owner!Next \/ UNCHANGED ownerVars
  BY Zenon DEF ObserversNext, observersVars

(* Types; the proxy of an object was made by the compositor.               *)
OwnerType ==
    /\ class \in Owner!Classes
    /\ places \subseteq Places /\ known \subseteq used /\ used \subseteq Handles
    /\ wl_object \in [Places -> Handles \cup {NoHandle}]
    /\ owns_wl_object \in [Places -> BOOLEAN]
    /\ listenerData \in [Handles -> Places \cup {"none"}]
    /\ seen_serial \in [Places -> Nat] /\ stamped \in [Handles -> Nat]
    /\ queue \in Seq(Handles \X class.events \X Nat)
    /\ \A a \in places : wl_object[a] \in used
    /\ revived \in BOOLEAN /\ (class.events # {} => revived = FALSE)

(* An owner's proxy is known, a known proxy has an owner and only one;     *)
(* where the class has events, every object is an owner and its proxy's    *)
(* listener calls it.                                                      *)
Owns(a) == a \in places /\ owns_wl_object[a]

Ownership ==
    /\ \A a \in Places : Owns(a) => wl_object[a] \in known
    /\ \A p \in known : \E a \in Places : Owns(a) /\ wl_object[a] = p
    /\ \A a, b \in Places : Owns(a) /\ Owns(b) /\ wl_object[a] = wl_object[b] => a = b
    /\ class.events # {} =>
          \A a \in Places : a \in places => Owns(a) /\ listenerData[wl_object[a]] = a

(* The ownership holds for every class that destroys its proxies, as long  *)
(* as no handle was moved twice, and no misuse was seen.                   *)
OwnerInv ==
    /\ OwnerType
    /\ class.destroys /\ revived = FALSE =>
          Ownership /\ stray = FALSE /\ twice = FALSE /\ misused = FALSE

(* No object is made at the start.                                         *)
LEMMA OwnerInit == Owner!Init => OwnerInv
<1> SUFFICES ASSUME Owner!Init PROVE OwnerInv
  BY Zenon
<1>1. queue \in Seq(Handles \X class.events \X Nat) /\ 0 \in Nat
  BY DEF Owner!Init
<1>2. OwnerType
  BY <1>1, Zenon DEF Owner!Init, OwnerType
<1> QED
  BY <1>2, Zenon DEF Owner!Init, OwnerInv, Ownership, Owns

(* The event that stands for a kind of serial is one of the class's.       *)
LEMMA KindsAreEvents ==
  ASSUME OwnerType, NEW k \in Owner!Kinds
  PROVE  (CHOOSE e \in k : TRUE) \in class.events
<1>1. k # {} /\ k \subseteq class.events
  BY ClassFacts, Zenon DEF OwnerType, Owner!Kinds
<1> QED
  BY <1>1, Zenon

(* Every step of the owners keeps the types.                               *)
LEMMA OwnerNextType == OwnerType /\ (Owner!Next \/ UNCHANGED ownerVars) => OwnerType'
<1> SUFFICES ASSUME OwnerType, Owner!Next \/ UNCHANGED ownerVars PROVE OwnerType'
  BY Zenon
<1> USE DEF OwnerType
<1>1. ASSUME NEW a \in Places, Owner!Use(a) PROVE OwnerType'
  BY <1>1, Zenon DEF Owner!Use, Owner!objectVars
<1>2. ASSUME NEW a \in Places, Owner!Destruct(a) PROVE OwnerType'
  BY <1>2, Zenon DEF Owner!Destruct
<1>3. ASSUME NEW a \in Places, NEW p \in Handles, Owner!Construct(a, p) PROVE OwnerType'
  <2>1. seen_serial' \in [Places -> Nat]
    <3>1. PICK s \in {0, Owner!Garbage} : seen_serial' = [seen_serial EXCEPT ![a] = s]
      BY <1>3, Zenon DEF Owner!Construct
    <3> QED
      BY <3>1 DEF Owner!Garbage
  <2> QED
    BY <1>3, <2>1, Zenon DEF Owner!Construct, Owner!Hold
<1>4. ASSUME NEW a \in Places, NEW b \in Places, Owner!Move(a, b) PROVE OwnerType'
  <2>1. class.events = {}
    BY <1>4, ClassFacts, Zenon DEF Owner!Move
  <2> QED
    BY <1>4, <2>1, Zenon DEF Owner!Move, Owner!Hold
<1>5. ASSUME NEW p \in Handles, NEW e \in class.events, Owner!SendEvent(p, e) PROVE OwnerType'
  BY <1>5 DEF Owner!SendEvent, Owner!objectVars
<1>6. CASE Owner!Dispatch
  <2>1. /\ Head(queue) \in Handles \X class.events \X Nat
        /\ queue' \in Seq(Handles \X class.events \X Nat)
    BY <1>6 DEF Owner!Dispatch
  <2>2. seen_serial' \in [Places -> Nat]
    <3>1. CASE Head(queue)[1] \in known
      <4> DEFINE a == listenerData[Head(queue)[1]]
                 v == IF Head(queue)[2] \notin class.serials THEN seen_serial[a]
                      ELSE IF class.keeps = "count" THEN seen_serial[a] + 1 ELSE Head(queue)[3]
      <4>1. seen_serial' = [seen_serial EXCEPT ![a] = v]
        BY <1>6, <3>1, Zenon DEF Owner!Dispatch, Owner!method_event_impl
      <4>2. a \in Places => v \in Nat
        BY <2>1
      <4> QED
        BY <4>1, <4>2, Zenon
    <3> QED
      BY <1>6, <3>1, Zenon DEF Owner!Dispatch
  <2> QED
    BY <1>6, <2>1, <2>2, Zenon DEF Owner!Dispatch
<1>7. CASE UNCHANGED ownerVars
  BY <1>7, Zenon DEF ownerVars
<1> QED
  BY <1>1, <1>2, <1>3, <1>4, <1>5, <1>6, <1>7, KindsAreEvents, Zenon DEF Owner!Next

(* Every step of the owners keeps the ownership.                           *)
LEMMA OwnerNext == OwnerInv /\ (Owner!Next \/ UNCHANGED ownerVars) => OwnerInv'
<1> SUFFICES ASSUME OwnerInv, Owner!Next \/ UNCHANGED ownerVars PROVE OwnerInv'
  BY Zenon
<1>0. /\ OwnerType /\ OwnerType'
      /\ class.moves => class.events = {}
  BY ClassFacts, OwnerNextType, Zenon DEF OwnerInv, OwnerType
<1>10. class' = class
  BY Zenon DEF Owner!Next, ownerVars, Owner!Use, Owner!Destruct, Owner!Construct, Owner!Move,
         Owner!SendEvent, Owner!Dispatch
<1>11. revived' = FALSE => revived = FALSE
  <2>1. \A a, b \in Places : Owner!Move(a, b) => (revived' = FALSE => revived = FALSE)
    BY <1>0 DEF Owner!Move, OwnerType
  <2> QED
    BY <2>1, Zenon DEF Owner!Next, ownerVars, Owner!Use, Owner!Destruct, Owner!Construct,
           Owner!SendEvent, Owner!Dispatch
<1> SUFFICES ASSUME class.destroys, revived' = FALSE
             PROVE  Ownership' /\ stray' = FALSE /\ twice' = FALSE /\ misused' = FALSE
  BY <1>0, <1>10, Zenon DEF OwnerInv
<1> DEFINE Goal == Ownership' /\ stray' = FALSE /\ twice' = FALSE /\ misused' = FALSE
<1>01. Ownership /\ stray = FALSE /\ twice = FALSE /\ misused = FALSE
  BY <1>11, Zenon DEF OwnerInv
<1> USE <1>0, <1>01 DEF OwnerType, Ownership, Owns
<1>1. ASSUME NEW a \in Places, Owner!Use(a) PROVE Goal
  BY <1>1, Zenon DEF Owner!Use, Owner!objectVars
<1>2. ASSUME NEW a \in Places, Owner!Destruct(a) PROVE Goal
  <2>1. /\ UNCHANGED <<class, wl_object, listenerData, stray, misused>>
        /\ \A b \in Places : Owns(b)' <=> Owns(b) /\ b # a
        /\ places' = places \ {a}
    BY <1>2, Zenon DEF Owner!Destruct
  <2>2. twice' = FALSE /\ known' = IF Owns(a) THEN known \ {wl_object[a]} ELSE known
    BY <1>2, Zenon DEF Owner!Destruct
  <2> HIDE DEF Owns
  <2> QED
    BY <2>1, <2>2
<1>3. ASSUME NEW a \in Places, NEW p \in Handles, Owner!Construct(a, p) PROVE Goal
  <2>0. /\ a \notin places /\ p \notin used
        /\ places' = places \cup {a} /\ known' = known \cup {p}
        /\ wl_object' = [wl_object EXCEPT ![a] = p]
        /\ owns_wl_object' = [owns_wl_object EXCEPT ![a] = TRUE]
        /\ listenerData' = [listenerData EXCEPT ![p] = IF class.events = {} THEN "none" ELSE a]
        /\ UNCHANGED <<class, stray, twice, misused>>
    BY <1>3, Zenon DEF Owner!Construct, Owner!Hold
  <2>1. /\ UNCHANGED <<class, stray, twice, misused>>
        /\ \A b \in Places : Owns(b)' <=> Owns(b) \/ b = a
        /\ places' = places \cup {a} /\ a \notin places /\ p \notin used /\ known' = known \cup {p}
    BY <2>0
  <2>2. /\ wl_object'[a] = p /\ \A b \in Places \ {a} : wl_object'[b] = wl_object[b]
        /\ class.events # {} => listenerData'[p] = a
        /\ \A q \in Handles \ {p} : listenerData'[q] = listenerData[q]
    BY <2>0
  <2>3. ~Owns(a)
    BY <2>1, Zenon
  <2>4. \A b \in Places : b \in places \/ Owns(b) => b # a /\ wl_object[b] \in Handles \ {p}
    BY <2>1, <2>3
  <2> HIDE DEF Owns, OwnerType
  <2> QED
    BY <2>1, <2>2, <2>3, <2>4
<1>4. ASSUME NEW a \in Places, NEW b \in Places, Owner!Move(a, b) PROVE Goal
  <2>0. owns_wl_object[a] = TRUE
    BY <1>4, Zenon DEF Owner!Move
  <2>1. /\ UNCHANGED <<class, known, listenerData, stray, twice, misused>>
        /\ class.events = {} /\ Owns(a) /\ ~Owns(b)
        /\ \A c \in Places : Owns(c)' <=> (Owns(c) /\ c # a) \/ c = b
    <3>1. /\ UNCHANGED <<class, known, listenerData, stray, twice, misused>>
          /\ class.events = {} /\ a \in places /\ b \notin places
          /\ places' = places \cup {b}
          /\ owns_wl_object' = [owns_wl_object EXCEPT ![a] = FALSE, ![b] = TRUE]
      BY <1>4, Zenon DEF Owner!Move, Owner!Hold
    <3>a. owns_wl_object \in [Places -> BOOLEAN]
      BY Zenon
    <3> HIDE DEF OwnerType, Ownership
    <3>2. a # b
      BY <3>1, Zenon
    <3>3. \A c \in Places :
             owns_wl_object'[c] = IF c = b THEN TRUE ELSE IF c = a THEN FALSE ELSE owns_wl_object[c]
      BY <3>1, <3>a
    <3> QED
      BY <2>0, <3>1, <3>2, <3>3, Zenon
  <2>2. wl_object'[b] = wl_object[a] /\ \A c \in Places \ {b} : wl_object'[c] = wl_object[c]
    BY <1>4 DEF Owner!Move, Owner!Hold
  <2> HIDE DEF Owns, OwnerType
  <2> QED
    BY <2>1, <2>2
<1>5. ASSUME NEW p \in Handles, NEW e \in class.events, Owner!SendEvent(p, e) PROVE Goal
  BY <1>5, Zenon DEF Owner!SendEvent, Owner!objectVars
<1>6. CASE Owner!Dispatch
  <2>1. Head(queue)[1] \in Handles /\ Head(queue)[2] \in class.events
    BY <1>6 DEF Owner!Dispatch
  <2>2. /\ UNCHANGED <<class, places, wl_object, owns_wl_object, listenerData, known, twice,
                       misused>>
        /\ LET p == Head(queue)[1]
               a == listenerData[p]
           IN  p \in known => stray' = (stray \/ a \notin places \/ wl_object[a] # p)
        /\ Head(queue)[1] \notin known => stray' = stray
    BY <1>6, Zenon DEF Owner!Dispatch
  <2>3. stray' = FALSE
    <3>1. CASE Head(queue)[1] \in known
      <4>1. PICK c \in Places : Owns(c) /\ wl_object[c] = Head(queue)[1]
        BY <3>1, Zenon
      <4>2. c \in places /\ listenerData[Head(queue)[1]] = c
        BY <2>1, <4>1
      <4> QED
        BY <2>2, <3>1, <4>1, <4>2, Zenon
    <3> QED
      BY <2>2, <3>1, Zenon
  <2> QED
    BY <2>2, <2>3, Zenon
<1>7. CASE UNCHANGED ownerVars
  BY <1>7, Zenon DEF ownerVars
<1> QED
  BY <1>1, <1>2, <1>3, <1>4, <1>5, <1>6, <1>7, KindsAreEvents, Zenon DEF Owner!Next

(* A listener calls only the living object that owns its proxy, and a      *)
(* proxy is destroyed once, by its owner: ObjectsOwnProxies for every      *)
(* class of object.                                                        *)
THEOREM OwnersCorrect == ObserversSpec => []ObjectsOwnProxies
<1>1. ObserversInit => OwnerInv
  BY OwnerInit, Zenon DEF ObserversInit
<1>2. OwnerInv /\ [ObserversNext]_observersVars => OwnerInv'
  BY OwnerStep, OwnerNext, Zenon
<1>3. OwnerInv => ObjectsOwnProxies
  BY DEF OwnerInv, Ownership, Owns, OwnerType, ObjectsOwnProxies, Owner!ObjectsOwnProxies
<1> QED
  BY <1>1, <1>2, <1>3, PTL DEF ObserversSpec

-----------------------------------------------------------------------------
(* What is on its way.  A listener has caught up when the events on their  *)
(* way lead, by steps that are what it does with each event, from what it  *)
(* keeps to what the compositor has: an invariant that says so is kept by  *)
(* the compositor, which adds to the end, and by the listener, which takes *)
(* the first.                                                              *)

(* The events w lead from a to z by steps in F.                            *)
Path(F, w, a, z) ==
    \E S : /\ S[1] = a /\ S[Len(w) + 1] = z
           /\ \A k \in 1 .. Len(w) : <<S[k], w[k], S[k + 1]>> \in F

(* With nothing on its way the two ends are the same.                      *)
LEMMA PathEmpty ==
  ASSUME NEW F, NEW a, NEW z
  PROVE  Path(F, <<>>, a, z) <=> a = z
<1>1. ASSUME Path(F, <<>>, a, z) PROVE a = z
  BY <1>1 DEF Path
<1>2. ASSUME a = z PROVE Path(F, <<>>, a, z)
  <2> DEFINE S == [k \in {1} |-> a]
  <2>1. /\ S[1] = a /\ S[Len(<<>>) + 1] = z
        /\ \A k \in 1 .. Len(<<>>) : <<S[k], <<>>[k], S[k + 1]>> \in F
    BY <1>2
  <2> HIDE DEF S
  <2> QED
    BY <2>1, Zenon DEF Path
<1> QED
  BY <1>1, <1>2

(* The compositor sends: one more event at the end.                        *)
LEMMA PathAppend ==
  ASSUME NEW F, NEW E, NEW w \in Seq(E), NEW e \in E, NEW a, NEW y, NEW z,
         Path(F, w, a, y), <<y, e, z>> \in F
  PROVE  Path(F, Append(w, e), a, z)
<1>1. PICK S : /\ S[1] = a /\ S[Len(w) + 1] = y
               /\ \A k \in 1 .. Len(w) : <<S[k], w[k], S[k + 1]>> \in F
  BY Zenon DEF Path
<1> DEFINE T == [k \in 1 .. Len(w) + 2 |-> IF k = Len(w) + 2 THEN z ELSE S[k]]
<1>2. /\ Len(Append(w, e)) = Len(w) + 1 /\ Len(w) \in Nat
      /\ Append(w, e)[Len(w) + 1] = e
      /\ \A k \in 1 .. Len(w) : Append(w, e)[k] = w[k]
  OBVIOUS
<1>3. T[1] = a /\ T[Len(w) + 1] = y /\ T[Len(w) + 2] = z
  BY <1>1, <1>2
<1>4. \A k \in 1 .. Len(w) : T[k] = S[k] /\ T[k + 1] = S[k + 1]
  BY <1>2
<1> HIDE DEF T
<1>5. ASSUME NEW k \in 1 .. Len(w) + 1
      PROVE  <<T[k], Append(w, e)[k], T[k + 1]>> \in F
  <2>1. CASE k \in 1 .. Len(w)
    BY <2>1, <1>1, <1>2, <1>4
  <2>2. CASE k = Len(w) + 1
    BY <2>2, <1>2, <1>3
  <2> QED
    BY <2>1, <2>2, <1>2
<1>6. Len(Append(w, e)) + 1 = Len(w) + 2
  BY <1>2
<1> QED
  BY <1>2, <1>3, <1>5, <1>6, Zenon DEF Path

(* The listener reads: the first event is a step of it.                    *)
LEMMA PathTail ==
  ASSUME NEW F, NEW E, NEW w \in Seq(E), w # <<>>, NEW a, NEW z, Path(F, w, a, z)
  PROVE  \E b : <<a, Head(w), b>> \in F /\ Path(F, Tail(w), b, z)
<1>1. PICK S : /\ S[1] = a /\ S[Len(w) + 1] = z
               /\ \A k \in 1 .. Len(w) : <<S[k], w[k], S[k + 1]>> \in F
  BY Zenon DEF Path
<1>2. /\ Len(Tail(w)) = Len(w) - 1 /\ Len(w) \in Nat \ {0} /\ Head(w) = w[1]
      /\ \A k \in 1 .. Len(w) - 1 : Tail(w)[k] = w[k + 1]
  OBVIOUS
<1> DEFINE T == [k \in 1 .. Len(w) |-> S[k + 1]]
<1>3. T[1] = S[2] /\ T[Len(w)] = z
  BY <1>1, <1>2
<1>4. \A k \in 1 .. Len(w) - 1 : T[k] = S[k + 1] /\ T[k + 1] = S[k + 2]
  BY <1>2
<1> HIDE DEF T
<1>5. ASSUME NEW k \in 1 .. Len(w) - 1
      PROVE  <<T[k], Tail(w)[k], T[k + 1]>> \in F
  <2>1. <<S[k + 1], w[k + 1], S[(k + 1) + 1]>> \in F
    BY <1>1, <1>2
  <2>2. (k + 1) + 1 = k + 2
    BY <1>2
  <2> QED
    BY <2>1, <2>2, <1>2, <1>4
<1>6. Len(Tail(w)) + 1 = Len(w)
  BY <1>2
<1>7. Path(F, Tail(w), S[2], z)
  BY <1>2, <1>3, <1>5, <1>6, Zenon DEF Path
<1>8. <<a, Head(w), S[2]>> \in F
  <2>1. <<S[1], w[1], S[1 + 1]>> \in F
    BY <1>1, <1>2
  <2> QED
    BY <2>1, <1>1, <1>2
<1> QED
  BY <1>7, <1>8, Zenon

(* Events that change nothing are a path that stays.                       *)
LEMMA PathStays ==
  ASSUME NEW F, NEW E, NEW w \in Seq(E), NEW a, \A k \in 1 .. Len(w) : <<a, w[k], a>> \in F
  PROVE  Path(F, w, a, a)
<1> DEFINE S == [k \in 1 .. Len(w) + 1 |-> a]
<1>1. Len(w) \in Nat
  OBVIOUS
<1>2. S[1] = a /\ S[Len(w) + 1] = a /\ \A k \in 1 .. Len(w) : S[k] = a /\ S[k + 1] = a
  BY <1>1
<1> HIDE DEF S
<1>3. S[1] = a /\ S[Len(w) + 1] = a /\ \A k \in 1 .. Len(w) : <<S[k], w[k], S[k + 1]>> \in F
  BY <1>2
<1> QED
  BY <1>3, Zenon DEF Path

(* Two paths in a row.                                                     *)
LEMMA PathJoins ==
  ASSUME NEW F, NEW E, NEW v \in Seq(E), NEW w \in Seq(E), NEW a, NEW y, NEW z,
         Path(F, v, a, y), Path(F, w, y, z)
  PROVE  Path(F, v \o w, a, z)
<1>1. PICK S : /\ S[1] = a /\ S[Len(v) + 1] = y
               /\ \A k \in 1 .. Len(v) : <<S[k], v[k], S[k + 1]>> \in F
  BY Zenon DEF Path
<1>2. PICK R : /\ R[1] = y /\ R[Len(w) + 1] = z
               /\ \A k \in 1 .. Len(w) : <<R[k], w[k], R[k + 1]>> \in F
  BY Zenon DEF Path
<1> DEFINE T == [k \in 1 .. Len(v) + Len(w) + 1 |-> IF k <= Len(v) THEN S[k] ELSE R[k - Len(v)]]
<1>3. /\ Len(v \o w) = Len(v) + Len(w) /\ Len(v) \in Nat /\ Len(w) \in Nat
      /\ \A k \in 1 .. Len(v) : (v \o w)[k] = v[k]
      /\ \A k \in 1 .. Len(w) : (v \o w)[k + Len(v)] = w[k]
  OBVIOUS
<1>4. /\ \A k \in 1 .. Len(v) : T[k] = S[k]
      /\ \A k \in 1 .. Len(w) + 1 : T[k + Len(v)] = R[k]
  BY <1>3
<1> HIDE DEF T
<1>5. T[1] = a /\ T[Len(v) + 1] = y /\ T[Len(v) + Len(w) + 1] = z
  <2>1. T[1 + Len(v)] = R[1] /\ T[Len(w) + 1 + Len(v)] = R[Len(w) + 1]
    BY <1>3, <1>4
  <2>2. 1 + Len(v) = Len(v) + 1 /\ Len(w) + 1 + Len(v) = Len(v) + Len(w) + 1
    BY <1>3
  <2>3. T[1] = a
    <3>1. CASE Len(v) = 0
      BY <3>1, <2>1, <1>1, <1>2, <1>3
    <3>2. CASE Len(v) # 0
      BY <3>2, <1>1, <1>3, <1>4
    <3> QED
      BY <3>1, <3>2
  <2> QED
    BY <2>1, <2>2, <2>3, <1>2
<1>6. ASSUME NEW k \in 1 .. Len(v) + Len(w)
      PROVE  <<T[k], (v \o w)[k], T[k + 1]>> \in F
  <2>1. CASE k < Len(v)
    <3>1. k \in 1 .. Len(v) /\ k + 1 \in 1 .. Len(v)
      BY <2>1, <1>3
    <3>2. T[k] = S[k] /\ T[k + 1] = S[k + 1] /\ (v \o w)[k] = v[k]
      BY <3>1, <1>3, <1>4
    <3> QED
      BY <3>1, <3>2, <1>1
  <2>2. CASE k = Len(v)
    <3>1. k \in 1 .. Len(v)
      BY <2>2, <1>3
    <3>2. T[k] = S[k] /\ T[k + 1] = S[k + 1] /\ (v \o w)[k] = v[k]
      BY <3>1, <2>2, <1>1, <1>3, <1>4, <1>5
    <3> QED
      BY <3>1, <3>2, <1>1
  <2>3. CASE k > Len(v)
    <3>1. PICK j \in 1 .. Len(w) : k = j + Len(v)
      <4>1. k - Len(v) \in 1 .. Len(w) /\ k = (k - Len(v)) + Len(v)
        BY <2>3, <1>3
      <4> QED
        BY <4>1
    <3>2. k + 1 = (j + 1) + Len(v) /\ j + 1 \in 1 .. Len(w) + 1
      BY <3>1, <1>3
    <3>3. T[k] = R[j] /\ T[k + 1] = R[j + 1] /\ (v \o w)[k] = w[j]
      BY <3>1, <3>2, <1>3, <1>4
    <3> QED
      BY <3>1, <3>3, <1>2
  <2>4. k < Len(v) \/ k = Len(v) \/ k > Len(v)
    BY <1>3
  <2> QED
    BY <2>1, <2>2, <2>3, <2>4, Zenon
<1> QED
  BY <1>3, <1>5, <1>6, Zenon DEF Path

(* A wire whose events are in a set is a wire of that set,                 *)
LEMMA WireOf ==
  ASSUME NEW E, NEW T, NEW w \in Seq(E), \A k \in 1 .. Len(w) : w[k] \in T
  PROVE  w \in Seq(T)
  OBVIOUS

(* so are two of them put together, and with an event of it after them,    *)
LEMMA WiresJoin ==
  ASSUME NEW T, NEW v \in Seq(T), NEW w \in Seq(T), NEW e \in T
  PROVE  v \o w \in Seq(T) /\ v \o w \o <<e>> \in Seq(T)
  OBVIOUS

(* and every event on one is in the set.                                   *)
LEMMA WirePlace ==
  ASSUME NEW T, NEW w \in Seq(T)
  PROVE  \A k \in 1 .. Len(w) : w[k] \in T
  OBVIOUS

-----------------------------------------------------------------------------
(* The outputs of a surface.  An event of the surface m is a step of what  *)
(* its listener keeps that makes it throw nothing.                         *)
ShownEvents == [surface : Nat, output : Screens, type : {"enter", "leave"}]

ShownStep(m, x, e, y) ==
    IF e.surface # m THEN y = x
    ELSE IF e.type = "enter" THEN e.output \notin x /\ y = x \cup {e.output}
                             ELSE e.output \in x /\ y = x \ {e.output}

ShownSteps(m) ==
    { t \in (SUBSET Screens) \X ShownEvents \X (SUBSET Screens) : ShownStep(m, t[1], t[2], t[3]) }

(* The events on their way lead from what the listener of the surface that *)
(* is alive keeps to what the compositor shows.                            *)
ShownInv ==
    /\ made \in Nat /\ alive \in BOOLEAN /\ threw = FALSE /\ outputs \in SUBSET Screens
    /\ shown \in Seq(SUBSET Screens) /\ Len(shown) = made
    /\ enters \in Seq(ShownEvents) /\ \A k \in 1 .. Len(enters) : enters[k].surface <= made
    /\ alive = TRUE => made > 0 /\ Path(ShownSteps(made), enters, outputs, shown[made])

(* Only the part of the outputs of a surface moves it.                     *)
LEMMA ShownMoves == [ObserversNext]_observersVars => Shown!Next \/ UNCHANGED shownVars
  BY Zenon DEF ObserversNext, observersVars, shownVars

(* What is a step of the outputs of a surface.                             *)
LEMMA ShownStepsDef ==
  \A m, x, e, y : <<x, e, y>> \in ShownSteps(m) <=>
      /\ x \in SUBSET Screens /\ e \in ShownEvents /\ y \in SUBSET Screens
      /\ ShownStep(m, x, e, y)
  BY DEF ShownSteps

(* The invariant holds before there is a surface.                          *)
LEMMA ShownInit == Shown!Init => ShownInv
<1>1. ASSUME Shown!Init PROVE alive \in BOOLEAN /\ alive = FALSE
  BY <1>1, Zenon DEF Shown!Init
<1>2. ASSUME Shown!Init
      PROVE  /\ made \in Nat /\ threw = FALSE /\ outputs \in SUBSET Screens
             /\ shown \in Seq(SUBSET Screens) /\ Len(shown) = made /\ enters \in Seq(ShownEvents)
             /\ \A k \in 1 .. Len(enters) : enters[k].surface <= made
  BY <1>2 DEF Shown!Init
<1> QED
  BY <1>1, <1>2, Zenon DEF ShownInv

(* A new surface is on no output, and no event on its way is for it.       *)
LEMMA ShownCreates ==
  ASSUME ShownInv, Shown!CreateSurface
  PROVE  ShownInv'
<1>1. /\ made' = made + 1 /\ alive' = TRUE /\ outputs' = {} /\ shown' = Append(shown, {})
      /\ UNCHANGED <<enters, updates, threw>>
  BY DEF Shown!CreateSurface
<1>2. /\ made \in Nat /\ shown \in Seq(SUBSET Screens) /\ Len(shown) = made
      /\ enters \in Seq(ShownEvents) /\ \A k \in 1 .. Len(enters) : enters[k].surface <= made
  BY Zenon DEF ShownInv
<1>3. /\ shown' \in Seq(SUBSET Screens) /\ Len(shown') = made' /\ shown'[made'] = {}
      /\ made' \in Nat /\ made' > 0
  BY <1>1, <1>2
<1>4. \A k \in 1 .. Len(enters) : enters[k] \in ShownEvents
  BY <1>2
<1>5. \A k \in 1 .. Len(enters) : enters[k].surface \in Nat
  BY <1>4 DEF ShownEvents
<1>6. \A k \in 1 .. Len(enters) : enters[k].surface <= made' /\ enters[k].surface # made'
  BY <1>1, <1>2, <1>5
<1>7. {} \in SUBSET Screens
  OBVIOUS
<1>8. \A k \in 1 .. Len(enters) : <<{}, enters[k], {}>> \in ShownSteps(made')
  BY <1>4, <1>6, <1>7, ShownStepsDef, Zenon DEF ShownStep
<1>9. Path(ShownSteps(made'), enters, {}, {})
  BY <1>2, <1>8, PathStays
<1>10. /\ enters' \in Seq(ShownEvents) /\ \A k \in 1 .. Len(enters') : enters'[k].surface <= made'
  BY <1>1, <1>2, <1>6, Zenon
<1>11. alive' \in BOOLEAN /\ threw' = FALSE /\ outputs' \in SUBSET Screens
  BY <1>1, <1>7, Zenon DEF ShownInv
<1> QED
  BY <1>1, <1>3, <1>9, <1>10, <1>11, Zenon DEF ShownInv

(* The compositor moves a surface onto an output or off it, and says so.   *)
LEMMA ShownUpdates ==
  ASSUME ShownInv, NEW s \in 1 .. made, NEW o \in Screens, Shown!Update(s, o)
  PROVE  ShownInv'
<1> DEFINE e == [surface |-> s, output |-> o, type |-> IF o \in shown[s] THEN "leave" ELSE "enter"]
<1>1. /\ shown' = [shown EXCEPT ![s] = IF o \in @ THEN @ \ {o} ELSE @ \cup {o}]
      /\ enters' = Append(enters, e) /\ UNCHANGED <<made, alive, outputs, threw>>
  BY DEF Shown!Update
<1>2. /\ made \in Nat /\ shown \in Seq(SUBSET Screens) /\ Len(shown) = made
      /\ enters \in Seq(ShownEvents) /\ \A k \in 1 .. Len(enters) : enters[k].surface <= made
  BY Zenon DEF ShownInv
<1>3. /\ s \in Nat /\ s <= made /\ shown[s] \in SUBSET Screens
  BY <1>2
<1>4. /\ e \in ShownEvents /\ e.surface = s /\ e.output = o
      /\ e.type = IF o \in shown[s] THEN "leave" ELSE "enter"
  BY <1>3 DEF ShownEvents
<1> HIDE DEF e
<1>5. /\ shown' \in Seq(SUBSET Screens) /\ Len(shown') = made
      /\ shown'[s] = IF o \in shown[s] THEN shown[s] \ {o} ELSE shown[s] \cup {o}
      /\ \A k \in 1 .. made : k # s => shown'[k] = shown[k]
  BY <1>1, <1>2, <1>3
<1>6. /\ enters' \in Seq(ShownEvents) /\ Len(enters') = Len(enters) + 1
      /\ enters'[Len(enters) + 1] = e /\ \A k \in 1 .. Len(enters) : enters'[k] = enters[k]
  BY <1>1, <1>2, <1>4
<1>7. \A k \in 1 .. Len(enters') : enters'[k].surface <= made
  BY <1>2, <1>3, <1>4, <1>6
<1>8. ASSUME alive = TRUE PROVE Path(ShownSteps(made), enters', outputs, shown'[made])
  <2>1. made > 0 /\ Path(ShownSteps(made), enters, outputs, shown[made])
    BY <1>8, Zenon DEF ShownInv
  <2>2. made \in 1 .. made
    BY <2>1, <1>2
  <2>3. shown[made] \in SUBSET Screens /\ shown'[made] \in SUBSET Screens
    BY <2>2, <1>2, <1>5
  <2>4. ShownStep(made, shown[made], e, shown'[made])
    <3>1. CASE s = made
      BY <3>1, <1>4, <1>5 DEF ShownStep
    <3>2. CASE s # made
      BY <3>2, <1>4, <1>5, <2>2 DEF ShownStep
    <3> QED
      BY <3>1, <3>2
  <2>5. <<shown[made], e, shown'[made]>> \in ShownSteps(made)
    BY <1>4, <2>3, <2>4, ShownStepsDef, Zenon
  <2> QED
    BY <1>1, <1>2, <1>4, <2>1, <2>5, PathAppend
<1> QED
  BY <1>1, <1>5, <1>6, <1>7, <1>8, Zenon DEF ShownInv

(* An event reaches on_enter() or on_leave(), which do not throw, or comes *)
(* too late for its surface.                                               *)
LEMMA ShownDispatches ==
  ASSUME ShownInv, Shown!Dispatch
  PROVE  ShownInv'
<1>1. /\ enters # <<>> /\ enters' = Tail(enters) /\ UNCHANGED <<made, alive, shown, updates>>
      /\ IF alive /\ Head(enters).surface = made
         THEN IF Head(enters).type = "enter" THEN Shown!on_enter(Head(enters).output)
                                             ELSE Shown!on_leave(Head(enters).output)
         ELSE UNCHANGED <<outputs, threw>>
  BY Zenon DEF Shown!Dispatch
<1>2. /\ made \in Nat /\ enters \in Seq(ShownEvents) /\ outputs \in SUBSET Screens
      /\ threw = FALSE
      /\ \A k \in 1 .. Len(enters) : enters[k].surface <= made
  BY Zenon DEF ShownInv
<1>3. /\ Tail(enters) \in Seq(ShownEvents) /\ Head(enters) \in ShownEvents
      /\ Len(Tail(enters)) = Len(enters) - 1 /\ Len(enters) \in Nat
      /\ \A k \in 1 .. Len(enters) - 1 : Tail(enters)[k] = enters[k + 1]
  BY <1>1, <1>2
<1>4. \A k \in 1 .. Len(enters') : enters'[k].surface <= made'
  BY <1>1, <1>2, <1>3
<1>5. CASE alive = TRUE
  <2>1. made > 0 /\ Path(ShownSteps(made), enters, outputs, shown[made])
    BY <1>5, Zenon DEF ShownInv
  <2>2. PICK y : /\ <<outputs, Head(enters), y>> \in ShownSteps(made)
                 /\ Path(ShownSteps(made), Tail(enters), y, shown[made])
    BY <1>1, <1>2, <2>1, PathTail
  <2>3. y \in SUBSET Screens /\ ShownStep(made, outputs, Head(enters), y)
    BY <2>2, ShownStepsDef, Zenon
  <2>4. outputs' = y /\ threw' = FALSE
    <3>1. CASE Head(enters).surface # made
      BY <3>1, <1>1, <1>2, <2>3, Zenon DEF ShownStep
    <3>2. CASE Head(enters).surface = made /\ Head(enters).type = "enter"
      BY <3>2, <1>1, <1>2, <1>5, <2>3 DEF ShownStep, Shown!on_enter
    <3>3. CASE Head(enters).surface = made /\ Head(enters).type # "enter"
      BY <3>3, <1>1, <1>2, <1>5, <2>3 DEF ShownStep, Shown!on_leave
    <3> QED
      BY <3>1, <3>2, <3>3, Zenon
  <2> QED
    BY <1>1, <1>3, <1>4, <2>1, <2>2, <2>3, <2>4, Zenon DEF ShownInv
<1>6. CASE alive = FALSE
  BY <1>1, <1>3, <1>4, <1>6, Zenon DEF ShownInv
<1> QED
  BY <1>5, <1>6, Zenon DEF ShownInv

(* Every step keeps the invariant.                                         *)
LEMMA ShownNext == ShownInv /\ (Shown!Next \/ UNCHANGED shownVars) => ShownInv'
<1>1. ASSUME ShownInv, Shown!DestroySurface PROVE ShownInv'
  BY <1>1, Zenon DEF Shown!DestroySurface, ShownInv
<1>2. ASSUME ShownInv, UNCHANGED shownVars PROVE ShownInv'
  BY <1>2, Zenon DEF shownVars, ShownInv
<1> QED
  BY <1>1, <1>2, ShownCreates, ShownUpdates, ShownDispatches, Zenon DEF Shown!Next

(* The invariant says what is wanted once nothing is on its way.           *)
LEMMA ShownCorrect == ShownInv => Shown!OutputsFollow
<1>1. ASSUME ShownInv, alive = TRUE, enters = <<>> PROVE outputs = shown[made]
  BY <1>1, PathEmpty, Zenon DEF ShownInv
<1> QED
  BY <1>1, Zenon DEF ShownInv, Shown!OutputsFollow

-----------------------------------------------------------------------------
(* The serials of the mocks.  An event of the proxy p is a step of the     *)
(* serial that its object, of the class c, keeps.                          *)
SerialEvents(c) == Handles \X c.events \X Nat

SerialStep(c, p, x, e, y) ==
    y = IF e[1] # p \/ e[2] \notin c.serials THEN x
        ELSE IF c.keeps = "count" THEN x + 1 ELSE e[3]

SerialSteps(c, p) ==
    { t \in Nat \X SerialEvents(c) \X Nat : SerialStep(c, p, t[1], t[2], t[3]) }

(* The events on their way lead from the serial the object at a keeps to   *)
(* the last one the compositor sent, if it sent one.                       *)
SerialLeads(a) ==
    \E z \in Nat :
        /\ Path(SerialSteps(class, wl_object[a]), queue, seen_serial[a], z)
        /\ stamped[wl_object[a]] > 0 \/ class.keeps = "count" => z = stamped[wl_object[a]]

SerialInv ==
    /\ \A k \in 1 .. Len(queue) : queue[k][1] \in used
    /\ \A p \in Handles : p \notin used => stamped[p] = 0
    /\ class.serials # {} => \A a \in Places : a \in places => SerialLeads(a)

(* What is a step of a serial.                                             *)
LEMMA SerialStepsDef ==
  \A c, p, x, e, y : <<x, e, y>> \in SerialSteps(c, p) <=>
      x \in Nat /\ e \in SerialEvents(c) /\ y \in Nat /\ SerialStep(c, p, x, e, y)
  BY DEF SerialSteps

(* The invariant holds before there is an object.                          *)
LEMMA SerialInit == Owner!Init => SerialInv
  BY DEF Owner!Init, SerialInv

(* What holds of a class with serials.                                     *)
LEMMA SerialClass ==
  ASSUME OwnerInv, class.serials # {}
  PROVE  Ownership /\ class.events # {} /\ ~class.moves
  BY ClassFacts, Zenon DEF OwnerInv, OwnerType

(* A new object has the serial it starts with, and no event is its own.    *)
LEMMA SerialConstructs ==
  ASSUME OwnerInv, SerialInv, NEW a \in Places, NEW p \in Handles, Owner!Construct(a, p)
  PROVE  SerialInv'
<1>1. PICK s \in IF class.keeps = "unset_last" THEN {0, Owner!Garbage} ELSE {0} :
         seen_serial' = [seen_serial EXCEPT ![a] = s]
  BY Zenon DEF Owner!Construct
<1>2. /\ p \notin used /\ places' = places \cup {a} /\ wl_object' = [wl_object EXCEPT ![a] = p]
      /\ used' = used \cup {p} /\ UNCHANGED <<class, queue, stamped>>
  BY Zenon DEF Owner!Construct, Owner!Hold
<1>3. /\ wl_object \in [Places -> Handles \cup {NoHandle}] /\ seen_serial \in [Places -> Nat]
      /\ queue \in Seq(SerialEvents(class)) /\ stamped \in [Handles -> Nat]
  BY Zenon DEF OwnerInv, OwnerType, SerialEvents
<1>4. s \in Nat /\ (class.keeps = "count" => s = 0)
  <2>1. s \in {0, Owner!Garbage}
    BY <1>1, Zenon
  <2>2. "count" # "unset_last"
    OBVIOUS
  <2>3. class.keeps = "count" => s = 0
    BY <1>1, <2>2, Zenon
  <2> QED
    BY <2>1, <2>3 DEF Owner!Garbage
<1>5. stamped[p] = 0
  BY <1>2, Zenon DEF SerialInv
<1>6. \A k \in 1 .. Len(queue) : queue[k][1] \in used
  BY Zenon DEF SerialInv
<1>7. \A k \in 1 .. Len(queue) : queue[k] \in SerialEvents(class) /\ queue[k][1] # p
  <2>1. \A k \in 1 .. Len(queue) : queue[k] \in SerialEvents(class)
    BY <1>3
  <2> QED
    BY <1>2, <1>6, <2>1, Zenon
<1>8. Path(SerialSteps(class, p), queue, s, s)
  <2>1. \A k \in 1 .. Len(queue) : <<s, queue[k], s>> \in SerialSteps(class, p)
    BY <1>4, <1>7, SerialStepsDef, Zenon DEF SerialStep
  <2> QED
    BY <1>3, <2>1, PathStays
<1>9. ASSUME class.serials # {}, NEW b \in Places, b \in places' PROVE SerialLeads(b)'
  <2>1. CASE b = a
    <3>1. wl_object'[b] = p /\ seen_serial'[b] = s
      BY <2>1, <1>1, <1>2, <1>3
    <3>2. stamped[p] > 0 \/ class.keeps = "count" => s = stamped[p]
      <4>1. ~(stamped[p] > 0)
        BY <1>5
      <4> QED
        BY <1>4, <1>5, <4>1, Zenon
    <3> QED
      BY <1>2, <1>4, <1>8, <3>1, <3>2, Zenon DEF SerialLeads
  <2>2. CASE b # a
    <3>1. wl_object'[b] = wl_object[b] /\ seen_serial'[b] = seen_serial[b] /\ b \in places
      BY <2>2, <1>1, <1>2, <1>3, <1>9
    <3>2. SerialLeads(b)
      BY <3>1, <1>9, Zenon DEF SerialInv
    <3> QED
      BY <1>2, <3>1, <3>2, Zenon DEF SerialLeads
  <2> QED
    BY <2>1, <2>2
<1> QED
  BY <1>2, <1>5, <1>6, <1>9, Zenon DEF SerialInv

(* The compositor sends an event, with the next serial if it has one.      *)
LEMMA SerialSends ==
  ASSUME OwnerInv, SerialInv, NEW p \in Handles, NEW e \in class.events, Owner!SendEvent(p, e)
  PROVE  SerialInv'
<1>1. /\ p \in used /\ stamped' = [stamped EXCEPT ![p] = IF e \in class.serials THEN @ + 1 ELSE @]
      /\ queue' = Append(queue, <<p, e, stamped'[p]>>)
      /\ UNCHANGED <<class, places, wl_object, seen_serial, used>>
  BY Zenon DEF Owner!SendEvent, Owner!objectVars
<1>2. /\ wl_object \in [Places -> Handles \cup {NoHandle}] /\ seen_serial \in [Places -> Nat]
      /\ queue \in Seq(SerialEvents(class)) /\ stamped \in [Handles -> Nat]
      /\ used \subseteq Handles /\ \A a \in places : wl_object[a] \in used
  BY Zenon DEF OwnerInv, OwnerType, SerialEvents
<1>3. /\ stamped'[p] = (IF e \in class.serials THEN stamped[p] + 1 ELSE stamped[p])
      /\ stamped[p] \in Nat /\ stamped'[p] \in Nat
      /\ \A q \in Handles : q # p => stamped'[q] = stamped[q]
  BY <1>1, <1>2
<1>4. PICK v \in SerialEvents(class) : v = <<p, e, stamped'[p]>> /\ v[1] = p /\ v[2] = e
                                        /\ v[3] = stamped'[p]
  <2>1. <<p, e, stamped'[p]>> \in SerialEvents(class)
    BY <1>3, Zenon DEF SerialEvents
  <2>2. \A x, y, z : <<x, y, z>>[1] = x /\ <<x, y, z>>[2] = y /\ <<x, y, z>>[3] = z
    OBVIOUS
  <2> QED
    BY <2>1, <2>2, Zenon
<1>5. \A k \in 1 .. Len(queue) : queue[k][1] \in used
  BY Zenon DEF SerialInv
<1>6. queue' = Append(queue, v)
  BY <1>1, <1>4
<1>7. \A k \in 1 .. Len(queue') : queue'[k][1] \in used'
  <2>1. /\ Len(queue') = Len(queue) + 1 /\ queue'[Len(queue) + 1] = v /\ Len(queue) \in Nat
        /\ \A k \in 1 .. Len(queue) : queue'[k] = queue[k]
    BY <1>2, <1>6
  <2> QED
    BY <2>1, <1>1, <1>4, <1>5
<1>8. ASSUME NEW q \in Handles, q \notin used' PROVE stamped'[q] = 0
  BY <1>1, <1>3, <1>8, Zenon DEF SerialInv
<1>9. ASSUME class.serials # {}, NEW a \in Places, a \in places' PROVE SerialLeads(a)'
  <2>1. a \in places /\ SerialLeads(a) /\ wl_object[a] \in Handles
    BY <1>1, <1>2, <1>9, Zenon DEF SerialInv
  <2>2. PICK z \in Nat :
          /\ Path(SerialSteps(class, wl_object[a]), queue, seen_serial[a], z)
          /\ stamped[wl_object[a]] > 0 \/ class.keeps = "count" => z = stamped[wl_object[a]]
    BY <2>1, Zenon DEF SerialLeads
  <2>3. ASSUME NEW y \in Nat, SerialStep(class, wl_object[a], z, v, y),
               stamped'[wl_object[a]] > 0 \/ class.keeps = "count" => y = stamped'[wl_object[a]]
        PROVE  SerialLeads(a)'
    <3>1. <<z, v, y>> \in SerialSteps(class, wl_object[a])
      BY <1>4, <2>2, <2>3, SerialStepsDef, Zenon
    <3>2. Path(SerialSteps(class, wl_object[a]), queue', seen_serial[a], y)
      BY <1>2, <1>4, <1>6, <2>2, <3>1, PathAppend
    <3> QED
      BY <1>1, <2>3, <3>2, Zenon DEF SerialLeads
  <2>4. CASE wl_object[a] # p \/ e \notin class.serials
    <3>1. SerialStep(class, wl_object[a], z, v, z)
      BY <2>4, <1>4, Zenon DEF SerialStep
    <3>2. stamped'[wl_object[a]] = stamped[wl_object[a]]
      BY <2>1, <2>4, <1>3
    <3> QED
      BY <2>2, <2>3, <3>1, <3>2, Zenon
  <2>5. CASE wl_object[a] = p /\ e \in class.serials /\ class.keeps = "count"
    <3>1. z = stamped[p] /\ stamped'[p] = z + 1
      BY <1>3, <2>2, <2>5
    <3>2. SerialStep(class, wl_object[a], z, v, z + 1)
      BY <2>5, <1>4, Zenon DEF SerialStep
    <3>3. z + 1 \in Nat
      BY <2>2
    <3> QED
      BY <2>3, <2>5, <3>1, <3>2, <3>3, Zenon
  <2>6. CASE wl_object[a] = p /\ e \in class.serials /\ class.keeps # "count"
    <3>1. SerialStep(class, wl_object[a], z, v, stamped'[p])
      BY <2>6, <1>4, Zenon DEF SerialStep
    <3> QED
      BY <1>3, <2>3, <2>6, <3>1, Zenon
  <2> QED
    BY <2>4, <2>5, <2>6, Zenon
<1> QED
  BY <1>1, <1>7, <1>8, <1>9, Zenon DEF SerialInv

(* An event is dispatched to the object of its proxy, and to no other.     *)
LEMMA SerialDispatches ==
  ASSUME OwnerInv, SerialInv, Owner!Dispatch
  PROVE  SerialInv'
<1>1. /\ queue # <<>> /\ queue' = Tail(queue)
      /\ UNCHANGED <<class, places, wl_object, used, stamped>>
      /\ IF Head(queue)[1] \in known
         THEN Owner!method_event_impl(listenerData[Head(queue)[1]], Head(queue)[2], Head(queue)[3])
         ELSE UNCHANGED seen_serial
  BY Zenon DEF Owner!Dispatch
<1>2. /\ seen_serial \in [Places -> Nat] /\ queue \in Seq(SerialEvents(class))
      /\ listenerData \in [Handles -> Places \cup {"none"}] /\ known \subseteq used
      /\ used \subseteq Handles /\ \A a \in places : wl_object[a] \in used
  BY Zenon DEF OwnerInv, OwnerType, SerialEvents
<1>3. \A k \in 1 .. Len(queue) : queue[k][1] \in used
  BY Zenon DEF SerialInv
<1>4. \A k \in 1 .. Len(queue') : queue'[k][1] \in used'
  <2>1. /\ Len(queue') = Len(queue) - 1 /\ Len(queue) \in Nat
        /\ \A k \in 1 .. Len(queue) - 1 : queue'[k] = queue[k + 1]
    BY <1>1, <1>2
  <2> QED
    BY <2>1, <1>1, <1>3
<1>5. ASSUME class.serials # {}, NEW a \in Places, a \in places' PROVE SerialLeads(a)'
  <2>1. a \in places /\ SerialLeads(a) /\ Ownership /\ class.events # {}
    BY <1>1, <1>5, SerialClass, Zenon DEF SerialInv
  <2>2. PICK z \in Nat :
          /\ Path(SerialSteps(class, wl_object[a]), queue, seen_serial[a], z)
          /\ stamped[wl_object[a]] > 0 \/ class.keeps = "count" => z = stamped[wl_object[a]]
    BY <2>1, Zenon DEF SerialLeads
  <2>3. PICK y : /\ <<seen_serial[a], Head(queue), y>> \in SerialSteps(class, wl_object[a])
                 /\ Path(SerialSteps(class, wl_object[a]), Tail(queue), y, z)
    BY <1>1, <1>2, <2>2, PathTail
  <2>4. SerialStep(class, wl_object[a], seen_serial[a], Head(queue), y)
    BY <2>3, SerialStepsDef, Zenon
  <2>5. Owns(a) /\ listenerData[wl_object[a]] = a /\ wl_object[a] \in known
    BY <2>1, Zenon DEF Ownership
  <2>6. seen_serial'[a] = y
    <3>1. CASE Head(queue)[1] = wl_object[a]
      <4>1. Owner!method_event_impl(a, Head(queue)[2], Head(queue)[3])
        BY <3>1, <1>1, <2>5
      <4> QED
        BY <4>1, <3>1, <1>2, <2>4 DEF Owner!method_event_impl, SerialStep
    <3>2. CASE Head(queue)[1] # wl_object[a] /\ Head(queue)[1] \in known
      <4>1. PICK b \in Places : Owns(b) /\ wl_object[b] = Head(queue)[1]
        BY <3>2, <2>1, Zenon DEF Ownership
      <4>2. b # a /\ listenerData[Head(queue)[1]] = b
        BY <3>2, <4>1, <2>1, Zenon DEF Ownership, Owns
      <4>3. Owner!method_event_impl(b, Head(queue)[2], Head(queue)[3])
        BY <3>2, <4>2, <1>1, Zenon
      <4>4. seen_serial'[a] = seen_serial[a]
        BY <4>2, <4>3, <1>2 DEF Owner!method_event_impl
      <4> QED
        BY <3>2, <4>4, <2>4, Zenon DEF SerialStep
    <3>3. CASE Head(queue)[1] # wl_object[a] /\ Head(queue)[1] \notin known
      BY <3>3, <1>1, <2>4, Zenon DEF SerialStep
    <3> QED
      BY <3>1, <3>2, <3>3, Zenon
  <2> QED
    BY <1>1, <2>2, <2>3, <2>6, Zenon DEF SerialLeads
<1> QED
  BY <1>1, <1>4, <1>5, Zenon DEF SerialInv

(* Every step keeps the invariant: an object that moves keeps no serial.   *)
LEMMA SerialNext == OwnerInv /\ SerialInv /\ (Owner!Next \/ UNCHANGED ownerVars) => SerialInv'
<1> SUFFICES ASSUME OwnerInv, SerialInv, Owner!Next \/ UNCHANGED ownerVars PROVE SerialInv'
  BY Zenon
<1>1. ASSUME NEW a \in Places, Owner!Use(a) PROVE SerialInv'
  BY <1>1, Zenon DEF Owner!Use, Owner!objectVars, SerialInv, SerialLeads
<1>2. ASSUME NEW a \in Places, Owner!Destruct(a) PROVE SerialInv'
  <2>1. /\ places' = places \ {a}
        /\ UNCHANGED <<class, wl_object, seen_serial, queue, used, stamped>>
    BY <1>2, Zenon DEF Owner!Destruct
  <2> QED
    BY <2>1, Zenon DEF SerialInv, SerialLeads
<1>3. ASSUME NEW a \in Places, NEW b \in Places, Owner!Move(a, b) PROVE SerialInv'
  <2>1. class.moves /\ UNCHANGED <<class, queue, used, stamped>>
    BY <1>3, Zenon DEF Owner!Move
  <2>2. class.serials = {}
    BY <2>1, SerialClass, Zenon
  <2> QED
    BY <2>1, <2>2, Zenon DEF SerialInv
<1>4. CASE UNCHANGED ownerVars
  BY <1>4, Zenon DEF ownerVars, SerialInv, SerialLeads
<1>5. OwnerType
  BY Zenon DEF OwnerInv
<1> QED
  BY <1>1, <1>2, <1>3, <1>4, <1>5, SerialConstructs, SerialSends, SerialDispatches, KindsAreEvents,
     Zenon DEF Owner!Next

(* The invariant says what is wanted once nothing is on its way.           *)
LEMMA SerialCorrect == OwnerInv /\ SerialInv => Owner!SerialsFollow
<1> SUFFICES ASSUME OwnerInv, SerialInv, queue = <<>>, class.serials # {},
                    NEW a \in places, stamped[wl_object[a]] > 0
             PROVE  seen_serial[a] = stamped[wl_object[a]]
  BY Zenon DEF Owner!SerialsFollow
<1>1. SerialLeads(a)
  BY Zenon DEF SerialInv, OwnerInv, OwnerType
<1>2. PICK z \in Nat : /\ Path(SerialSteps(class, wl_object[a]), <<>>, seen_serial[a], z)
                       /\ z = stamped[wl_object[a]]
  BY <1>1, Zenon DEF SerialLeads
<1> QED
  BY <1>2, PathEmpty, Zenon

-----------------------------------------------------------------------------
(* The outputs and their xdg_output objects.                               *)

(* The cardinality of the instance is the one the assumption is about.     *)
LEMMA SameCardinality == \A S : Output!Cardinality(S) = Cardinality(S)
  BY Zenon DEF Output!Cardinality, Cardinality

(* The order of the events of some properties has each of them.            *)
LEMMA OrderLists ==
  ASSUME NEW F \in SUBSET Output!Fields
  PROVE  /\ Output!Order(F) \in Seq(F)
         /\ DOMAIN Output!Order(F) = 1 .. Len(Output!Order(F))
         /\ \A f \in F : \E k \in 1 .. Len(Output!Order(F)) : Output!Order(F)[k] = f
<1>1. /\ Cardinality(F) \in Nat
      /\ \E o \in [1 .. Cardinality(F) -> F] : \A f \in F : \E k \in DOMAIN o : o[k] = f
  BY FieldsAssumption, Zenon DEF Output!Fields
<1>2. /\ Output!Order(F) \in [1 .. Cardinality(F) -> F]
      /\ \A f \in F : \E k \in DOMAIN Output!Order(F) : Output!Order(F)[k] = f
  <2>1. \E o \in [1 .. Output!Cardinality(F) -> F] : \A f \in F : \E k \in DOMAIN o : o[k] = f
    BY <1>1, SameCardinality, Zenon
  <2>2. /\ Output!Order(F) \in [1 .. Output!Cardinality(F) -> F]
        /\ \A f \in F : \E k \in DOMAIN Output!Order(F) : Output!Order(F)[k] = f
    BY <2>1, Zenon DEF Output!Order
  <2> QED
    BY <2>2, SameCardinality, Zenon
<1>3. PICK o : o = Output!Order(F)
  OBVIOUS
<1>4. PICK n \in Nat : n = Cardinality(F)
  BY <1>1
<1>5. o \in [1 .. n -> F] /\ \A f \in F : \E k \in DOMAIN o : o[k] = f
  BY <1>2, <1>3, <1>4, Zenon
<1>6. o \in Seq(F) /\ DOMAIN o = 1 .. Len(o)
  BY <1>5
<1> QED
  BY <1>3, <1>5, <1>6, Zenon

OutputEvents ==
    [type : {"wl_output", "wl_output.done", "xdg_output", "xdg_output.done"},
     field : Output!Fields \cup {"none"}, value : Nat, object : Nat]

Properties == [Output!Fields -> Nat \ {0}]

(* The properties in F as events of an xdg_output.                         *)
XdgList(F, p, r) ==
    [k \in DOMAIN Output!Order(F) |->
        Output!XdgEvent(Output!Order(F)[k], p[Output!Order(F)[k]], r)]

(* w has an event of the xdg_output r for each property in F.              *)
ListsXdg(w, o, F, p, r) ==
    /\ \A f \in F : \E k \in 1 .. Len(o) : o[k] = f
    /\ w \in Seq(OutputEvents) /\ Len(w) = Len(o)
    /\ \A k \in 1 .. Len(o) : /\ o[k] \in F /\ w[k].type = "xdg_output" /\ w[k].field = o[k]
                              /\ w[k].value = p[o[k]] /\ w[k].object = r

(* So have the events an xdg_output is sent for them.                      *)
LEMMA XdgLists ==
  ASSUME NEW F \in SUBSET XdgFields, NEW p \in Properties, NEW r \in Nat
  PROVE  \E o \in Seq(F) : ListsXdg(XdgList(F, p, r), o, F, p, r)
<1>1. F \in SUBSET Output!Fields
  BY Zenon DEF Output!Fields
<1>2. PICK o \in Seq(F) : /\ o = Output!Order(F) /\ DOMAIN o = 1 .. Len(o)
                          /\ \A f \in F : \E k \in 1 .. Len(o) : o[k] = f
  BY <1>1, OrderLists, Zenon
<1>3. XdgList(F, p, r) = [k \in 1 .. Len(o) |-> Output!XdgEvent(o[k], p[o[k]], r)]
  BY <1>2, Zenon DEF XdgList
<1>4. \A k \in 1 .. Len(o) : o[k] \in F /\ o[k] \in Output!Fields /\ p[o[k]] \in Nat
  BY <1>2 DEF Output!Fields, Properties
<1>5. ASSUME NEW k \in 1 .. Len(o)
      PROVE  /\ Output!XdgEvent(o[k], p[o[k]], r) \in OutputEvents
             /\ Output!XdgEvent(o[k], p[o[k]], r).type = "xdg_output"
             /\ Output!XdgEvent(o[k], p[o[k]], r).field = o[k]
             /\ Output!XdgEvent(o[k], p[o[k]], r).value = p[o[k]]
             /\ Output!XdgEvent(o[k], p[o[k]], r).object = r
  BY <1>4 DEF Output!XdgEvent, OutputEvents
<1>6. Len(o) \in Nat
  OBVIOUS
<1>7. PICK w : w = XdgList(F, p, r)
  OBVIOUS
<1>8. /\ DOMAIN w = 1 .. Len(o) /\ w \in [1 .. Len(o) -> OutputEvents]
      /\ \A k \in 1 .. Len(o) : w[k] = Output!XdgEvent(o[k], p[o[k]], r)
  BY <1>3, <1>5, <1>7, Zenon
<1>9. w \in Seq(OutputEvents) /\ Len(w) = Len(o)
  BY <1>6, <1>8
<1>10. \A k \in 1 .. Len(o) : /\ w[k].type = "xdg_output" /\ w[k].field = o[k]
                                /\ w[k].value = p[o[k]] /\ w[k].object = r
  BY <1>5, <1>8, Zenon
<1>11. ListsXdg(w, o, F, p, r)
  BY <1>2, <1>4, <1>9, <1>10, Zenon DEF ListsXdg
<1> QED
  BY <1>7, <1>11, Zenon

(* And those of the output.                                                *)
LEMMA OutputLists ==
  ASSUME NEW F \in SUBSET OutputFields, NEW p \in Properties
  PROVE  \E o \in Seq(F) :
           /\ \A f \in F : \E k \in 1 .. Len(o) : o[k] = f
           /\ Output!OutputPart(F, p) \in Seq(OutputEvents)
           /\ Len(Output!OutputPart(F, p)) = Len(o)
           /\ \A k \in 1 .. Len(o) : /\ o[k] \in F
                                     /\ Output!OutputPart(F, p)[k].type = "wl_output"
                                     /\ Output!OutputPart(F, p)[k].field = o[k]
                                     /\ Output!OutputPart(F, p)[k].value = p[o[k]]
                                     /\ Output!OutputPart(F, p)[k].object = 0
<1>1. F \in SUBSET Output!Fields
  BY Zenon DEF Output!Fields
<1>2. PICK o \in Seq(F) : /\ o = Output!Order(F) /\ DOMAIN o = 1 .. Len(o)
                          /\ \A f \in F : \E k \in 1 .. Len(o) : o[k] = f
  BY <1>1, OrderLists, Zenon
<1>3. Output!OutputPart(F, p) = [k \in 1 .. Len(o) |-> Output!Event("wl_output", o[k], p[o[k]])]
  BY <1>2, Zenon DEF Output!OutputPart
<1>4. \A k \in 1 .. Len(o) : o[k] \in F /\ o[k] \in Output!Fields /\ p[o[k]] \in Nat
  BY <1>2 DEF Output!Fields, Properties
<1>5. ASSUME NEW k \in 1 .. Len(o)
      PROVE  /\ Output!Event("wl_output", o[k], p[o[k]]) \in OutputEvents
             /\ Output!Event("wl_output", o[k], p[o[k]]).type = "wl_output"
             /\ Output!Event("wl_output", o[k], p[o[k]]).field = o[k]
             /\ Output!Event("wl_output", o[k], p[o[k]]).value = p[o[k]]
             /\ Output!Event("wl_output", o[k], p[o[k]]).object = 0
  BY <1>4 DEF Output!Event, OutputEvents
<1>6. Len(o) \in Nat
  OBVIOUS
<1>7. PICK w : w = Output!OutputPart(F, p)
  OBVIOUS
<1>8. /\ DOMAIN w = 1 .. Len(o) /\ w \in [1 .. Len(o) -> OutputEvents]
      /\ \A k \in 1 .. Len(o) : w[k] = Output!Event("wl_output", o[k], p[o[k]])
  BY <1>3, <1>5, <1>7, Zenon
<1>9. w \in Seq(OutputEvents) /\ Len(w) = Len(o)
  BY <1>6, <1>8
<1>10. \A k \in 1 .. Len(o) : /\ w[k].type = "wl_output" /\ w[k].field = o[k]
                                /\ w[k].value = p[o[k]] /\ w[k].object = 0
  BY <1>5, <1>8, Zenon
<1> WITNESS o \in Seq(F)
<1> QED
  BY <1>2, <1>4, <1>7, <1>9, <1>10, Zenon

(* The events that end a batch.                                            *)
LEMMA DoneEvents ==
  /\ Output!Done \in OutputEvents /\ Output!Done.type = "wl_output.done" /\ Output!Done.object = 0
  /\ \A r \in Nat : /\ Output!XdgDone(r) \in OutputEvents /\ Output!XdgDone(r).object = r
                    /\ Output!XdgDone(r).type = "xdg_output.done"
  BY DEF Output!Done, Output!XdgDone, OutputEvents

(* Two batches that pass one another, and the event that ends them.        *)
Passing(F, E, w, v1, v2, e, a, x, y, z) ==
    /\ w \in Seq(E) /\ v1 \in Seq(E) /\ v2 \in Seq(E) /\ e \in E
    /\ Path(F, w, a, x) /\ Path(F, v1, x, y) /\ Path(F, v2, x, x) /\ Path(F, v2, y, y)
    /\ <<y, e, z>> \in F

(* They may come in either order: the compositor sends the events of an    *)
(* output and those of its xdg_output in one it does not promise.          *)
LEMMA PathEither ==
  ASSUME NEW F, NEW E, NEW w, NEW v1, NEW v2, NEW e, NEW a, NEW x, NEW y, NEW z,
         Passing(F, E, w, v1, v2, e, a, x, y, z)
  PROVE  /\ Path(F, w \o v1 \o v2 \o <<e>>, a, z) /\ w \o v1 \o v2 \o <<e>> \in Seq(E)
         /\ Path(F, w \o v2 \o v1 \o <<e>>, a, z) /\ w \o v2 \o v1 \o <<e>> \in Seq(E)
<1>0. /\ w \in Seq(E) /\ v1 \in Seq(E) /\ v2 \in Seq(E) /\ e \in E
      /\ Path(F, w, a, x) /\ Path(F, v1, x, y) /\ Path(F, v2, x, x) /\ Path(F, v2, y, y)
      /\ <<y, e, z>> \in F
  BY Zenon DEF Passing
<1>1. /\ w \o v1 \in Seq(E) /\ w \o v2 \in Seq(E) /\ w \o v1 \o v2 \in Seq(E)
      /\ w \o v2 \o v1 \in Seq(E)
  BY <1>0
<1>2. Path(F, w \o v1, a, y) /\ Path(F, w \o v2, a, x)
  BY <1>0, PathJoins
<1>3. Path(F, w \o v1 \o v2, a, y)
  BY <1>0, <1>1, <1>2, PathJoins
<1>4. Path(F, w \o v2 \o v1, a, y)
  BY <1>0, <1>1, <1>2, PathJoins
<1>5. \A s \in Seq(E) : s \o <<e>> = Append(s, e) /\ Append(s, e) \in Seq(E)
  BY <1>0
<1>6. ASSUME NEW s \in Seq(E), Path(F, s, a, y)
      PROVE  Path(F, s \o <<e>>, a, z) /\ s \o <<e>> \in Seq(E)
  <2>1. Path(F, Append(s, e), a, z)
    BY <1>0, <1>6, PathAppend
  <2> QED
    BY <2>1, <1>5, Zenon
<1> QED
  BY <1>1, <1>3, <1>4, <1>6, Zenon

(* What the listener of the output keeps, <<current, pending>>: the first  *)
(* is always a state of the compositor.                                    *)
OutputNodes(C) ==
    { Output!Part(p, OutputFields) : p \in C } \X [OutputFields -> Nat]

OutputStep(x, e, y) ==
    y = IF e.type = "wl_output" THEN <<x[1], [x[2] EXCEPT ![e.field] = e.value]>>
        ELSE IF e.type = "wl_output.done"
        THEN <<[f \in OutputFields |-> IF x[2][f] # 0 THEN x[2][f] ELSE x[1][f]],
               Output!Unset(OutputFields)>>
        ELSE x

OutputSteps(C) ==
    { t \in OutputNodes(C) \X OutputEvents \X OutputNodes(C) : OutputStep(t[1], t[2], t[3]) }

(* What is a step of an output.                                            *)
LEMMA OutputStepsDef ==
  \A C, x, e, y : <<x, e, y>> \in OutputSteps(C) <=>
      x \in OutputNodes(C) /\ e \in OutputEvents /\ y \in OutputNodes(C) /\ OutputStep(x, e, y)
  BY DEF OutputSteps

(* A state of the compositor is one of an output, with whatever is         *)
(* pending.                                                                *)
LEMMA OutputParts ==
  ASSUME NEW C \in SUBSET Properties, NEW p \in C
  PROVE  /\ Output!Part(p, OutputFields) \in [OutputFields -> Nat \ {0}]
         /\ \A f \in OutputFields : Output!Part(p, OutputFields)[f] = p[f] /\ p[f] \in Nat \ {0}
         /\ Output!Unset(OutputFields) \in [OutputFields -> Nat]
         /\ \A f \in OutputFields : Output!Unset(OutputFields)[f] = 0
         /\ \A q \in [OutputFields -> Nat] :
               <<Output!Part(p, OutputFields), q>> \in OutputNodes(C)
<1>1. /\ p \in Properties /\ OutputFields \subseteq Output!Fields
  BY Zenon DEF Output!Fields
<1>2. \A f \in OutputFields : p[f] \in Nat \ {0}
  BY <1>1 DEF Properties
<1> QED
  BY <1>2, Zenon DEF Output!Part, Output!Unset, OutputNodes

(* A batch of properties fills what is pending.                            *)
LEMMA OutputBatch ==
  ASSUME NEW C \in SUBSET Properties, NEW q \in C, NEW p \in C, NEW F \in SUBSET OutputFields
  PROVE  Path(OutputSteps(C), Output!OutputPart(F, p),
              <<Output!Part(q, OutputFields), Output!Unset(OutputFields)>>,
              <<Output!Part(q, OutputFields),
                [f \in OutputFields |-> IF f \in F THEN p[f] ELSE 0]>>)
<1>0. PICK w : w = Output!OutputPart(F, p)
  OBVIOUS
<1>1. PICK o \in Seq(F) :
        /\ \A f \in F : \E k \in 1 .. Len(o) : o[k] = f
        /\ w \in Seq(OutputEvents) /\ Len(w) = Len(o)
        /\ \A k \in 1 .. Len(o) : /\ o[k] \in F /\ w[k].type = "wl_output"
                                  /\ w[k].field = o[k] /\ w[k].value = p[o[k]]
  <2>1. p \in Properties
    OBVIOUS
  <2> QED
    BY <1>0, <2>1, OutputLists, Zenon
<1> DEFINE c == Output!Part(q, OutputFields)
           Q(k) == [f \in OutputFields |-> IF \E j \in 1 .. k - 1 : o[j] = f THEN p[f] ELSE 0]
           S == [k \in 1 .. Len(w) + 1 |-> <<c, Q(k)>>]
<1>2. Len(w) \in Nat /\ \A k \in 1 .. Len(w) : w[k] \in OutputEvents
  BY <1>1
<1>3. \A f \in OutputFields : p[f] \in Nat
  BY OutputParts
<1>4. \A k : Q(k) \in [OutputFields -> Nat]
  BY <1>3
<1>5. Q(1) = Output!Unset(OutputFields)
  BY DEF Output!Unset
<1>6. Q(Len(w) + 1) = [f \in OutputFields |-> IF f \in F THEN p[f] ELSE 0]
  <2>1. \A f \in OutputFields : (\E j \in 1 .. (Len(w) + 1) - 1 : o[j] = f) <=> f \in F
    BY <1>1, <1>2
  <2> QED
    BY <2>1, Zenon
<1>7. ASSUME NEW k \in 1 .. Len(w)
      PROVE  Q(k + 1) = [Q(k) EXCEPT ![w[k].field] = w[k].value]
  <2>1. w[k].field = o[k] /\ w[k].value = p[o[k]] /\ o[k] \in OutputFields
    BY <1>1
  <2>2. \A f \in OutputFields :
          (\E j \in 1 .. (k + 1) - 1 : o[j] = f) <=> f = o[k] \/ (\E j \in 1 .. k - 1 : o[j] = f)
    BY <1>2
  <2> QED
    BY <2>1, <2>2
<1>8. ASSUME NEW k \in 1 .. Len(w)
      PROVE  <<<<c, Q(k)>>, w[k], <<c, Q(k + 1)>>>> \in OutputSteps(C)
  <2>1. <<c, Q(k)>> \in OutputNodes(C) /\ <<c, Q(k + 1)>> \in OutputNodes(C)
    BY <1>4, OutputParts
  <2>2. w[k].type = "wl_output"
    BY <1>1
  <2>3. OutputStep(<<c, Q(k)>>, w[k], <<c, Q(k + 1)>>)
    BY <1>7, <2>2 DEF OutputStep
  <2> QED
    BY <1>2, <2>1, <2>3, OutputStepsDef, Zenon
<1> HIDE DEF Q
<1>9. /\ S[1] = <<c, Q(1)>> /\ S[Len(w) + 1] = <<c, Q(Len(w) + 1)>>
      /\ \A k \in 1 .. Len(w) : S[k] = <<c, Q(k)>> /\ S[k + 1] = <<c, Q(k + 1)>>
  BY <1>2
<1> HIDE DEF S, c
<1>10. \A k \in 1 .. Len(w) : <<S[k], w[k], S[k + 1]>> \in OutputSteps(C)
  BY <1>8, <1>9, Zenon
<1>11. Path(OutputSteps(C), w, <<c, Q(1)>>, <<c, Q(Len(w) + 1)>>)
  BY <1>9, <1>10, Zenon DEF Path
<1> QED
  BY <1>0, <1>5, <1>6, <1>11, Zenon DEF c

(* The events on their way lead from what the listener of the output keeps *)
(* to the state of the compositor, with nothing pending.                   *)
OutputType ==
    /\ version \in Nat /\ changes \in Nat /\ resource \in Nat
    /\ committed \in SUBSET Properties /\ properties \in committed
    /\ wire \in Seq(OutputEvents)
    /\ outputRequests \in Seq({"get_xdg_output", "destroy"} \X Nat)
    /\ objects \in Nat /\ object \in Nat

OutputEnd(p) == <<Output!Part(p, OutputFields), Output!Unset(OutputFields)>>

OutputFollows ==
    /\ <<current, pending>> \in OutputNodes(committed)
    /\ Path(OutputSteps(committed), wire, <<current, pending>>, OutputEnd(properties))

(* Any step is one of an output or leaves it alone.                        *)
LEMMA OutputMoves == [ObserversNext]_observersVars => Output!Next \/ UNCHANGED outputVars
  BY Zenon DEF ObserversNext, observersVars

(* The events for some properties are all for that xdg_output.             *)
LEMMA XdgListEvents ==
  ASSUME NEW F \in SUBSET XdgFields, NEW p \in Properties, NEW r \in Nat
  PROVE  /\ XdgList(F, p, r) \in Seq(OutputEvents)
         /\ \A k \in 1 .. Len(XdgList(F, p, r)) :
              XdgList(F, p, r)[k].type = "xdg_output" /\ XdgList(F, p, r)[k].object = r
<1>1. PICK X : X = XdgList(F, p, r)
  OBVIOUS
<1>2. PICK o \in Seq(F) : ListsXdg(X, o, F, p, r)
  BY <1>1, XdgLists, Zenon
<1>3. /\ X \in Seq(OutputEvents) /\ Len(X) = Len(o)
      /\ \A k \in 1 .. Len(o) : X[k].type = "xdg_output" /\ X[k].object = r
  BY <1>2, Zenon DEF ListsXdg
<1>4. \A k \in 1 .. Len(X) : X[k].type = "xdg_output" /\ X[k].object = r
  BY <1>3
<1> QED
  BY <1>1, <1>3, <1>4, Zenon

(* All of w is for the xdg_output r.                                       *)
ForXdg(w, r) ==
    /\ w \in Seq(OutputEvents)
    /\ \A k \in 1 .. Len(w) : w[k].type \in {"xdg_output", "xdg_output.done"} /\ w[k].object = r

(* So is the batch, with the event that ends it.                           *)
LEMMA XdgPartEvents ==
  ASSUME NEW F \in SUBSET XdgFields, NEW p \in Properties, NEW r \in Nat
  PROVE  ForXdg(Output!XdgPart(F, p, r), r)
<1>0. PICK X : X = XdgList(F, p, r)
  OBVIOUS
<1> DEFINE D == IF version < 3 THEN <<Output!XdgDone(r)>> ELSE <<>>
<1>1. Output!XdgPart(F, p, r) = IF r = 0 THEN <<>> ELSE X \o D
  BY <1>0, Zenon DEF Output!XdgPart, XdgList
<1>2. /\ X \in Seq(OutputEvents)
      /\ \A k \in 1 .. Len(X) : X[k].type = "xdg_output" /\ X[k].object = r
  BY <1>0, XdgListEvents, Zenon
<1>3. /\ D \in Seq(OutputEvents)
      /\ \A k \in 1 .. Len(D) : D[k].type = "xdg_output.done" /\ D[k].object = r
  BY DoneEvents
<1> HIDE DEF D
<1>4. ForXdg(X \o D, r)
  <2>1. /\ X \o D \in Seq(OutputEvents) /\ Len(X \o D) = Len(X) + Len(D)
        /\ Len(X) \in Nat /\ Len(D) \in Nat
        /\ \A k \in 1 .. Len(X) : (X \o D)[k] = X[k]
        /\ \A k \in 1 .. Len(X) + Len(D) : k > Len(X) => /\ k - Len(X) \in 1 .. Len(D)
                                                         /\ (X \o D)[k] = D[k - Len(X)]
    BY <1>2, <1>3
  <2>2. ASSUME NEW k \in 1 .. Len(X) + Len(D)
        PROVE  (X \o D)[k].type \in {"xdg_output", "xdg_output.done"} /\ (X \o D)[k].object = r
    <3>1. CASE k > Len(X)
      BY <3>1, <2>1, <1>3, Zenon
    <3>2. CASE ~(k > Len(X))
      <4>1. k \in 1 .. Len(X)
        BY <3>2, <2>1
      <4> QED
        BY <4>1, <2>1, <1>2, Zenon
    <3> QED
      BY <3>1, <3>2, Zenon
  <2> QED
    BY <2>1, <2>2, Zenon DEF ForXdg
<1>5. CASE r = 0
  <2>1. Output!XdgPart(F, p, r) = <<>>
    BY <1>1, <1>5, Zenon
  <2>2. <<>> \in Seq(OutputEvents) /\ 1 .. Len(<<>>) = {}
    OBVIOUS
  <2> QED
    BY <2>1, <2>2, Zenon DEF ForXdg
<1>6. CASE r # 0
  <2>1. Output!XdgPart(F, p, r) = X \o D
    BY <1>1, <1>6, Zenon
  <2> QED
    BY <2>1, <1>4, Zenon
<1> QED
  BY <1>5, <1>6, Zenon

(* The events of an xdg_output pass the output by.                         *)
LEMMA OutputStays ==
  ASSUME NEW C, NEW x \in OutputNodes(C), NEW w \in Seq(OutputEvents),
         \A k \in 1 .. Len(w) : w[k].type \in {"xdg_output", "xdg_output.done"}
  PROVE  Path(OutputSteps(C), w, x, x)
<1>1. \A k \in 1 .. Len(w) : w[k] \in OutputEvents
  OBVIOUS
<1>2. \A k \in 1 .. Len(w) : w[k].type # "wl_output" /\ w[k].type # "wl_output.done"
  OBVIOUS
<1>3. \A k \in 1 .. Len(w) : <<x, w[k], x>> \in OutputSteps(C)
  BY <1>1, <1>2, OutputStepsDef, Zenon DEF OutputStep
<1> QED
  BY <1>3, PathStays

(* The done event makes current what is pending.                           *)
LEMMA OutputDone ==
  ASSUME NEW C \in SUBSET Properties, NEW q \in C, NEW p \in C, NEW F \in SUBSET OutputFields,
         \A f \in OutputFields : f \notin F => q[f] = p[f]
  PROVE  <<<<Output!Part(q, OutputFields), [f \in OutputFields |-> IF f \in F THEN p[f] ELSE 0]>>,
           Output!Done, OutputEnd(p)>> \in OutputSteps(C)
<1> DEFINE c == Output!Part(q, OutputFields)
           d == Output!Part(p, OutputFields)
           u == [f \in OutputFields |-> IF f \in F THEN p[f] ELSE 0]
<1>1. /\ d \in [OutputFields -> Nat \ {0}] /\ \A f \in OutputFields : d[f] = p[f] /\ p[f] \in Nat \ {0}
      /\ Output!Unset(OutputFields) \in [OutputFields -> Nat]
      /\ \A r \in [OutputFields -> Nat] : <<d, r>> \in OutputNodes(C)
  BY OutputParts
<1>2. /\ \A f \in OutputFields : c[f] = q[f]
      /\ \A r \in [OutputFields -> Nat] : <<c, r>> \in OutputNodes(C)
  BY OutputParts
<1>3. u \in [OutputFields -> Nat] /\ \A f \in OutputFields : u[f] = IF f \in F THEN p[f] ELSE 0
  BY <1>1
<1> HIDE DEF c, d, u
<1>4. [f \in OutputFields |-> IF u[f] # 0 THEN u[f] ELSE c[f]] = d
  <2>1. \A f \in OutputFields : (IF u[f] # 0 THEN u[f] ELSE c[f]) = d[f]
    BY <1>1, <1>2, <1>3
  <2>2. d = [f \in OutputFields |-> d[f]]
    BY <1>1
  <2> QED
    BY <2>1, <2>2, Zenon
<1>5. Output!Done.type = "wl_output.done" /\ Output!Done.type # "wl_output"
      /\ Output!Done \in OutputEvents
  BY DoneEvents
<1>6. <<c, u>>[1] = c /\ <<c, u>>[2] = u
  OBVIOUS
<1>7. OutputStep(<<c, u>>, Output!Done, <<d, Output!Unset(OutputFields)>>)
  BY <1>4, <1>5, <1>6, Zenon DEF OutputStep
<1>8. <<<<c, u>>, Output!Done, <<d, Output!Unset(OutputFields)>>>> \in OutputSteps(C)
  BY <1>1, <1>2, <1>3, <1>5, <1>7, OutputStepsDef, Zenon
<1> QED
  BY <1>8, Zenon DEF c, d, u, OutputEnd

(* Another state of the compositor is one more state to be in.             *)
LEMMA OutputGrows ==
  ASSUME NEW C, NEW D, C \subseteq D, NEW w, NEW a, NEW z, Path(OutputSteps(C), w, a, z)
  PROVE  Path(OutputSteps(D), w, a, z)
<1>1. OutputNodes(C) \subseteq OutputNodes(D)
  BY Zenon DEF OutputNodes
<1>2. \A x, e, y : <<x, e, y>> \in OutputSteps(C) => <<x, e, y>> \in OutputSteps(D)
  BY <1>1, OutputStepsDef, Zenon
<1> QED
  BY <1>2, Zenon DEF Path

(* At first the output has the state of the compositor.                    *)
LEMMA OutputInit == Output!Init => OutputType /\ OutputFollows
<1> SUFFICES ASSUME Output!Init PROVE OutputType /\ OutputFollows
  OBVIOUS
<1>1. properties \in Properties /\ committed = {properties}
  BY DEF Output!Init, Properties
<1>2. OutputType
  BY <1>1, VersionsAssumption DEF Output!Init, OutputType
<1>3. <<current, pending>> = OutputEnd(properties) /\ wire = <<>>
  BY Zenon DEF Output!Init, OutputEnd
<1>4. <<current, pending>> \in OutputNodes(committed)
  <2>1. committed \in SUBSET Properties /\ properties \in committed
    BY <1>2, Zenon DEF OutputType
  <2>2. /\ Output!Unset(OutputFields) \in [OutputFields -> Nat]
        /\ \A q \in [OutputFields -> Nat] :
              <<Output!Part(properties, OutputFields), q>> \in OutputNodes(committed)
    BY <2>1, OutputParts
  <2> QED
    BY <1>3, <2>2, Zenon DEF OutputEnd
<1>5. Path(OutputSteps(committed), wire, <<current, pending>>, OutputEnd(properties))
  BY <1>3, PathEmpty
<1> QED
  BY <1>2, <1>4, <1>5, Zenon DEF OutputFollows

(* The listener of the output takes a step of the path.                    *)
LEMMA OutputTakes ==
  ASSUME OutputType, OutputFollows, wire # <<>>, wire' = Tail(wire),
         committed' = committed, properties' = properties,
         OutputStep(<<current, pending>>, Head(wire), <<current', pending'>>)
  PROVE  OutputFollows'
<1>1. PICK C, w, a, z :
        /\ C = OutputSteps(committed) /\ w = wire /\ a = <<current, pending>>
        /\ z = OutputEnd(properties)
  OBVIOUS
<1>2. w \in Seq(OutputEvents) /\ w # <<>> /\ Path(C, w, a, z)
  BY <1>1, Zenon DEF OutputType, OutputFollows
<1>3. PICK b : <<a, Head(w), b>> \in C /\ Path(C, Tail(w), b, z)
  BY <1>2, PathTail
<1>4. b \in OutputNodes(committed) /\ OutputStep(a, Head(w), b)
  BY <1>1, <1>3, OutputStepsDef, Zenon
<1>5. b = <<current', pending'>>
  BY <1>1, <1>4, Zenon DEF OutputStep
<1> QED
  BY <1>1, <1>3, <1>4, <1>5, Zenon DEF OutputFollows, OutputEnd

(* A change of the compositor extends the path, in either order.           *)
LEMMA OutputChanges ==
  ASSUME OutputType, OutputFollows, NEW F \in SUBSET Output!Fields, Output!Change(F)
  PROVE  OutputType' /\ OutputFollows'
<1>1. PICK p : p = [f \in Output!Fields |-> IF f \in F THEN changes + 1 ELSE properties[f]]
  OBVIOUS
<1>2. PICK x : x = Output!XdgPart(F \cap XdgFields, p, resource)
  OBVIOUS
<1>3. PICK o : o = Output!OutputPart(F \cap OutputFields, p)
  OBVIOUS
<1>4. /\ properties' = p /\ changes' = changes + 1 /\ committed' = committed \cup {p}
      /\ wire' \in { wire \o x \o o \o <<Output!Done>>, wire \o o \o x \o <<Output!Done>> }
      /\ UNCHANGED <<version, resource, outputRequests, current, pending, objects, object>>
  BY <1>1, <1>2, <1>3, Zenon DEF Output!Change, Output!outputVars, Output!xdgVars
<1>5. changes \in Nat /\ properties \in Properties /\ resource \in Nat
  BY DEF OutputType
<1>6. p \in Properties
  BY <1>1, <1>5 DEF Properties
<1>7. PICK D : D = committed \cup {p}
  OBVIOUS
<1>8. /\ D \in SUBSET Properties /\ committed \in SUBSET Properties /\ committed \subseteq D
      /\ p \in D /\ properties \in committed /\ properties \in D
  BY <1>6, <1>7, Zenon DEF OutputType
<1>9. /\ x \in Seq(OutputEvents)
      /\ \A k \in 1 .. Len(x) : x[k].type \in {"xdg_output", "xdg_output.done"}
  <2>1. F \cap XdgFields \in SUBSET XdgFields
    OBVIOUS
  <2> QED
    BY <2>1, <1>2, <1>5, <1>6, XdgPartEvents, Zenon DEF ForXdg
<1>10. F \cap OutputFields \in SUBSET OutputFields
  OBVIOUS
<1>11. o \in Seq(OutputEvents)
  BY <1>3, <1>6, <1>10, OutputLists, Zenon
<1>12. wire \in Seq(OutputEvents) /\ Output!Done \in OutputEvents
  BY DoneEvents, Zenon DEF OutputType
<1> DEFINE q == Output!Part(properties, OutputFields)
           u == Output!Unset(OutputFields)
           v == [f \in OutputFields |-> IF f \in F \cap OutputFields THEN p[f] ELSE 0]
<1>13. Path(OutputSteps(D), wire, <<current, pending>>, <<q, u>>)
  BY <1>8, OutputGrows, Zenon DEF OutputFollows, OutputEnd
<1>14. Path(OutputSteps(D), o, <<q, u>>, <<q, v>>)
  BY <1>3, <1>8, <1>10, OutputBatch, Zenon
<1>15. <<q, u>> \in OutputNodes(D) /\ <<q, v>> \in OutputNodes(D)
  <2>1. /\ u \in [OutputFields -> Nat]
        /\ \A r \in [OutputFields -> Nat] : <<q, r>> \in OutputNodes(D)
    BY <1>8, OutputParts
  <2>2. v \in [OutputFields -> Nat]
    <3>1. \A f \in OutputFields : p[f] \in Nat \ {0}
      BY <1>8, OutputParts
    <3> QED
      BY <3>1
  <2> QED
    BY <2>1, <2>2, Zenon
<1>16. Path(OutputSteps(D), x, <<q, u>>, <<q, u>>) /\ Path(OutputSteps(D), x, <<q, v>>, <<q, v>>)
  BY <1>9, <1>15, OutputStays
<1>17. <<<<q, v>>, Output!Done, OutputEnd(p)>> \in OutputSteps(D)
  <2>1. \A f \in OutputFields : f \notin F \cap OutputFields => properties[f] = p[f]
    BY <1>1 DEF Output!Fields
  <2> QED
    BY <2>1, <1>8, <1>10, OutputDone, Zenon
<1> HIDE DEF q, u, v
<1>18. PICK a, b, c, d, e, f, t :
         /\ a = <<current, pending>> /\ b = <<q, u>> /\ c = <<q, v>> /\ d = OutputEnd(p)
         /\ e = Output!Done /\ f = OutputSteps(D) /\ t = wire'
  OBVIOUS
<1>19. t \in { wire \o o \o x \o <<e>>, wire \o x \o o \o <<e>> }
  BY <1>4, <1>18, Zenon
<1>20. Path(f, t, a, d) /\ t \in Seq(OutputEvents)
  <2>1. /\ Path(f, wire, a, b) /\ Path(f, o, b, c) /\ Path(f, x, b, b) /\ Path(f, x, c, c)
        /\ <<c, e, d>> \in f /\ e \in OutputEvents
    BY <1>12, <1>13, <1>14, <1>16, <1>17, <1>18, Zenon
  <2>2. Passing(f, OutputEvents, wire, o, x, e, a, b, c, d)
    BY <2>1, <1>9, <1>11, <1>12, Zenon DEF Passing
  <2>3. PICK W : W = wire
    OBVIOUS
  <2>4. /\ Path(f, W \o o \o x \o <<e>>, a, d) /\ W \o o \o x \o <<e>> \in Seq(OutputEvents)
        /\ Path(f, W \o x \o o \o <<e>>, a, d) /\ W \o x \o o \o <<e>> \in Seq(OutputEvents)
    BY <2>2, <2>3, PathEither, Zenon
  <2> QED
    BY <2>3, <2>4, <1>19, Zenon
<1>21. OutputType'
  <2>1. wire' \in Seq(OutputEvents) /\ changes' \in Nat
    BY <1>4, <1>5, <1>18, <1>20
  <2>2. committed' \in SUBSET Properties /\ properties' \in committed'
    BY <1>4, <1>7, <1>8, Zenon
  <2> QED
    BY <2>1, <2>2, <1>4, Zenon DEF OutputType
<1>22. <<current, pending>> \in OutputNodes(D)
  BY <1>8, Zenon DEF OutputFollows, OutputNodes
<1> QED
  BY <1>4, <1>7, <1>18, <1>20, <1>21, <1>22, Zenon DEF OutputFollows, OutputEnd

(* So does its answer to a request for an xdg_output, which the listener   *)
(* of the output passes over.                                              *)
LEMMA OutputAnswers ==
  ASSUME OutputType, OutputFollows, Output!HandleRequest
  PROVE  OutputType' /\ OutputFollows'
<1>1. PICK r : r = Head(outputRequests)
  OBVIOUS
<1>2. /\ r \in {"get_xdg_output", "destroy"} \X Nat
      /\ Tail(outputRequests) \in Seq({"get_xdg_output", "destroy"} \X Nat)
  BY <1>1 DEF OutputType, Output!HandleRequest
<1>3. /\ outputRequests' = Tail(outputRequests)
      /\ UNCHANGED <<version, properties, changes, committed, current, pending, object, objects>>
  BY Zenon DEF Output!HandleRequest, Output!compositorVars, Output!outputVars, Output!xdgVars
<1>4. CASE r[1] = "get_xdg_output"
  <2>1. PICK x : x = Output!XdgPart(XdgFields, properties, r[2])
    OBVIOUS
  <2>2. PICK y : y = IF version >= 3 THEN <<Output!Done>> ELSE <<>>
    OBVIOUS
  <2>3. resource' = r[2] /\ wire' = wire \o x \o y
    BY <1>1, <1>4, <2>1, <2>2, Zenon DEF Output!HandleRequest
  <2>4. r[2] \in Nat /\ properties \in Properties
    BY <1>2 DEF OutputType
  <2>5. /\ x \in Seq(OutputEvents)
        /\ \A k \in 1 .. Len(x) : x[k].type \in {"xdg_output", "xdg_output.done"}
    <3>1. XdgFields \in SUBSET XdgFields
      OBVIOUS
    <3> QED
      BY <3>1, <2>1, <2>4, XdgPartEvents, ZenonT(30) DEF ForXdg
  <2>6. wire \in Seq(OutputEvents) /\ Output!Done \in OutputEvents
    BY DoneEvents, Zenon DEF OutputType
  <2>7. y \in Seq(OutputEvents)
    BY <2>2, <2>6
  <2>8. PICK f, a, z : /\ f = OutputSteps(committed) /\ a = <<current, pending>>
                       /\ z = OutputEnd(properties)
    OBVIOUS
  <2>9. committed \in SUBSET Properties /\ properties \in committed
    BY Zenon DEF OutputType
  <2>10. Path(f, x, z, z)
    <3>1. z \in OutputNodes(committed)
      <4>1. /\ Output!Unset(OutputFields) \in [OutputFields -> Nat]
            /\ \A q \in [OutputFields -> Nat] :
                  <<Output!Part(properties, OutputFields), q>> \in OutputNodes(committed)
        BY <2>9, OutputParts
      <4> QED
        BY <4>1, <2>8, Zenon DEF OutputEnd
    <3> QED
      BY <3>1, <2>5, <2>8, OutputStays
  <2>11. Path(f, y, z, z)
    <3>1. <<z, Output!Done, z>> \in f
      <4>1. {} \in SUBSET OutputFields
        OBVIOUS
      <4>2. <<<<Output!Part(properties, OutputFields),
                [g \in OutputFields |-> IF g \in {} THEN properties[g] ELSE 0]>>,
               Output!Done, OutputEnd(properties)>> \in OutputSteps(committed)
        BY <4>1, <2>9, OutputDone, Zenon
      <4>3. [g \in OutputFields |-> IF g \in {} THEN properties[g] ELSE 0]
              = Output!Unset(OutputFields)
        BY DEF Output!Unset
      <4> QED
        BY <4>2, <4>3, <2>8, Zenon DEF OutputEnd
    <3>2. \A k \in 1 .. Len(y) : y[k] = Output!Done
      BY <2>2
    <3>3. \A k \in 1 .. Len(y) : <<z, y[k], z>> \in f
      BY <3>1, <3>2, Zenon
    <3> QED
      BY <3>3, <2>7, PathStays
  <2>12. Path(f, wire, a, z)
    BY <2>8, Zenon DEF OutputFollows
  <2>13. wire \o x \in Seq(OutputEvents) /\ wire \o x \o y \in Seq(OutputEvents)
    BY <2>5, <2>6, <2>7
  <2>14. Path(f, wire \o x, a, z)
    BY <2>5, <2>6, <2>10, <2>12, PathJoins
  <2>15. Path(f, wire \o x \o y, a, z)
    BY <2>7, <2>11, <2>13, <2>14, PathJoins
  <2>16. OutputFollows'
    BY <1>3, <2>3, <2>8, <2>15, Zenon DEF OutputFollows, OutputEnd
  <2>17. wire' \in Seq(OutputEvents) /\ resource' \in Nat
    BY <2>3, <2>4, <2>13, Zenon
  <2> QED
    BY <1>2, <1>3, <2>16, <2>17, Zenon DEF OutputType
<1>5. CASE r[1] # "get_xdg_output"
  <2>1. resource' = 0 /\ wire' = wire
    BY <1>1, <1>5, Zenon DEF Output!HandleRequest
  <2>2. OutputFollows'
    BY <1>3, <2>1, Zenon DEF OutputFollows, OutputEnd
  <2>3. resource' \in Nat
    BY <2>1
  <2> QED
    BY <1>2, <1>3, <2>1, <2>2, <2>3, Zenon DEF OutputType
<1> QED
  BY <1>4, <1>5, Zenon

(* Every step keeps what is said of the output.                            *)
LEMMA OutputNext ==
  OutputType /\ OutputFollows /\ (Output!Next \/ UNCHANGED outputVars)
    => OutputType' /\ OutputFollows'
<1> SUFFICES ASSUME OutputType, OutputFollows, Output!Next \/ UNCHANGED outputVars
             PROVE  OutputType' /\ OutputFollows'
  OBVIOUS
<1>1. ASSUME NEW t, Output!Take(t)
      PROVE  /\ OutputType' /\ wire # <<>> /\ wire' = Tail(wire) /\ Head(wire).type = t
             /\ committed' = committed /\ properties' = properties
  <2>1. /\ wire # <<>> /\ wire' = Tail(wire) /\ Head(wire).type = t
        /\ UNCHANGED <<version, properties, changes, committed, resource, outputRequests, object,
                       objects>>
    BY <1>1, Zenon DEF Output!Take, Output!compositorVars
  <2>2. wire' \in Seq(OutputEvents)
    BY <2>1 DEF OutputType
  <2> QED
    BY <2>1, <2>2, Zenon DEF OutputType
<1>2. CASE \E F \in SUBSET Output!Fields : Output!Change(F)
  BY <1>2, OutputChanges
<1>3. CASE Output!HandleRequest
  BY <1>3, OutputAnswers
<1>4. CASE Output!output_property
  <2>1. Output!Take("wl_output")
    BY <1>4, Zenon DEF Output!output_property
  <2>2. OutputStep(<<current, pending>>, Head(wire), <<current', pending'>>)
    BY <1>1, <1>4, <2>1 DEF Output!output_property, OutputStep
  <2> QED
    BY <1>1, <2>1, <2>2, OutputTakes, Zenon
<1>5. CASE Output!done_thunk
  <2>1. Output!Take("wl_output.done")
    BY <1>5, Zenon DEF Output!done_thunk
  <2>2. OutputStep(<<current, pending>>, Head(wire), <<current', pending'>>)
    BY <1>1, <1>5, <2>1 DEF Output!done_thunk, OutputStep
  <2> QED
    BY <1>1, <2>1, <2>2, OutputTakes, Zenon
<1>6. CASE Output!xdg_property
  <2>1. Output!Take("xdg_output") /\ UNCHANGED <<current, pending>>
    BY <1>6, Zenon DEF Output!xdg_property, Output!outputVars
  <2>2. OutputStep(<<current, pending>>, Head(wire), <<current', pending'>>)
    BY <1>1, <2>1 DEF OutputStep
  <2> QED
    BY <1>1, <2>1, <2>2, OutputTakes, Zenon
<1>7. CASE Output!xdg_done
  <2>1. Output!Take("xdg_output.done") /\ UNCHANGED <<current, pending>>
    BY <1>7, Zenon DEF Output!xdg_done, Output!outputVars
  <2>2. OutputStep(<<current, pending>>, Head(wire), <<current', pending'>>)
    BY <1>1, <2>1 DEF OutputStep
  <2> QED
    BY <1>1, <2>1, <2>2, OutputTakes, Zenon
<1>8. CASE Output!NewXdgOutput \/ Output!DestroyXdgOutput
  <2>1. UNCHANGED <<version, properties, changes, committed, resource, wire, current, pending>>
    BY <1>8, Zenon DEF Output!NewXdgOutput, Output!DestroyXdgOutput, Output!compositorVars,
                       Output!outputVars
  <2>2. OutputFollows'
    BY <2>1, Zenon DEF OutputFollows, OutputEnd
  <2>3. /\ outputRequests' \in Seq({"get_xdg_output", "destroy"} \X Nat)
        /\ objects' \in Nat /\ object' \in Nat
    <3>1. /\ outputRequests \in Seq({"get_xdg_output", "destroy"} \X Nat)
          /\ objects \in Nat /\ object \in Nat
      BY Zenon DEF OutputType
    <3>2. CASE Output!NewXdgOutput
      <4>1. /\ objects' = objects + 1 /\ object' = objects'
            /\ outputRequests' = Append(outputRequests, <<"get_xdg_output", objects'>>)
        BY <3>2, Zenon DEF Output!NewXdgOutput
      <4> QED
        BY <3>1, <4>1
    <3>3. CASE Output!DestroyXdgOutput
      <4>1. /\ objects' = objects /\ object' = 0
            /\ outputRequests' = Append(outputRequests, <<"destroy", object>>)
        BY <3>3, Zenon DEF Output!DestroyXdgOutput
      <4> QED
        BY <3>1, <4>1
    <3> QED
      BY <1>8, <3>2, <3>3, Zenon
  <2> QED
    BY <2>1, <2>2, <2>3, Zenon DEF OutputType
<1>9. CASE UNCHANGED outputVars
  <2>1. UNCHANGED <<version, properties, changes, committed, resource, wire, current, pending,
                    outputRequests, object, objects>>
    BY <1>9, Zenon DEF outputVars
  <2> QED
    BY <2>1, Zenon DEF OutputType, OutputFollows, OutputEnd
<1> QED
  BY <1>2, <1>3, <1>4, <1>5, <1>6, <1>7, <1>8, <1>9, Zenon DEF Output!Next

(* What the invariant says of a settled output.                            *)
LEMMA OutputCorrect ==
  ASSUME OutputType, OutputFollows
  PROVE  /\ \E p \in committed : current = Output!Part(p, OutputFields)
         /\ wire = <<>> => current = Output!Part(properties, OutputFields)
<1>1. \E p \in committed : current = Output!Part(p, OutputFields)
  BY DEF OutputFollows, OutputNodes
<1>2. ASSUME wire = <<>> PROVE current = Output!Part(properties, OutputFields)
  <2>1. Path(OutputSteps(committed), <<>>, <<current, pending>>, OutputEnd(properties))
    BY <1>2, Zenon DEF OutputFollows
  <2>2. <<current, pending>> = OutputEnd(properties)
    BY <2>1, PathEmpty
  <2> QED
    BY <2>2 DEF OutputEnd
<1> QED
  BY <1>1, <1>2, Zenon

(* What the listener of an xdg_output keeps: a clean state is one of the   *)
(* compositor, or none yet.                                                *)
XdgNodes(C) ==
    { n \in [XdgFields -> Nat] \X {"clean", "dirty"} :
        n[2] = "clean" => \/ n[1] = Output!Unset(XdgFields)
                          \/ \E p \in C : n[1] = Output!Part(p, XdgFields) }

XdgStep(v, o, x, e, y) ==
    y = IF e.object = o /\ e.type = "xdg_output"
        THEN <<[x[1] EXCEPT ![e.field] = e.value], "dirty">>
        ELSE IF \/ e.object = o /\ e.type = "xdg_output.done" /\ v < 3
                \/ e.type = "wl_output.done" /\ ~(v < 3)
        THEN <<x[1], "clean">>
        ELSE x

XdgSteps(C, v, o) ==
    { t \in XdgNodes(C) \X OutputEvents \X XdgNodes(C) : XdgStep(v, o, t[1], t[2], t[3]) }

(* What an xdg_output may keep.                                            *)
LEMMA XdgNodesDef ==
  \A C, t, d : <<t, d>> \in XdgNodes(C) <=>
      /\ t \in [XdgFields -> Nat] /\ d \in {"clean", "dirty"}
      /\ d = "clean" => t = Output!Unset(XdgFields) \/ \E p \in C : t = Output!Part(p, XdgFields)
  BY DEF XdgNodes

(* What is a step of an xdg_output.                                        *)
LEMMA XdgStepsDef ==
  \A C, v, o, x, e, y : <<x, e, y>> \in XdgSteps(C, v, o) <=>
      x \in XdgNodes(C) /\ e \in OutputEvents /\ y \in XdgNodes(C) /\ XdgStep(v, o, x, e, y)
  BY DEF XdgSteps

(* A state of the compositor is one of an xdg_output.                      *)
LEMMA XdgParts ==
  ASSUME NEW p \in Properties
  PROVE  /\ Output!Part(p, XdgFields) \in [XdgFields -> Nat]
         /\ \A f \in XdgFields : Output!Part(p, XdgFields)[f] = p[f] /\ p[f] \in Nat
         /\ Output!Unset(XdgFields) \in [XdgFields -> Nat]
<1>1. \A f \in XdgFields : p[f] \in Nat
  BY DEF Properties, Output!Fields
<1> QED
  BY <1>1, Zenon DEF Output!Part, Output!Unset

(* Events for another object, and those that end nothing, change nothing.  *)
LEMMA XdgStays ==
  ASSUME NEW C, NEW v, NEW o, NEW t, NEW d, NEW w \in Seq(OutputEvents),
         <<t, d>> \in XdgNodes(C),
         \A k \in 1 .. Len(w) : w[k].object # o,
         \A k \in 1 .. Len(w) : d = "clean" \/ w[k].type # "wl_output.done"
  PROVE  Path(XdgSteps(C, v, o), w, <<t, d>>, <<t, d>>)
<1>1. \A k \in 1 .. Len(w) : w[k] \in OutputEvents
  OBVIOUS
<1>2. <<t, d>>[1] = t
  OBVIOUS
<1>3. \A k \in 1 .. Len(w) : XdgStep(v, o, <<t, d>>, w[k], <<t, d>>)
  BY <1>2, Zenon DEF XdgStep
<1>4. \A k \in 1 .. Len(w) : <<<<t, d>>, w[k], <<t, d>>>> \in XdgSteps(C, v, o)
  BY <1>1, <1>3, XdgStepsDef, Zenon
<1> QED
  BY <1>4, PathStays

(* Another state of the compositor is one more state to be in.             *)
LEMMA XdgGrows ==
  ASSUME NEW C, NEW D, C \subseteq D, NEW v, NEW o, NEW w, NEW a, NEW z,
         Path(XdgSteps(C, v, o), w, a, z)
  PROVE  Path(XdgSteps(D, v, o), w, a, z)
<1>1. XdgNodes(C) \subseteq XdgNodes(D)
  BY Zenon DEF XdgNodes
<1>2. \A x, e, y : <<x, e, y>> \in XdgSteps(C, v, o) => <<x, e, y>> \in XdgSteps(D, v, o)
  BY <1>1, XdgStepsDef, Zenon
<1> QED
  BY <1>2, Zenon DEF Path

(* A batch of properties completes the state.                              *)
LEMMA XdgBatch ==
  ASSUME NEW C \in SUBSET Properties, NEW p \in C, NEW F \in SUBSET XdgFields, NEW v,
         NEW r \in Nat, NEW t, <<t, "clean">> \in XdgNodes(C),
         \A f \in XdgFields : f \notin F => t[f] = p[f]
  PROVE  \E d \in {"clean", "dirty"} :
            /\ <<Output!Part(p, XdgFields), d>> \in XdgNodes(C)
            /\ Path(XdgSteps(C, v, r), XdgList(F, p, r), <<t, "clean">>,
                    <<Output!Part(p, XdgFields), d>>)
<1>0. PICK w : w = XdgList(F, p, r)
  OBVIOUS
<1>1. PICK o \in Seq(F) : ListsXdg(w, o, F, p, r)
  <2>1. p \in Properties
    OBVIOUS
  <2> QED
    BY <1>0, <2>1, XdgLists, Zenon
<1>2. /\ \A f \in F : \E k \in 1 .. Len(o) : o[k] = f
      /\ w \in Seq(OutputEvents) /\ Len(w) = Len(o)
      /\ \A k \in 1 .. Len(o) : /\ o[k] \in F /\ w[k].type = "xdg_output" /\ w[k].field = o[k]
                                /\ w[k].value = p[o[k]] /\ w[k].object = r
  BY <1>1, Zenon DEF ListsXdg
<1> DEFINE c == Output!Part(p, XdgFields)
           Q(k) == [f \in XdgFields |-> IF \E j \in 1 .. k - 1 : o[j] = f THEN p[f] ELSE t[f]]
           G(k) == IF k = 1 THEN "clean" ELSE "dirty"
           S == [k \in 1 .. Len(w) + 1 |-> <<Q(k), G(k)>>]
<1>3. Len(w) \in Nat /\ \A k \in 1 .. Len(w) : w[k] \in OutputEvents
  BY <1>2
<1>4. /\ c \in [XdgFields -> Nat] /\ \A f \in XdgFields : c[f] = p[f] /\ p[f] \in Nat
  BY XdgParts
<1>5. t \in [XdgFields -> Nat]
  BY XdgNodesDef, Zenon
<1>6. \A k : Q(k) \in [XdgFields -> Nat] /\ G(k) \in {"clean", "dirty"}
  BY <1>4, <1>5
<1>7. Q(1) = t /\ G(1) = "clean"
  BY <1>5
<1>8. Q(Len(w) + 1) = c
  <2>1. \A f \in XdgFields : (\E j \in 1 .. (Len(w) + 1) - 1 : o[j] = f) <=> f \in F
    BY <1>2, <1>3
  <2>2. \A f \in XdgFields : Q(Len(w) + 1)[f] = c[f]
    BY <2>1, <1>4, Zenon
  <2>3. DOMAIN Q(Len(w) + 1) = XdgFields /\ DOMAIN c = XdgFields
    BY <1>4
  <2> QED
    BY <2>2, <1>4, <1>6
<1>9. ASSUME NEW k \in 1 .. Len(w)
      PROVE  Q(k + 1) = [Q(k) EXCEPT ![w[k].field] = w[k].value]
  <2>1. w[k].field = o[k] /\ w[k].value = p[o[k]] /\ o[k] \in XdgFields
    BY <1>2
  <2>2. \A f \in XdgFields :
          (\E j \in 1 .. (k + 1) - 1 : o[j] = f) <=> f = o[k] \/ (\E j \in 1 .. k - 1 : o[j] = f)
    <3>1. \A j : j \in 1 .. (k + 1) - 1 <=> j = k \/ j \in 1 .. k - 1
      BY <1>3
    <3> QED
      BY <3>1, Zenon
  <2>3. \A f \in XdgFields : Q(k + 1)[f] = IF f = o[k] THEN p[o[k]] ELSE Q(k)[f]
    BY <2>2, Zenon
  <2>4. PICK a, b, g, n : a = Q(k) /\ b = Q(k + 1) /\ g = o[k] /\ n = p[o[k]]
    BY Zenon
  <2>5. a \in [XdgFields -> Nat] /\ b \in [XdgFields -> Nat]
    BY <1>6, <2>4, Zenon
  <2>6. \A f \in XdgFields : b[f] = IF f = g THEN n ELSE a[f]
    BY <2>3, <2>4, Zenon
  <2>7. b = [a EXCEPT ![g] = n]
    BY <2>5, <2>6
  <2> QED
    BY <2>1, <2>4, <2>7, Zenon
<1> HIDE DEF Q, c
<1>10. \A k \in 1 .. Len(w) + 1 : <<Q(k), G(k)>> \in XdgNodes(C)
  <2>1. <<Q(1), G(1)>> \in XdgNodes(C)
    BY <1>7
  <2>2. \A k \in 1 .. Len(w) + 1 : k # 1 => G(k) = "dirty"
    OBVIOUS
  <2>3. \A k \in 1 .. Len(w) + 1 : k # 1 => <<Q(k), G(k)>> \in XdgNodes(C)
    <3>1. "dirty" # "clean"
      OBVIOUS
    <3> HIDE DEF G
    <3> QED
      BY <1>6, <2>2, <3>1, XdgNodesDef, Zenon
  <2> QED
    BY <2>1, <2>3, Zenon
<1>11. \A k \in 1 .. Len(w) : G(k + 1) = "dirty"
  BY <1>3
<1> HIDE DEF G
<1>12. ASSUME NEW k \in 1 .. Len(w)
       PROVE  <<<<Q(k), G(k)>>, w[k], <<Q(k + 1), G(k + 1)>>>> \in XdgSteps(C, v, r)
  <2>1. k \in 1 .. Len(w) + 1 /\ k + 1 \in 1 .. Len(w) + 1
    BY <1>3
  <2>2. w[k].object = r /\ w[k].type = "xdg_output"
    BY <1>2
  <2>3. <<Q(k), G(k)>>[1] = Q(k)
    OBVIOUS
  <2>4. XdgStep(v, r, <<Q(k), G(k)>>, w[k], <<Q(k + 1), G(k + 1)>>)
    BY <1>9, <1>11, <2>2, <2>3, Zenon DEF XdgStep
  <2> QED
    BY <1>3, <1>10, <2>1, <2>4, XdgStepsDef, Zenon
<1>13. /\ S[1] = <<Q(1), G(1)>> /\ S[Len(w) + 1] = <<Q(Len(w) + 1), G(Len(w) + 1)>>
       /\ \A k \in 1 .. Len(w) : S[k] = <<Q(k), G(k)>> /\ S[k + 1] = <<Q(k + 1), G(k + 1)>>
  <2>1. /\ 1 \in 1 .. Len(w) + 1 /\ Len(w) + 1 \in 1 .. Len(w) + 1
        /\ \A k \in 1 .. Len(w) : k \in 1 .. Len(w) + 1 /\ k + 1 \in 1 .. Len(w) + 1
    <3> HIDE DEF S
    <3> QED
      BY <1>3
  <2> QED
    BY <2>1, Zenon
<1> HIDE DEF S
<1>14. \A k \in 1 .. Len(w) : <<S[k], w[k], S[k + 1]>> \in XdgSteps(C, v, r)
  BY <1>12, <1>13, Zenon
<1>15. Path(XdgSteps(C, v, r), w, <<Q(1), G(1)>>, <<Q(Len(w) + 1), G(Len(w) + 1)>>)
  BY <1>13, <1>14, Zenon DEF Path
<1>16. Len(w) + 1 \in 1 .. Len(w) + 1
  BY <1>3
<1>17. <<c, G(Len(w) + 1)>> \in XdgNodes(C) /\ G(Len(w) + 1) \in {"clean", "dirty"}
  BY <1>6, <1>8, <1>10, <1>16, Zenon
<1>18. Path(XdgSteps(C, v, r), w, <<t, "clean">>, <<c, G(Len(w) + 1)>>)
  BY <1>7, <1>8, <1>15, Zenon
<1> QED
  BY <1>0, <1>17, <1>18, Zenon DEF c

(* What ends a batch: the done of the object before version 3, the output's *)
(* since.                                                                  *)
LEMMA XdgEnds ==
  ASSUME NEW C \in SUBSET Properties, NEW p \in C, NEW F \in SUBSET XdgFields,
         version \in Nat, NEW r \in Nat \ {0}, NEW t, <<t, "clean">> \in XdgNodes(C),
         \A f \in XdgFields : f \notin F => t[f] = p[f]
  PROVE  \E d \in {"clean", "dirty"} :
            /\ <<Output!Part(p, XdgFields), d>> \in XdgNodes(C)
            /\ Path(XdgSteps(C, version, r), Output!XdgPart(F, p, r), <<t, "clean">>,
                    <<Output!Part(p, XdgFields), d>>)
            /\ <<<<Output!Part(p, XdgFields), d>>, Output!Done,
                 <<Output!Part(p, XdgFields), "clean">>>> \in XdgSteps(C, version, r)
            /\ version < 3 => d = "clean"
<1>1. PICK c, w, V, f :
        /\ c = Output!Part(p, XdgFields) /\ w = XdgList(F, p, r) /\ V = version
        /\ f = XdgSteps(C, V, r)
  OBVIOUS
<1>2. PICK d \in {"clean", "dirty"} : /\ <<c, d>> \in XdgNodes(C)
                                      /\ Path(f, w, <<t, "clean">>, <<c, d>>)
  BY <1>1, XdgBatch, Zenon
<1>3. <<c, "clean">> \in XdgNodes(C)
  <2>1. c \in [XdgFields -> Nat]
    BY <1>1, XdgParts
  <2> QED
    BY <1>1, <2>1, XdgNodesDef, Zenon
<1>4. /\ Output!Done \in OutputEvents /\ Output!Done.type = "wl_output.done"
      /\ Output!Done.type # "xdg_output" /\ Output!Done.type # "xdg_output.done"
      /\ Output!XdgDone(r) \in OutputEvents /\ Output!XdgDone(r).object = r
      /\ Output!XdgDone(r).type = "xdg_output.done" /\ Output!XdgDone(r).type # "xdg_output"
  BY DoneEvents
<1>5. <<c, d>>[1] = c /\ <<c, "clean">>[1] = c
  OBVIOUS
<1>6. r # 0 /\ r \in Nat
  OBVIOUS
<1>7. w \in Seq(OutputEvents)
  BY <1>1, <1>6, XdgListEvents, Zenon
<1>8. CASE V < 3
  <2>1. Output!XdgPart(F, p, r) = w \o <<Output!XdgDone(r)>>
    BY <1>1, <1>6, <1>8, Zenon DEF Output!XdgPart, XdgList
  <2>2. w \o <<Output!XdgDone(r)>> = Append(w, Output!XdgDone(r))
    BY <1>4, <1>7
  <2>3. XdgStep(V, r, <<c, d>>, Output!XdgDone(r), <<c, "clean">>)
    BY <1>4, <1>5, <1>8, Zenon DEF XdgStep
  <2>4. <<<<c, d>>, Output!XdgDone(r), <<c, "clean">>>> \in f
    BY <1>1, <1>2, <1>3, <1>4, <2>3, XdgStepsDef, Zenon
  <2>5. PICK e, x, y, a : /\ e = Output!XdgDone(r) /\ x = <<c, d>> /\ y = <<c, "clean">>
                          /\ a = <<t, "clean">>
    OBVIOUS
  <2>6. Path(f, w, a, x) /\ <<x, e, y>> \in f /\ e \in OutputEvents
    BY <1>2, <1>4, <2>4, <2>5, Zenon
  <2>7. Path(f, Append(w, e), a, y)
    BY <1>7, <2>6, PathAppend
  <2>8. Path(f, Output!XdgPart(F, p, r), <<t, "clean">>, <<c, "clean">>)
    BY <2>1, <2>2, <2>5, <2>7, Zenon
  <2>9. XdgStep(V, r, <<c, "clean">>, Output!Done, <<c, "clean">>)
    BY <1>4, <1>5, <1>8, Zenon DEF XdgStep
  <2>10. <<<<c, "clean">>, Output!Done, <<c, "clean">>>> \in f
    BY <1>1, <1>3, <1>4, <2>9, XdgStepsDef, Zenon
  <2> QED
    BY <1>1, <1>3, <2>8, <2>10, Zenon
<1>9. CASE ~(V < 3)
  <2>1. Output!XdgPart(F, p, r) = w \o <<>>
    BY <1>1, <1>6, <1>9, Zenon DEF Output!XdgPart, XdgList
  <2>2. w \o <<>> = w
    BY <1>7
  <2>3. XdgStep(V, r, <<c, d>>, Output!Done, <<c, "clean">>)
    BY <1>4, <1>5, <1>9, Zenon DEF XdgStep
  <2>4. <<<<c, d>>, Output!Done, <<c, "clean">>>> \in f
    BY <1>1, <1>2, <1>3, <1>4, <2>3, XdgStepsDef, Zenon
  <2> QED
    BY <1>1, <1>2, <1>9, <2>1, <2>2, <2>4, Zenon
<1> QED
  BY <1>8, <1>9, Zenon

Flag == IF dirty THEN "dirty" ELSE "clean"

(* Numbers of objects not made yet are nowhere.                            *)
XdgBounds ==
    /\ object \in 0 .. objects /\ resource \in 0 .. objects
    /\ \A k \in 1 .. Len(wire) : wire[k].object \in 0 .. objects
    /\ \A k \in 1 .. Len(outputRequests) : outputRequests[k][2] \in 0 .. objects
    /\ done_notifiers = IF version >= 3 THEN 1 .. objects ELSE {}

(* The compositor has taken the request for the object: the events on      *)
(* their way lead to its state.                                            *)
Told ==
    /\ resource = object /\ outputRequests = <<>>
    /\ <<state, Flag>> \in XdgNodes(committed)
    /\ Path(XdgSteps(committed, version, object), wire, <<state, Flag>>,
            <<Output!Part(properties, XdgFields), "clean">>)

(* The request is the last one on its way, and nothing is for the object.  *)
Untold ==
    /\ resource # object /\ outputRequests # <<>>
    /\ outputRequests[Len(outputRequests)] = <<"get_xdg_output", object>>
    /\ \A k \in 1 .. Len(outputRequests) - 1 :
          outputRequests[k] # <<"get_xdg_output", object>>
    /\ state = Output!Unset(XdgFields) /\ Flag = "clean"
    /\ \A k \in 1 .. Len(wire) : wire[k].object # object

XdgFollows == XdgBounds /\ (object # 0 => Told \/ Untold)

(* At first there is no xdg_output.                                        *)
LEMMA XdgInit == Output!Init => XdgFollows
<1> SUFFICES ASSUME Output!Init PROVE XdgFollows
  OBVIOUS
<1>1. /\ object = 0 /\ objects = 0 /\ resource = 0 /\ wire = <<>> /\ outputRequests = <<>>
      /\ done_notifiers = {}
  BY Zenon DEF Output!Init
<1>2. XdgBounds
  BY <1>1 DEF XdgBounds
<1> QED
  BY <1>1, <1>2, Zenon DEF XdgFollows

(* Taking an event.                                                        *)
LEMMA XdgTakes ==
  ASSUME OutputType, XdgFollows, wire # <<>>, wire' = Tail(wire),
         UNCHANGED <<committed, properties, version, resource, outputRequests, object, objects,
                     done_notifiers>>,
         object # 0 => XdgStep(version, object, <<state, Flag>>, Head(wire), <<state', Flag'>>)
  PROVE  XdgFollows'
<1>1. wire \in Seq(OutputEvents) /\ version \in Nat
  BY Zenon DEF OutputType
<1>2. /\ wire' \in Seq(OutputEvents) /\ Head(wire) = wire[1] /\ 1 \in 1 .. Len(wire)
      /\ \A k \in 1 .. Len(wire') : k + 1 \in 1 .. Len(wire) /\ wire'[k] = wire[k + 1]
  BY <1>1
<1>3. XdgBounds'
  <2>1. \A k \in 1 .. Len(wire) : wire[k].object \in 0 .. objects
    BY Zenon DEF XdgFollows, XdgBounds
  <2>2. \A k \in 1 .. Len(wire') : wire'[k].object \in 0 .. objects
    BY <2>1, <1>2, Zenon
  <2> QED
    BY <2>2, Zenon DEF XdgFollows, XdgBounds
<1>4. ASSUME object # 0, Told PROVE Told'
  <2>1. PICK C, w, a, z :
          /\ C = XdgSteps(committed, version, object) /\ w = wire /\ a = <<state, Flag>>
          /\ z = <<Output!Part(properties, XdgFields), "clean">>
    OBVIOUS
  <2>2. w \in Seq(OutputEvents) /\ w # <<>> /\ Path(C, w, a, z)
    BY <1>1, <1>4, <2>1, Zenon DEF Told
  <2>3. PICK b : <<a, Head(w), b>> \in C /\ Path(C, Tail(w), b, z)
    BY <2>2, PathTail
  <2>4. b \in XdgNodes(committed) /\ XdgStep(version, object, a, Head(w), b)
    BY <2>1, <2>3, XdgStepsDef, Zenon
  <2>5. b = <<state', Flag'>>
    BY <1>4, <2>1, <2>4, Zenon DEF XdgStep
  <2>6. <<state', Flag'>> \in XdgNodes(committed')
    BY <2>4, <2>5, Zenon
  <2>7. Path(XdgSteps(committed', version', object'), wire', <<state', Flag'>>,
             <<Output!Part(properties', XdgFields), "clean">>)
    BY <2>1, <2>3, <2>5, Zenon
  <2>8. resource' = object' /\ outputRequests' = <<>>
    BY <1>4, Zenon DEF Told
  <2> QED
    BY <2>6, <2>7, <2>8, Zenon DEF Told
<1>5. ASSUME object # 0, Untold PROVE Untold'
  <2>1. \A k \in 1 .. Len(wire) : wire[k].object # object
    BY <1>5, Zenon DEF Untold
  <2>2. \A k \in 1 .. Len(wire') : wire'[k].object # object'
    BY <2>1, <1>2, Zenon
  <2>3. Head(wire).object # object
    BY <2>1, <1>2, Zenon
  <2>4. state = Output!Unset(XdgFields) /\ Flag = "clean"
    BY <1>5, Zenon DEF Untold
  <2>5. <<state, Flag>>[1] = state
    OBVIOUS
  <2>6. <<state', Flag'>> = <<state, Flag>>
    BY <1>5, <2>3, <2>4, <2>5, Zenon DEF XdgStep
  <2>7. state' = Output!Unset(XdgFields) /\ Flag' = "clean"
    BY <2>4, <2>6
  <2> QED
    BY <1>5, <2>2, <2>7, Zenon DEF Untold
<1> QED
  BY <1>3, <1>4, <1>5, Zenon DEF XdgFollows

(* The object and the wl_output events of a change.                        *)
LEMMA XdgChanges ==
  ASSUME OutputType, OutputType', XdgFollows, NEW F \in SUBSET Output!Fields, Output!Change(F)
  PROVE  XdgFollows'
<1>1. PICK p : p = [f \in Output!Fields |-> IF f \in F THEN changes + 1 ELSE properties[f]]
  OBVIOUS
<1>2. PICK x : x = Output!XdgPart(F \cap XdgFields, p, resource)
  OBVIOUS
<1>3. PICK o : o = Output!OutputPart(F \cap OutputFields, p)
  OBVIOUS
<1>4. PICK e : e = Output!Done
  OBVIOUS
<1>5. /\ properties' = p /\ committed' = committed \cup {p}
      /\ wire' \in { wire \o x \o o \o <<e>>, wire \o o \o x \o <<e>> }
      /\ UNCHANGED <<version, resource, outputRequests, objects, object, state, dirty,
                     done_notifiers>>
  BY <1>1, <1>2, <1>3, <1>4, Zenon DEF Output!Change, Output!xdgVars
<1>6. PICK D : D = committed \cup {p}
  OBVIOUS
<1>7. /\ D \in SUBSET Properties /\ committed \subseteq D /\ p \in D /\ p \in Properties
      /\ properties \in committed /\ properties \in Properties
  BY <1>5, <1>6, Zenon DEF OutputType
<1>8. wire \in Seq(OutputEvents) /\ resource \in Nat /\ version \in Nat /\ e \in OutputEvents
      /\ objects \in Nat /\ object \in Nat
  BY <1>4, DoneEvents, Zenon DEF OutputType
<1>9. F \cap XdgFields \in SUBSET XdgFields /\ F \cap OutputFields \in SUBSET OutputFields
  OBVIOUS
<1>10. x \in Seq(OutputEvents) /\ \A k \in 1 .. Len(x) : x[k].object = resource
  <2>1. ForXdg(x, resource)
    BY <1>2, <1>7, <1>8, <1>9, XdgPartEvents, Zenon
  <2> QED
    BY <2>1, Zenon DEF ForXdg
<1>11. /\ o \in Seq(OutputEvents)
       /\ \A k \in 1 .. Len(o) : o[k].type = "wl_output" /\ o[k].object = 0
  <2>1. PICK q \in Seq(F \cap OutputFields) :
          /\ o \in Seq(OutputEvents) /\ Len(o) = Len(q)
          /\ \A k \in 1 .. Len(q) : o[k].type = "wl_output" /\ o[k].object = 0
    BY <1>3, <1>7, <1>9, OutputLists, Zenon
  <2> QED
    BY <2>1
<1>12. e.object = 0
  BY <1>4, DoneEvents
<1>13. ASSUME NEW k \in 1 .. Len(wire')
       PROVE  \/ \E j \in 1 .. Len(wire) : wire'[k] = wire[j]
              \/ wire'[k].object = resource \/ wire'[k].object = 0
  <2> DEFINE T == { d \in OutputEvents : \/ \E j \in 1 .. Len(wire) : d = wire[j]
                                         \/ d.object = resource \/ d.object = 0 }
  <2>1. /\ \A j \in 1 .. Len(wire) : wire[j] \in T
        /\ \A j \in 1 .. Len(x) : x[j] \in T
        /\ \A j \in 1 .. Len(o) : o[j] \in T
        /\ e \in T
    BY <1>8, <1>10, <1>11, <1>12, WirePlace, Zenon
  <2>2. \A d \in T : \/ \E j \in 1 .. Len(wire) : d = wire[j]
                     \/ d.object = resource \/ d.object = 0
    OBVIOUS
  <2> HIDE DEF T
  <2>3. wire \in Seq(T) /\ x \in Seq(T) /\ o \in Seq(T)
    BY <1>8, <1>10, <1>11, <2>1, WireOf, Zenon
  <2>4. wire \o x \in Seq(T) /\ wire \o o \in Seq(T)
    BY <2>1, <2>3, WiresJoin, Zenon
  <2>5. wire' \in Seq(T)
    <3>1. wire \o x \o o \o <<e>> \in Seq(T)
      BY <2>1, <2>3, <2>4, WiresJoin, Zenon
    <3>2. wire \o o \o x \o <<e>> \in Seq(T)
      BY <2>1, <2>3, <2>4, WiresJoin, Zenon
    <3> QED
      BY <1>5, <3>1, <3>2, Zenon
  <2> QED
    BY <2>2, <2>5, WirePlace, Zenon
<1>14. XdgBounds'
  <2>1. resource \in 0 .. objects /\ \A j \in 1 .. Len(wire) : wire[j].object \in 0 .. objects
    BY Zenon DEF XdgFollows, XdgBounds
  <2>2. 0 \in 0 .. objects
    BY <1>8
  <2>3. \A k \in 1 .. Len(wire') : wire'[k].object \in 0 .. objects
    BY <1>13, <2>1, <2>2, Zenon
  <2> QED
    BY <1>5, <2>3, Zenon DEF XdgFollows, XdgBounds
<1>15. Flag' = Flag
  BY <1>5, Zenon DEF Flag
<1>16. ASSUME object # 0, Told PROVE Told'
  <2>1. PICK f, q, c, W :
          /\ f = XdgSteps(D, version, object) /\ q = Output!Part(properties, XdgFields)
          /\ c = Output!Part(p, XdgFields) /\ W = wire
    OBVIOUS
  <2>2. resource = object /\ resource \in Nat \ {0}
    BY <1>8, <1>16 DEF Told
  <2>3. q \in [XdgFields -> Nat] /\ \A g \in XdgFields : q[g] = properties[g]
    BY <1>7, <2>1, XdgParts
  <2>4. <<q, "clean">> \in XdgNodes(D)
    BY <1>7, <2>1, <2>3, XdgNodesDef, Zenon
  <2>5. \A g \in XdgFields : g \notin F \cap XdgFields => q[g] = p[g]
    <3>1. \A g \in XdgFields : g \notin F \cap XdgFields => properties[g] = p[g]
      BY <1>1 DEF Output!Fields
    <3> QED
      BY <2>3, <3>1, Zenon
  <2>6. PICK d \in {"clean", "dirty"} :
          /\ <<c, d>> \in XdgNodes(D)
          /\ Path(f, x, <<q, "clean">>, <<c, d>>)
          /\ <<<<c, d>>, e, <<c, "clean">>>> \in f
    BY <1>2, <1>4, <1>7, <1>8, <1>9, <2>1, <2>2, <2>4, <2>5, XdgEnds, Zenon
  <2>7. \A k \in 1 .. Len(o) : o[k].object # object /\ o[k].type # "wl_output.done"
    BY <1>11, <1>16
  <2>8. Path(f, o, <<q, "clean">>, <<q, "clean">>) /\ Path(f, o, <<c, d>>, <<c, d>>)
    BY <1>11, <2>1, <2>4, <2>6, <2>7, XdgStays, Zenon
  <2>9. Path(f, W, <<state, Flag>>, <<q, "clean">>)
    BY <1>7, <1>16, <2>1, XdgGrows, Zenon DEF Told
  <2>10. PICK a, b, y, z : /\ a = <<state, Flag>> /\ b = <<q, "clean">> /\ y = <<c, d>>
                           /\ z = <<c, "clean">>
    OBVIOUS
  <2>11. Passing(f, OutputEvents, W, x, o, e, a, b, y, z)
    BY <1>8, <1>10, <1>11, <2>1, <2>6, <2>8, <2>9, <2>10, Zenon DEF Passing
  <2>12. Path(f, W \o x \o o \o <<e>>, a, z) /\ Path(f, W \o o \o x \o <<e>>, a, z)
    BY <2>11, PathEither, Zenon
  <2>13. Path(f, wire', a, z)
    BY <1>5, <2>1, <2>12, Zenon
  <2>14. <<state, Flag>> \in XdgNodes(D)
    BY <1>7, <1>16, Zenon DEF Told, XdgNodes
  <2>15. <<state', Flag'>> \in XdgNodes(committed')
    BY <1>5, <1>6, <1>15, <2>14, Zenon
  <2>16. Path(XdgSteps(committed', version', object'), wire', <<state', Flag'>>,
              <<Output!Part(properties', XdgFields), "clean">>)
    BY <1>5, <1>6, <1>15, <2>1, <2>10, <2>13, Zenon
  <2> QED
    BY <1>5, <1>16, <2>15, <2>16, Zenon DEF Told
<1>17. ASSUME object # 0, Untold PROVE Untold'
  <2>1. resource # object /\ \A j \in 1 .. Len(wire) : wire[j].object # object
    BY <1>17, Zenon DEF Untold
  <2>2. \A k \in 1 .. Len(wire') : wire'[k].object # object
    BY <1>13, <1>17, <2>1, Zenon
  <2> QED
    BY <1>5, <1>15, <1>17, <2>2, Zenon DEF Untold
<1> QED
  BY <1>5, <1>14, <1>16, <1>17, Zenon DEF XdgFollows

(* The request for the object is answered with the whole state; another    *)
(* one is not about it.                                                    *)
LEMMA XdgAnswers ==
  ASSUME OutputType, OutputType', XdgFollows, Output!HandleRequest
  PROVE  XdgFollows'
<1>1. PICK r : r = Head(outputRequests)
  OBVIOUS
<1>2. PICK y : y = IF version >= 3 THEN <<Output!Done>> ELSE <<>>
  OBVIOUS
<1>3. PICK x : x = IF r[1] = "get_xdg_output" THEN Output!XdgPart(XdgFields, properties, r[2])
                   ELSE <<>>
  OBVIOUS
<1>4. PICK Y : Y = IF r[1] = "get_xdg_output" THEN y ELSE <<>>
  OBVIOUS
<1>5. PICK n : n = IF r[1] = "get_xdg_output" THEN r[2] ELSE 0
  OBVIOUS
<1>6. /\ outputRequests # <<>> /\ outputRequests' = Tail(outputRequests) /\ resource' = n
      /\ UNCHANGED <<version, properties, changes, committed, object, objects, state, dirty,
                     done_notifiers>>
  BY <1>1, <1>5, Zenon DEF Output!HandleRequest, Output!compositorVars, Output!xdgVars
<1>7. /\ wire \in Seq(OutputEvents) /\ version \in Nat /\ objects \in Nat /\ object \in Nat
      /\ outputRequests \in Seq({"get_xdg_output", "destroy"} \X Nat)
      /\ properties \in Properties /\ committed \in SUBSET Properties /\ properties \in committed
  BY Zenon DEF OutputType
<1>8. /\ r = outputRequests[1] /\ 1 \in 1 .. Len(outputRequests)
      /\ r = <<r[1], r[2]>> /\ r[2] \in Nat /\ n \in Nat
      /\ outputRequests' \in Seq({"get_xdg_output", "destroy"} \X Nat)
      /\ Len(outputRequests') = Len(outputRequests) - 1 /\ Len(outputRequests) \in Nat \ {0}
      /\ \A k \in 1 .. Len(outputRequests') : outputRequests'[k] = outputRequests[k + 1]
      /\ \A k \in 1 .. Len(outputRequests') : k + 1 \in 1 .. Len(outputRequests)
  BY <1>1, <1>5, <1>6, <1>7, SMTT(30)
<1>9. ForXdg(x, n)
  <2>1. CASE r[1] = "get_xdg_output"
    <3>1. XdgFields \in SUBSET XdgFields
      OBVIOUS
    <3>2. x = Output!XdgPart(XdgFields, properties, n) /\ n = r[2]
      BY <1>3, <1>5, <2>1, Zenon
    <3> QED
      BY <1>7, <1>8, <3>1, <3>2, XdgPartEvents, Zenon
  <2>2. CASE r[1] # "get_xdg_output"
    <3>1. x = <<>>
      BY <1>3, <2>2, Zenon
    <3> QED
      BY <3>1 DEF ForXdg
  <2> QED
    BY <2>1, <2>2, Zenon
<1>10. /\ Output!Done \in OutputEvents /\ Output!Done.object = 0
  BY DoneEvents
<1>11. Y \in Seq(OutputEvents) /\ \A k \in 1 .. Len(Y) : Y[k] = Output!Done
  BY <1>2, <1>4, <1>10
<1>12. x \in Seq(OutputEvents) /\ \A k \in 1 .. Len(x) : x[k].object = n
  BY <1>9, Zenon DEF ForXdg
<1>13. wire' = wire \o x \o Y
  <2>1. CASE r[1] = "get_xdg_output"
    BY <1>1, <1>2, <1>3, <1>4, <2>1, Zenon DEF Output!HandleRequest
  <2>2. CASE r[1] # "get_xdg_output"
    <3>1. wire' = wire /\ x = <<>> /\ Y = <<>>
      BY <1>1, <1>3, <1>4, <2>2, Zenon DEF Output!HandleRequest
    <3> QED
      BY <1>7, <3>1
  <2> QED
    BY <2>1, <2>2, Zenon
<1>14. ASSUME NEW k \in 1 .. Len(wire')
       PROVE  \/ \E j \in 1 .. Len(wire) : wire'[k] = wire[j]
              \/ wire'[k].object = n \/ wire'[k].object = 0
  <2> DEFINE T == { d \in OutputEvents : \/ \E j \in 1 .. Len(wire) : d = wire[j]
                                         \/ d.object = n \/ d.object = 0 }
  <2>1. /\ \A j \in 1 .. Len(wire) : wire[j] \in T
        /\ \A j \in 1 .. Len(x) : x[j] \in T
        /\ \A j \in 1 .. Len(Y) : Y[j] \in T
        /\ Output!Done \in T
    BY <1>7, <1>10, <1>11, <1>12, WirePlace, Zenon
  <2>2. \A d \in T : \/ \E j \in 1 .. Len(wire) : d = wire[j]
                     \/ d.object = n \/ d.object = 0
    OBVIOUS
  <2> HIDE DEF T
  <2>3. wire \in Seq(T) /\ x \in Seq(T) /\ Y \in Seq(T)
    BY <1>7, <1>11, <1>12, <2>1, WireOf, Zenon
  <2>4. wire \o x \in Seq(T)
    BY <2>1, <2>3, WiresJoin, Zenon
  <2>5. wire' \in Seq(T)
    BY <1>13, <2>1, <2>3, <2>4, WiresJoin, Zenon
  <2> QED
    BY <2>2, <2>5, WirePlace, Zenon
<1>15. XdgBounds'
  <2>1. /\ \A j \in 1 .. Len(wire) : wire[j].object \in 0 .. objects
        /\ \A k \in 1 .. Len(outputRequests) : outputRequests[k][2] \in 0 .. objects
    BY Zenon DEF XdgFollows, XdgBounds
  <2>2. 0 \in 0 .. objects
    BY <1>7
  <2>3. n \in 0 .. objects
    BY <1>5, <1>8, <2>1, <2>2, Zenon
  <2>4. \A k \in 1 .. Len(wire') : wire'[k].object \in 0 .. objects
    BY <1>14, <2>1, <2>2, <2>3, Zenon
  <2>5. \A k \in 1 .. Len(outputRequests') : outputRequests'[k][2] \in 0 .. objects
    BY <1>8, <2>1, Zenon
  <2> QED
    BY <1>6, <2>3, <2>4, <2>5, Zenon DEF XdgFollows, XdgBounds
<1>16. Flag' = Flag
  BY <1>6, Zenon DEF Flag
<1>17. CASE object # 0
  <2>1. Untold
    BY <1>6, <1>17, Zenon DEF XdgFollows, Told
  <2>2. /\ outputRequests[Len(outputRequests)] = <<"get_xdg_output", object>>
        /\ \A k \in 1 .. Len(outputRequests) - 1 :
              outputRequests[k] # <<"get_xdg_output", object>>
        /\ state = Output!Unset(XdgFields) /\ Flag = "clean"
        /\ \A k \in 1 .. Len(wire) : wire[k].object # object
    BY <2>1, Zenon DEF Untold
  <2>3. CASE Len(outputRequests) = 1
    <3>1. r[1] = "get_xdg_output" /\ r[2] = object
      BY <1>8, <2>2, <2>3
    <3>2. n = object /\ Y = y /\ x = Output!XdgPart(XdgFields, properties, object)
      BY <1>3, <1>4, <1>5, <3>1, Zenon
    <3>3. outputRequests' = <<>>
      BY <1>8, <2>3
    <3>4. PICK f, u, c, W, v :
            /\ f = XdgSteps(committed, version, object) /\ u = Output!Unset(XdgFields)
            /\ c = Output!Part(properties, XdgFields) /\ W = wire /\ v = version
      OBVIOUS
    <3>5. <<u, "clean">> \in XdgNodes(committed)
      <4>1. u \in [XdgFields -> Nat]
        BY <1>7, <3>4, XdgParts
      <4> QED
        BY <3>4, <4>1, XdgNodesDef, Zenon
    <3>6. Path(f, W, <<u, "clean">>, <<u, "clean">>)
      BY <1>7, <2>2, <3>4, <3>5, XdgStays, Zenon
    <3>7. PICK d \in {"clean", "dirty"} :
            /\ Path(f, x, <<u, "clean">>, <<c, d>>)
            /\ <<<<c, d>>, Output!Done, <<c, "clean">>>> \in f
            /\ v < 3 => d = "clean"
      <4>1. XdgFields \in SUBSET XdgFields /\ \A g \in XdgFields : g \in XdgFields
        OBVIOUS
      <4>2. object \in Nat \ {0}
        BY <1>7, <1>17
      <4> QED
        BY <1>7, <3>2, <3>4, <3>5, <4>1, <4>2, XdgEnds, Zenon
    <3>8. W \o x \in Seq(OutputEvents)
      BY <1>7, <1>12, <3>4
    <3>9. PICK a, b, z : a = <<u, "clean">> /\ b = <<c, d>> /\ z = <<c, "clean">>
      OBVIOUS
    <3>10. Path(f, W \o x, a, b)
      <4>1. Path(f, W, a, a) /\ Path(f, x, a, b) /\ W \in Seq(OutputEvents)
        BY <1>7, <3>4, <3>6, <3>7, <3>9, Zenon
      <4> QED
        BY <1>12, <4>1, PathJoins
    <3>11. Path(f, W \o x \o Y, a, z)
      <4>1. CASE v < 3
        <5>1. Y = <<>> /\ b = z
          BY <1>2, <1>7, <3>2, <3>4, <3>7, <3>9, <4>1
        <5>2. W \o x \o <<>> = W \o x
          BY <3>8
        <5> QED
          BY <3>10, <5>1, <5>2, Zenon
      <4>2. CASE ~(v < 3)
        <5>1. Y = <<Output!Done>>
          BY <1>2, <1>7, <3>2, <3>4, <4>2
        <5>2. PICK e : e = Output!Done
          OBVIOUS
        <5>3. W \o x \o Y = Append(W \o x, e)
          BY <3>8, <5>1, <5>2
        <5>4. e \in OutputEvents /\ <<b, e, z>> \in f
          BY <1>10, <3>7, <3>9, <5>2, Zenon
        <5>5. Path(f, Append(W \o x, e), a, z)
          BY <3>8, <3>10, <5>4, PathAppend
        <5> QED
          BY <5>3, <5>5, Zenon
      <4> QED
        BY <4>1, <4>2, Zenon
    <3>12. <<state', Flag'>> = a
      BY <1>6, <1>16, <2>2, <3>4, <3>9, Zenon
    <3>13. Path(XdgSteps(committed', version', object'), wire', <<state', Flag'>>,
                <<Output!Part(properties', XdgFields), "clean">>)
      BY <1>6, <1>13, <3>4, <3>9, <3>11, <3>12, Zenon
    <3>14. <<state', Flag'>> \in XdgNodes(committed')
      BY <1>6, <3>5, <3>9, <3>12, Zenon
    <3>15. Told'
      BY <1>6, <3>2, <3>3, <3>13, <3>14, Zenon DEF Told
    <3> QED
      BY <1>15, <3>15, Zenon DEF XdgFollows
  <2>4. CASE Len(outputRequests) # 1
    <3>1. 1 \in 1 .. Len(outputRequests) - 1
      BY <1>8, <2>4, SMTT(30)
    <3>2. r # <<"get_xdg_output", object>>
      BY <1>8, <2>2, <3>1, Zenon
    <3>3. n # object
      <4>1. CASE r[1] = "get_xdg_output"
        BY <1>5, <1>8, <3>2, <4>1, Zenon
      <4>2. CASE r[1] # "get_xdg_output"
        BY <1>5, <1>17, <4>2, Zenon
      <4> QED
        BY <4>1, <4>2, Zenon
    <3>4. /\ outputRequests' # <<>>
          /\ outputRequests'[Len(outputRequests')] = <<"get_xdg_output", object>>
      <4>1. PICK N \in Nat : N = Len(outputRequests)
        BY <1>8, Zenon
      <4>2. N # 0 /\ N # 1 /\ Len(outputRequests') = N - 1
        BY <1>8, <2>4, <4>1, Zenon
      <4>3. N - 1 \in 1 .. N - 1 /\ (N - 1) + 1 = N
        BY <4>2
      <4>4. outputRequests' # <<>>
        BY <4>2, <4>3
      <4>5. outputRequests'[N - 1] = outputRequests[N]
        BY <1>8, <4>2, <4>3, Zenon
      <4> QED
        BY <2>2, <4>1, <4>2, <4>4, <4>5, Zenon
    <3>5. ASSUME NEW k \in 1 .. Len(outputRequests') - 1
          PROVE  outputRequests'[k] # <<"get_xdg_output", object>>
      <4>1. k \in 1 .. Len(outputRequests') /\ k + 1 \in 1 .. Len(outputRequests) - 1
        BY <1>8, SMTT(30)
      <4>2. outputRequests'[k] = outputRequests[k + 1]
        BY <1>8, <4>1, Zenon
      <4> QED
        BY <2>2, <4>1, <4>2, Zenon
    <3>6. \A k \in 1 .. Len(wire') : wire'[k].object # object
      BY <1>14, <1>17, <2>2, <3>3, Zenon
    <3>7. Untold'
      BY <1>6, <1>16, <2>2, <3>3, <3>4, <3>5, <3>6, Zenon DEF Untold
    <3> QED
      BY <1>15, <3>7, Zenon DEF XdgFollows
  <2> QED
    BY <2>3, <2>4, Zenon
<1>18. CASE object = 0
  BY <1>6, <1>15, <1>18, Zenon DEF XdgFollows
<1> QED
  BY <1>17, <1>18, Zenon

(* The constructor asks for an object that nothing on its way is for.      *)
LEMMA XdgMakes ==
  ASSUME OutputType, XdgFollows, Output!NewXdgOutput
  PROVE  XdgFollows'
<1>1. /\ object = 0 /\ objects' = objects + 1 /\ object' = objects'
      /\ state' = Output!Unset(XdgFields) /\ dirty' = FALSE
      /\ done_notifiers' = IF version >= 3 THEN done_notifiers \cup {objects'} ELSE done_notifiers
      /\ outputRequests' = Append(outputRequests, <<"get_xdg_output", objects'>>)
      /\ UNCHANGED <<version, resource, wire>>
  BY Zenon DEF Output!NewXdgOutput, Output!compositorVars
<1>2. /\ version \in Nat /\ objects \in Nat /\ wire \in Seq(OutputEvents)
      /\ outputRequests \in Seq({"get_xdg_output", "destroy"} \X Nat)
  BY Zenon DEF OutputType
<1>3. /\ resource \in 0 .. objects
      /\ \A k \in 1 .. Len(wire) : wire[k].object \in 0 .. objects
      /\ \A k \in 1 .. Len(outputRequests) : outputRequests[k][2] \in 0 .. objects
      /\ done_notifiers = IF version >= 3 THEN 1 .. objects ELSE {}
  BY Zenon DEF XdgFollows, XdgBounds
<1>4. \A m \in 0 .. objects : m \in 0 .. objects + 1 /\ m # objects + 1
  BY <1>2
<1>5. /\ outputRequests' # <<>> /\ Len(outputRequests') = Len(outputRequests) + 1
      /\ outputRequests'[Len(outputRequests')] = <<"get_xdg_output", objects + 1>>
      /\ \A k \in 1 .. Len(outputRequests') - 1 :
            k \in 1 .. Len(outputRequests) /\ outputRequests'[k] = outputRequests[k]
      /\ Len(outputRequests) \in Nat
  BY <1>1, <1>2
<1>6. \A k \in 1 .. Len(outputRequests') : outputRequests'[k][2] \in 0 .. objects + 1
  <2>1. <<"get_xdg_output", objects + 1>>[2] = objects + 1 /\ objects + 1 \in 0 .. objects + 1
    BY <1>2
  <2>2. \A k \in 1 .. Len(outputRequests') : \/ k = Len(outputRequests')
                                             \/ k \in 1 .. Len(outputRequests') - 1
    BY <1>5
  <2>3. outputRequests'[Len(outputRequests')][2] \in 0 .. objects + 1
    BY <1>5, <2>1, Zenon
  <2>4. ASSUME NEW k \in 1 .. Len(outputRequests') - 1
        PROVE  outputRequests'[k][2] \in 0 .. objects + 1
    <3>1. k \in 1 .. Len(outputRequests) /\ outputRequests'[k] = outputRequests[k]
      BY <1>5, Zenon
    <3> QED
      BY <1>3, <1>4, <3>1, Zenon
  <2> QED
    BY <2>2, <2>3, <2>4, Zenon
<1>7. done_notifiers' = IF version >= 3 THEN 1 .. objects + 1 ELSE {}
  <2>1. (1 .. objects) \cup {objects + 1} = 1 .. objects + 1
    BY <1>2
  <2> QED
    BY <1>1, <1>3, <2>1, Zenon
<1>8. object' = objects + 1 /\ objects + 1 \in 0 .. objects + 1 /\ objects + 1 # 0
  BY <1>1, <1>2
<1>9. XdgBounds'
  BY <1>1, <1>3, <1>4, <1>6, <1>7, <1>8, Zenon DEF XdgBounds
<1>10. Flag' = "clean"
  BY <1>1, Zenon DEF Flag
<1>11. ASSUME NEW k \in 1 .. Len(outputRequests') - 1
       PROVE  outputRequests'[k] # <<"get_xdg_output", object'>>
  <2>1. outputRequests'[k][2] # objects + 1
    BY <1>3, <1>4, <1>5, Zenon
  <2>2. <<"get_xdg_output", objects + 1>>[2] = objects + 1
    OBVIOUS
  <2> QED
    BY <1>8, <2>1, <2>2, Zenon
<1>12. /\ resource' # object' /\ \A k \in 1 .. Len(wire') : wire'[k].object # object'
  BY <1>1, <1>3, <1>4, <1>8, Zenon
<1>13. Untold'
  BY <1>1, <1>5, <1>8, <1>10, <1>11, <1>12, Zenon DEF Untold
<1> QED
  BY <1>9, <1>13, Zenon DEF XdgFollows

(* The destructor leaves no object to speak of.                            *)
LEMMA XdgDestroys ==
  ASSUME OutputType, XdgFollows, Output!DestroyXdgOutput
  PROVE  XdgFollows'
<1>1. /\ object' = 0 /\ outputRequests' = Append(outputRequests, <<"destroy", object>>)
      /\ UNCHANGED <<version, resource, wire, done_notifiers, objects>>
  BY Zenon DEF Output!DestroyXdgOutput, Output!compositorVars
<1>2. /\ objects \in Nat
      /\ outputRequests \in Seq({"get_xdg_output", "destroy"} \X Nat)
  BY Zenon DEF OutputType
<1>3. /\ object \in 0 .. objects /\ resource \in 0 .. objects
      /\ \A k \in 1 .. Len(wire) : wire[k].object \in 0 .. objects
      /\ \A k \in 1 .. Len(outputRequests) : outputRequests[k][2] \in 0 .. objects
      /\ done_notifiers = IF version >= 3 THEN 1 .. objects ELSE {}
  BY Zenon DEF XdgFollows, XdgBounds
<1>4. object \in Nat
  BY <1>2, <1>3
<1>5. \A k \in 1 .. Len(outputRequests') :
         \/ outputRequests'[k] = <<"destroy", object>>
         \/ k \in 1 .. Len(outputRequests) /\ outputRequests'[k] = outputRequests[k]
  BY <1>1, <1>2, <1>4
<1>6. <<"destroy", object>>[2] = object /\ 0 \in 0 .. objects
  BY <1>2
<1>7. \A k \in 1 .. Len(outputRequests') : outputRequests'[k][2] \in 0 .. objects
  BY <1>3, <1>5, <1>6, Zenon
<1>8. XdgBounds'
  BY <1>1, <1>3, <1>6, <1>7, Zenon DEF XdgBounds
<1> QED
  BY <1>1, <1>8, Zenon DEF XdgFollows

(* Every step keeps what is said of the xdg_output.                        *)
LEMMA XdgNext ==
  OutputType /\ OutputType' /\ XdgFollows /\ (Output!Next \/ UNCHANGED outputVars) => XdgFollows'
<1> SUFFICES ASSUME OutputType, OutputType', XdgFollows, Output!Next \/ UNCHANGED outputVars
             PROVE  XdgFollows'
  OBVIOUS
<1>1. ASSUME NEW t, Output!Take(t)
      PROVE  /\ wire # <<>> /\ wire' = Tail(wire) /\ Head(wire).type = t
             /\ UNCHANGED <<committed, properties, version, resource, outputRequests, object,
                            objects, done_notifiers>>
  BY <1>1, Zenon DEF Output!Take, Output!compositorVars
<1>2. wire # <<>> => Head(wire) \in OutputEvents
  BY DEF OutputType
<1>3. <<state, Flag>>[1] = state
  OBVIOUS
<1>4. CASE \E F \in SUBSET Output!Fields : Output!Change(F)
  BY <1>4, XdgChanges
<1>5. CASE Output!HandleRequest
  BY <1>5, XdgAnswers
<1>6. CASE Output!output_property
  <2>1. Output!Take("wl_output") /\ state' = state /\ dirty' = dirty
    BY <1>6, Zenon DEF Output!output_property
  <2>2. Flag' = Flag
    BY <2>1, Zenon DEF Flag
  <2>3. "wl_output" # "xdg_output" /\ "wl_output" # "xdg_output.done"
        /\ "wl_output" # "wl_output.done"
    OBVIOUS
  <2>4. XdgStep(version, object, <<state, Flag>>, Head(wire), <<state', Flag'>>)
    BY <1>1, <2>1, <2>2, <2>3, Zenon DEF XdgStep
  <2> QED
    BY <1>1, <2>1, <2>4, XdgTakes, Zenon
<1>7. CASE Output!done_thunk
  <2>1. Output!Take("wl_output.done") /\ state' = state /\ Output!Notifiers
    BY <1>7, Zenon DEF Output!done_thunk
  <2>2. ASSUME object # 0 PROVE object \in done_notifiers <=> ~(version < 3)
    <3>1. /\ object \in 0 .. objects /\ done_notifiers = IF version >= 3 THEN 1 .. objects ELSE {}
          /\ version \in Nat /\ objects \in Nat
      BY Zenon DEF XdgFollows, XdgBounds, OutputType
    <3> QED
      BY <2>2, <3>1
  <2>3. ASSUME object # 0 PROVE Flag' = IF ~(version < 3) THEN "clean" ELSE Flag
    BY <2>1, <2>2, <2>3, Zenon DEF Flag, Output!Notifiers
  <2>4. "wl_output.done" # "xdg_output" /\ "wl_output.done" # "xdg_output.done"
    OBVIOUS
  <2>5. ASSUME object # 0
        PROVE  XdgStep(version, object, <<state, Flag>>, Head(wire), <<state', Flag'>>)
    BY <1>1, <1>3, <2>1, <2>3, <2>4, <2>5, Zenon DEF XdgStep
  <2> QED
    BY <1>1, <2>1, <2>5, XdgTakes, Zenon
<1>8. CASE Output!xdg_property
  <2>1. /\ Output!Take("xdg_output")
        /\ IF Head(wire).object = object
           THEN state' = [state EXCEPT ![Head(wire).field] = Head(wire).value] /\ dirty' = TRUE
           ELSE state' = state /\ dirty' = dirty
    BY <1>8, Zenon DEF Output!xdg_property
  <2>2. IF Head(wire).object = object THEN Flag' = "dirty" ELSE Flag' = Flag
    <3>1. CASE Head(wire).object = object
      BY <2>1, <3>1, Zenon DEF Flag
    <3>2. CASE Head(wire).object # object
      <4>1. dirty' = dirty
        BY <2>1, <3>2, Zenon
      <4>2. Flag' = Flag
        BY <4>1, Zenon DEF Flag
      <4> QED
        BY <3>2, <4>2, Zenon
    <3> QED
      BY <3>1, <3>2, Zenon
  <2>3. "xdg_output" # "wl_output.done" /\ "xdg_output" # "xdg_output.done"
    OBVIOUS
  <2>4. XdgStep(version, object, <<state, Flag>>, Head(wire), <<state', Flag'>>)
    BY <1>1, <1>3, <2>1, <2>2, <2>3, Zenon DEF XdgStep
  <2> QED
    BY <1>1, <2>1, <2>4, XdgTakes, Zenon
<1>9. CASE Output!xdg_done
  <2>1. /\ Output!Take("xdg_output.done") /\ state' = state
        /\ dirty' = (dirty /\ ~(Head(wire).object = object /\ version < 3))
    BY <1>9, Zenon DEF Output!xdg_done
  <2>2. Flag' = IF Head(wire).object = object /\ version < 3 THEN "clean" ELSE Flag
    BY <2>1, Zenon DEF Flag
  <2>3. "xdg_output.done" # "wl_output.done" /\ "xdg_output.done" # "xdg_output"
    OBVIOUS
  <2>4. XdgStep(version, object, <<state, Flag>>, Head(wire), <<state', Flag'>>)
    BY <1>1, <1>3, <2>1, <2>2, <2>3, Zenon DEF XdgStep
  <2> QED
    BY <1>1, <2>1, <2>4, XdgTakes, Zenon
<1>10. CASE Output!NewXdgOutput
  BY <1>10, XdgMakes
<1>11. CASE Output!DestroyXdgOutput
  BY <1>11, XdgDestroys
<1>12. CASE UNCHANGED outputVars
  <2>1. UNCHANGED <<version, properties, committed, resource, wire, outputRequests, object, state,
                    dirty, done_notifiers, objects>>
    BY <1>12, Zenon DEF outputVars
  <2>2. Flag' = Flag
    BY <2>1, Zenon DEF Flag
  <2>3. XdgBounds'
    BY <2>1, Zenon DEF XdgFollows, XdgBounds
  <2>4. Told => Told'
    BY <2>1, <2>2, Zenon DEF Told
  <2>5. Untold => Untold'
    BY <2>1, <2>2, Zenon DEF Untold
  <2> QED
    BY <2>1, <2>3, <2>4, <2>5, Zenon DEF XdgFollows
<1> QED
  BY <1>4, <1>5, <1>6, <1>7, <1>8, <1>9, <1>10, <1>11, <1>12, Zenon DEF Output!Next

(* The invariants give what is read of both, at any time and once nothing  *)
(* is on its way.                                                          *)
LEMMA OutputsCorrect ==
  ASSUME OutputType, OutputFollows, XdgFollows
  PROVE  Output!StatesWhole /\ Output!StateArrives
<1>1. ~dirty <=> Flag = "clean"
  <2>1. "clean" # "dirty"
    OBVIOUS
  <2> QED
    BY <2>1, Zenon DEF Flag
<1>2. ASSUME object # 0, ~dirty
      PROVE  \/ state = Output!Unset(XdgFields)
             \/ \E p \in committed : state = Output!Part(p, XdgFields)
  BY <1>1, <1>2, XdgNodesDef, Zenon DEF XdgFollows, Told, Untold
<1>3. ASSUME wire = <<>>, outputRequests = <<>>, object # 0
      PROVE  ~dirty /\ state = Output!Part(properties, XdgFields)
  <2>1. Told
    BY <1>3, Zenon DEF XdgFollows, Untold
  <2>2. Path(XdgSteps(committed, version, object), <<>>, <<state, Flag>>,
             <<Output!Part(properties, XdgFields), "clean">>)
    BY <1>3, <2>1, Zenon DEF Told
  <2>3. <<state, Flag>> = <<Output!Part(properties, XdgFields), "clean">>
    BY <2>2, PathEmpty
  <2>4. state = Output!Part(properties, XdgFields) /\ Flag = "clean"
    BY <2>3
  <2> QED
    BY <1>1, <2>4, Zenon
<1> QED
  BY <1>2, <1>3, OutputCorrect, Zenon
     DEF Output!StatesWhole, Output!StateArrives, Output!Settled

(* What a test reads of an output, an xdg_output or a mock is a state of   *)
(* the compositor, and the one it has as soon as nothing is on its way:    *)
(* StateArrives holds for all outputs, properties and versions, and all    *)
(* sequences of changes.                                                   *)
THEOREM StatesCorrect == ObserversSpec => []StateArrives
<1> DEFINE OutputInv == OutputType /\ OutputFollows /\ XdgFollows
           Inv == OutputInv /\ ShownInv /\ OwnerInv /\ SerialInv
<1>1. ObserversInit => Inv
  BY OutputInit, XdgInit, ShownInit, OwnerInit, SerialInit, Zenon DEF ObserversInit
<1>2. OutputInv /\ [ObserversNext]_observersVars => OutputInv'
  BY OutputMoves, OutputNext, XdgNext, Zenon
<1>3. ShownInv /\ [ObserversNext]_observersVars => ShownInv'
  BY ShownMoves, ShownNext, Zenon
<1>4. OwnerInv /\ SerialInv /\ [ObserversNext]_observersVars => OwnerInv' /\ SerialInv'
  BY OwnerStep, OwnerNext, SerialNext, Zenon
<1>5. Inv /\ [ObserversNext]_observersVars => Inv'
  BY <1>2, <1>3, <1>4, Zenon
<1>6. Inv => StateArrives
  BY OutputsCorrect, ShownCorrect, SerialCorrect, Zenon DEF StateArrives
<1> QED
  BY <1>1, <1>5, <1>6, PTL DEF ObserversSpec
=============================================================================
