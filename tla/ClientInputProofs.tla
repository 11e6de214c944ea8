------------------------- MODULE ClientInputProofs -------------------------
(***************************************************************************)
(* Proofs about ClientInput, what a client is told of its seat, for any    *)
(* surfaces, places, buttons, touch points and input methods, and          *)
(* connections of any length.                                              *)
(***************************************************************************)
EXTENDS ClientInput, TLAPS

(* The events w lead from a to z by steps in F.                            *)
Path(F, w, a, z) ==
    \E S : /\ S[1] = a /\ S[Len(w) + 1] = z
           /\ \A k \in 1 .. Len(w) : <<S[k], w[k], S[k + 1]>> \in F

(* With nothing in flight the client is where the seat is.                *)
LEMMA PathEmpty ==
  ASSUME NEW F, NEW a, NEW z
  PROVE  Path(F, <<>>, a, z) <=> a = z
<1>1. ASSUME Path(F, <<>>, a, z) PROVE a = z
  BY <1>1 DEF Path
<1>2. ASSUME a = z PROVE Path(F, <<>>, a, z)
  <2> DEFINE S == [k \in {1} |-> a]
  <2>1. S[1] = a /\ S[Len(<<>>) + 1] = z
        /\ \A k \in 1 .. Len(<<>>) : <<S[k], <<>>[k], S[k + 1]>> \in F
    BY <1>2
  <2> HIDE DEF S
  <2> QED
    BY <2>1, Zenon DEF Path
<1> QED
  BY <1>1, <1>2, Zenon

(* An event the seat puts on the wire extends the path by its step.       *)
LEMMA PathAppend ==
  ASSUME NEW F, NEW E, NEW w \in Seq(E), NEW e \in E, NEW a, NEW y, NEW z,
         Path(F, w, a, y), <<y, e, z>> \in F
  PROVE  Path(F, Append(w, e), a, z)
<1>1. PICK S : /\ S[1] = a /\ S[Len(w) + 1] = y
               /\ \A k \in 1 .. Len(w) : <<S[k], w[k], S[k + 1]>> \in F
  BY Zenon DEF Path
<1> DEFINE T == [k \in 1 .. Len(w) + 2 |-> IF k = Len(w) + 2 THEN z ELSE S[k]]
<1>2. /\ Len(Append(w, e)) = Len(w) + 1 /\ Len(w) \in Nat
      /\ Append(w, e)[Len(w) + 1] = e
      /\ \A k \in 1 .. Len(w) : Append(w, e)[k] = w[k]
  OBVIOUS
<1>3. T[1] = a /\ T[Len(w) + 1] = y /\ T[Len(w) + 2] = z
  BY <1>1, <1>2
<1>4. \A k \in 1 .. Len(w) : T[k] = S[k] /\ T[k + 1] = S[k + 1]
  BY <1>2
<1> HIDE DEF T
<1>5. ASSUME NEW k \in 1 .. Len(w) + 1
      PROVE  <<T[k], Append(w, e)[k], T[k + 1]>> \in F
  <2>1. CASE k \in 1 .. Len(w)
    BY <2>1, <1>1, <1>2, <1>4, Zenon
  <2>2. CASE k = Len(w) + 1
    BY <2>2, <1>2, <1>3
  <2> QED
    BY <2>1, <2>2, <1>2
<1>6. Len(Append(w, e)) + 1 = Len(w) + 2
  BY <1>2
<1> QED
  BY <1>2, <1>3, <1>5, <1>6, Zenon DEF Path

(* The first event in flight is a step from where the client is, and the  *)
(* rest is a path on from there.                                          *)
LEMMA PathTail ==
  ASSUME NEW F, NEW E, NEW w \in Seq(E), w # <<>>, NEW a, NEW z, Path(F, w, a, z)
  PROVE  \E b : <<a, Head(w), b>> \in F /\ Path(F, Tail(w), b, z)
<1>1. PICK S : /\ S[1] = a /\ S[Len(w) + 1] = z
               /\ \A k \in 1 .. Len(w) : <<S[k], w[k], S[k + 1]>> \in F
  BY Zenon DEF Path
<1>2. /\ Len(Tail(w)) = Len(w) - 1 /\ Len(w) \in Nat \ {0} /\ Head(w) = w[1]
      /\ \A k \in 1 .. Len(w) - 1 : Tail(w)[k] = w[k + 1]
  OBVIOUS
<1> DEFINE T == [k \in 1 .. Len(w) |-> S[k + 1]]
<1>3. T[1] = S[2] /\ T[Len(w)] = z
  BY <1>1, <1>2
<1>4. \A k \in 1 .. Len(w) - 1 : T[k] = S[k + 1] /\ T[k + 1] = S[k + 2]
  BY <1>2
<1> HIDE DEF T
<1>5. ASSUME NEW k \in 1 .. Len(w) - 1
      PROVE  <<T[k], Tail(w)[k], T[k + 1]>> \in F
  <2>1. <<S[k + 1], w[k + 1], S[(k + 1) + 1]>> \in F
    BY <1>1, <1>2
  <2>2. (k + 1) + 1 = k + 2
    BY <1>2
  <2> QED
    BY <2>1, <2>2, <1>2, <1>4
<1>6. Len(Tail(w)) + 1 = Len(w)
  BY <1>2
<1>7. Path(F, Tail(w), S[2], z)
  BY <1>2, <1>3, <1>5, <1>6, Zenon DEF Path
<1>8. <<a, Head(w), S[2]>> \in F
  <2>1. <<S[1], w[1], S[1 + 1]>> \in F
    BY <1>1, <1>2
  <2> QED
    BY <2>1, <1>1, <1>2
<1> QED
  BY <1>7, <1>8, Zenon

-----------------------------------------------------------------------------
(* The pointer.  A node is a state of the seat between two events.         *)
PointerFoci == [surface : Surfaces, coordinates : Places] \cup {None}
PointerNodes ==
  [focus : PointerFoci, held : SUBSET Buttons, batch : SUBSET {"enter", "leave", "other"}]
PointerEvents ==
    [type : {"enter"}, surface : Surfaces, coordinates : Places]
    \cup [type : {"leave"}, surface : Surfaces]
    \cup [type : {"motion"}, coordinates : Places]
    \cup [type : {"button"}, button : Buttons, down : BOOLEAN]
    \cup [type : {"frame"}]

(* What an event says of the seat before and after it.                     *)
PointerStep(a, e, b) ==
    /\ e.type = "enter" =>
         /\ a.focus = None /\ "enter" \notin a.batch
         /\ b.focus = Pointer!SurfaceLocation(e.surface, e.coordinates)
         /\ b.held = a.held /\ b.batch = a.batch \cup {"enter"}
    /\ e.type = "leave" =>
         /\ a.focus # None /\ "enter" \notin a.batch /\ e.surface = a.focus.surface
         /\ b.focus = None
         /\ b.held = a.held /\ b.batch = a.batch \cup {"leave"}
    /\ e.type = "motion" =>
         /\ a.focus # None
         /\ b.focus = Pointer!SurfaceLocation(a.focus.surface, e.coordinates)
         /\ b.held = a.held /\ b.batch = a.batch \cup {"other"}
    /\ e.type = "button" =>
         /\ b.focus = a.focus
         /\ b.held = IF e.down = TRUE THEN a.held \cup {e.button} ELSE a.held \ {e.button}
         /\ b.batch = a.batch \cup {"other"}
    /\ e.type = "frame" =>
         b.focus = a.focus /\ b.held = a.held /\ b.batch = {}

PointerSteps ==
    { t \in PointerNodes \X PointerEvents \X PointerNodes : PointerStep(t[1], t[2], t[3]) }

(* The triples of PointerSteps are the steps of PointerStep.              *)
LEMMA PointerStepsDef ==
  \A a, e, b : <<a, e, b>> \in PointerSteps <=>
      a \in PointerNodes /\ e \in PointerEvents /\ b \in PointerNodes /\ PointerStep(a, e, b)
BY DEF PointerSteps

(* Where the client will be once the open frame ends.                      *)
Here == IF pending_pointer_location # None THEN pending_pointer_location
        ELSE IF pending_pointer_leave = TRUE THEN None ELSE current_pointer_location

(* x is the place f, of whose surface a client that has destroyed it may   *)
(* not know.                                                               *)
SamePlace(x, f) ==
    /\ x = None <=> f = None
    /\ f # None => /\ x.coordinates = f.coordinates
                   /\ x.surface \in {f.surface, Null}
                   /\ f.surface \in live => x.surface = f.surface

(* The client has followed the events up to where the seat was in a.       *)
PointerLag(a) ==
    /\ pending_pointer_leave = TRUE <=> "leave" \in a.batch
    /\ pending_pointer_leave = TRUE => current_pointer_location # None
    /\ pending_pointer_leave = TRUE /\ "enter" \notin a.batch => pending_pointer_location = None
    /\ pending_pointer_location # None /\ "enter" \notin a.batch =>
         /\ current_pointer_location # None
         /\ pending_pointer_location.surface = current_pointer_location.surface
    /\ "enter" \in a.batch /\ pending_pointer_leave = FALSE => current_pointer_location = None
    /\ a.batch = {} => pending_pointer_location = None /\ pending_buttons = <<>>
    /\ SamePlace(Here, a.focus)

(* The same of the buttons.                                                *)
ButtonLag(a) ==
    \A b \in Buttons :
      b \in a.held <=> IF b \in DOMAIN pending_buttons THEN pending_buttons[b] = TRUE
                                        ELSE b \in pressed

PointerType ==
    /\ current_pointer_location \in Pointer!Locations \cup {None}
    /\ pending_pointer_location \in Pointer!Locations \cup {None}
    /\ pending_pointer_leave \in BOOLEAN
    /\ DOMAIN pending_buttons \subseteq Buttons
    /\ pressed \subseteq Buttons
    /\ \A b \in DOMAIN pending_buttons : pending_buttons[b] \in BOOLEAN
    /\ DOMAIN view = Observers

SurfacesKnown ==
    /\ known \subseteq Surfaces /\ live \subseteq Surfaces
    /\ known = live \cup destroys /\ live \cap destroys = {}
    /\ focus # None => focus.surface \in known

SeatPointer == [focus |-> focus, held |-> held, batch |-> batch]

PointerFollows ==
    /\ wire \in Seq(PointerEvents) /\ SeatPointer \in PointerNodes
    /\ \E a \in PointerNodes : /\ Path(PointerSteps, wire, a, SeatPointer)
                               /\ PointerLag(a) /\ ButtonLag(a)

PointerInv ==
    /\ PointerType /\ SurfacesKnown /\ PointerFollows
    /\ failed = FALSE /\ Pointer!NotificationsAgree

(* The client has one wl_pointer, and no frame moved the focus on after an *)
(* enter.                                                                  *)
PointerPlain == doubled = "no" /\ crossed = 0

(* A location is there, and has its parts.                                 *)
LEMMA LocationParts ==
  ASSUME NEW s \in Surfaces \cup {Null}, NEW p \in Places
  PROVE  /\ Pointer!SurfaceLocation(s, p) # None
         /\ Pointer!SurfaceLocation(s, p) \in Pointer!Locations
         /\ Pointer!SurfaceLocation(s, p).surface = s
            /\ Pointer!SurfaceLocation(s, p).coordinates = p
<1>1. Pointer!SurfaceLocation(s, p) \in [surface : Surfaces \cup {Null}, coordinates : Places]
  BY Zenon DEF Pointer!SurfaceLocation
<1>2. None \notin [surface : Surfaces \cup {Null}, coordinates : Places]
  BY InputAssumption, Zenon
<1>3. Pointer!SurfaceLocation(s, p).surface = s /\ Pointer!SurfaceLocation(s, p).coordinates = p
  BY Zenon DEF Pointer!SurfaceLocation
<1> QED
  BY <1>1, <1>2, <1>3, Zenon DEF Pointer!Locations

(* A pointer without focus, buttons or events satisfies the invariant.    *)
LEMMA PointerInit == Pointer!Init => PointerInv
<1> SUFFICES ASSUME Pointer!Init PROVE PointerInv
  BY Zenon
<1> USE DEF Pointer!Init
<1>0. pending_pointer_leave \in BOOLEAN /\ DOMAIN pending_buttons = {}
  <2>1. DOMAIN pending_buttons = {}
    OBVIOUS
  <2> QED
    BY <2>1, Zenon
<1>1. PointerType /\ SurfacesKnown
  BY <1>0, Zenon DEF PointerType, SurfacesKnown
<1>2. failed = FALSE /\ Pointer!NotificationsAgree
  BY Zenon DEF Pointer!NotificationsAgree
<1>3. SeatPointer \in PointerNodes /\ SeatPointer.focus = None /\ SeatPointer.held = {}
      /\ SeatPointer.batch = {}
  BY Zenon DEF SeatPointer, PointerNodes, PointerFoci
<1>4. PointerLag(SeatPointer) /\ ButtonLag(SeatPointer)
  BY <1>3 DEF PointerLag, ButtonLag, Here, SamePlace
<1>5. Path(PointerSteps, wire, SeatPointer, SeatPointer)
  BY PathEmpty, Zenon
<1> QED
  BY <1>1, <1>2, <1>3, <1>4, <1>5 DEF PointerInv, PointerFollows

(* An event of the seat.                                                   *)
LEMMA PointerPosts ==
  ASSUME PointerFollows, NEW e \in PointerEvents, wire' = Append(wire, e),
         UNCHANGED <<live, current_pointer_location, pending_pointer_location,
                     pending_pointer_leave, pending_buttons, pressed>>,
         SeatPointer' \in PointerNodes, PointerStep(SeatPointer, e, SeatPointer')
  PROVE  PointerFollows'
<1>1. PICK a \in PointerNodes : /\ Path(PointerSteps, wire, a, SeatPointer)
                                /\ PointerLag(a) /\ ButtonLag(a)
  BY Zenon DEF PointerFollows
<1>2. <<SeatPointer, e, SeatPointer'>> \in PointerSteps
  BY PointerStepsDef, Zenon DEF PointerFollows
<1>3. Path(PointerSteps, Append(wire, e), a, SeatPointer')
  BY <1>1, <1>2, PathAppend, Zenon DEF PointerFollows
<1>4. PointerLag(a)' /\ ButtonLag(a)'
  BY <1>1, Zenon DEF PointerLag, ButtonLag, Here, SamePlace
<1>5. wire' \in Seq(PointerEvents)
  BY DEF PointerFollows
<1> QED
  BY <1>1, <1>3, <1>4, <1>5, Zenon DEF PointerFollows

(* The event the client handles next leads the seat from where the client  *)
(* has followed it.                                                        *)
LEMMA PointerTakes ==
  ASSUME PointerFollows, wire # <<>>
  PROVE  /\ Head(wire) \in PointerEvents /\ Tail(wire) \in Seq(PointerEvents)
         /\ \E a, b \in PointerNodes : /\ PointerStep(a, Head(wire), b)
                                       /\ PointerLag(a) /\ ButtonLag(a)
                                       /\ Path(PointerSteps, Tail(wire), b, SeatPointer)
<1>1. PICK a \in PointerNodes : /\ Path(PointerSteps, wire, a, SeatPointer)
                                /\ PointerLag(a) /\ ButtonLag(a)
  BY Zenon DEF PointerFollows
<1>2. PICK b : <<a, Head(wire), b>> \in PointerSteps
           /\ Path(PointerSteps, Tail(wire), b, SeatPointer)
  BY <1>1, PathTail, Zenon DEF PointerFollows
<1>3. b \in PointerNodes /\ PointerStep(a, Head(wire), b)
  BY <1>2, PointerStepsDef, Zenon
<1>4. Head(wire) \in PointerEvents /\ Tail(wire) \in Seq(PointerEvents)
  BY DEF PointerFollows
<1> QED
  BY <1>1, <1>2, <1>3, <1>4, Zenon

(* After the first event the client has caught up with one more step of   *)
(* the seat.                                                              *)
LEMMA PointerTaken ==
  ASSUME PointerFollows, wire # <<>>, wire' = Tail(wire), UNCHANGED SeatPointer,
         NEW b \in PointerNodes, Path(PointerSteps, Tail(wire), b, SeatPointer),
         PointerLag(b)', ButtonLag(b)'
  PROVE  PointerFollows'
<1>1. wire' \in Seq(PointerEvents)
  BY DEF PointerFollows
<1> QED
  BY <1>1, Zenon DEF PointerFollows

(* pointer_enter: the pending location becomes the one of the event.      *)
LEMMA PointerEnters ==
  ASSUME PointerInv, Pointer!pointer_enter
  PROVE  PointerInv'
<1>0. wire # <<>> /\ wire' = Tail(wire) /\ UNCHANGED <<focus, held, batch, known, destroys, live>>
      /\ Head(wire).type = "enter"
  BY Zenon DEF Pointer!pointer_enter, Pointer!Dispatch, Pointer!seatVars
<1>1. PICK a, b \in PointerNodes : /\ PointerStep(a, Head(wire), b) /\ PointerLag(a) /\ ButtonLag(a)
                                   /\ Path(PointerSteps, Tail(wire), b, SeatPointer)
  BY <1>0, PointerTakes, Zenon DEF PointerInv
<1>2. Head(wire).surface \in Surfaces /\ Head(wire).coordinates \in Places
  BY <1>0, PointerTakes, Zenon DEF PointerInv, PointerEvents
<1>3. /\ a.focus = None /\ "enter" \notin a.batch /\ b.batch = a.batch \cup {"enter"}
      /\ b.focus = Pointer!SurfaceLocation(Head(wire).surface, Head(wire).coordinates)
      /\ b.held = a.held
  BY <1>0, <1>1, Zenon DEF PointerStep
<1>4. current_pointer_location = None \/ pending_pointer_leave
  BY <1>1, <1>3, Zenon DEF PointerInv, PointerType, PointerLag, SamePlace, Here
<1>5. /\ pending_pointer_location' =
             Pointer!SurfaceLocation(Pointer!Resolve(Head(wire).surface), Head(wire).coordinates)
      /\ UNCHANGED <<current_pointer_location, pending_pointer_leave, pending_buttons, failed, view,
                     pressed>>
  BY <1>4, Zenon DEF Pointer!pointer_enter, Pointer!toldVars
<1>a. /\ Pointer!Resolve(Head(wire).surface) \in {Head(wire).surface, Null}
      /\ Head(wire).surface \in live => Pointer!Resolve(Head(wire).surface) = Head(wire).surface
  BY Zenon DEF Pointer!Resolve
<1>b. /\ pending_pointer_location' # None /\ pending_pointer_location' \in Pointer!Locations
      /\ pending_pointer_location'.surface = Pointer!Resolve(Head(wire).surface)
      /\ pending_pointer_location'.coordinates = Head(wire).coordinates
  BY <1>2, <1>5, <1>a, LocationParts, Zenon
<1>c. b.focus # None /\ b.focus.surface = Head(wire).surface
      /\ b.focus.coordinates = Head(wire).coordinates
  BY <1>2, <1>3, LocationParts
<1>6. PointerType'
  BY <1>b, <1>5, Zenon DEF PointerInv, PointerType
<1>7. PointerLag(b)'
  <2>1. SamePlace(Here, b.focus)'
    BY <1>0, <1>a, <1>b, <1>c, Zenon DEF SamePlace, Here
  <2> QED
    BY <2>1, <1>1, <1>3, <1>4, <1>5, <1>b, Zenon DEF PointerInv, PointerType, PointerLag
<1>8. ButtonLag(b)'
  BY <1>1, <1>3, <1>5, Zenon DEF ButtonLag
<1>9. PointerFollows'
  BY <1>0, <1>1, <1>7, <1>8, PointerTaken, Zenon DEF PointerInv, SeatPointer
<1>10. SurfacesKnown' /\ Pointer!NotificationsAgree' /\ failed' = FALSE
  BY <1>0, <1>5, Zenon DEF PointerInv, SurfacesKnown, Pointer!NotificationsAgree
<1> QED
  BY <1>6, <1>9, <1>10, Zenon DEF PointerInv

(* pointer_leave: the pending leave is noted and the pending location     *)
(* dropped.                                                               *)
LEMMA PointerLeaves ==
  ASSUME PointerInv, Pointer!pointer_leave
  PROVE  PointerInv'
<1>0. wire # <<>> /\ wire' = Tail(wire) /\ UNCHANGED <<focus, held, batch, known, destroys, live>>
      /\ Head(wire).type = "leave"
  BY Zenon DEF Pointer!pointer_leave, Pointer!Dispatch, Pointer!seatVars
<1>1. PICK a, b \in PointerNodes : /\ PointerStep(a, Head(wire), b) /\ PointerLag(a) /\ ButtonLag(a)
                                   /\ Path(PointerSteps, Tail(wire), b, SeatPointer)
  BY <1>0, PointerTakes, Zenon DEF PointerInv
<1>2. Head(wire).surface \in Surfaces
  BY <1>0, PointerTakes, Zenon DEF PointerInv, PointerEvents
<1>3. /\ a.focus # None /\ "enter" \notin a.batch /\ Head(wire).surface = a.focus.surface
      /\ b.focus = None /\ b.held = a.held /\ b.batch = a.batch \cup {"leave"}
  BY <1>0, <1>1, Zenon DEF PointerStep
<1>4. /\ Pointer!Resolve(Head(wire).surface) \in {Head(wire).surface, Null}
      /\ Pointer!Resolve(Head(wire).surface) # Null => Head(wire).surface \in live
  BY Zenon DEF Pointer!Resolve
<1>5. /\ current_pointer_location # None
      /\ Pointer!Resolve(Head(wire).surface) # Null =>
           Pointer!Resolve(Head(wire).surface) = current_pointer_location.surface
  BY <1>1, <1>3, <1>4, Zenon DEF PointerInv, PointerType, PointerLag, SamePlace, Here
<1>6. /\ pending_pointer_location' = None /\ pending_pointer_leave' = TRUE
      /\ UNCHANGED <<current_pointer_location, pending_buttons, failed, view, pressed>>
  BY <1>5, Zenon DEF Pointer!pointer_leave, Pointer!toldVars
<1>7. PointerType'
  <2>1. pending_pointer_leave' \in BOOLEAN
    BY <1>6, Zenon
  <2> QED
    BY <2>1, <1>6, Zenon DEF PointerInv, PointerType
<1>8. PointerLag(b)'
  BY <1>3, <1>5, <1>6, Zenon DEF PointerLag, SamePlace, Here
<1>9. ButtonLag(b)'
  BY <1>1, <1>3, <1>6, Zenon DEF ButtonLag
<1>10. PointerFollows'
  BY <1>0, <1>1, <1>8, <1>9, PointerTaken, Zenon DEF PointerInv, SeatPointer
<1>11. SurfacesKnown' /\ Pointer!NotificationsAgree' /\ failed' = FALSE
  BY <1>0, <1>6, Zenon DEF PointerInv, SurfacesKnown, Pointer!NotificationsAgree
<1> QED
  BY <1>7, <1>10, <1>11, Zenon DEF PointerInv

(* pointer_motion: the pending location moves on the surface it is on.    *)
LEMMA PointerMoves ==
  ASSUME PointerInv, Pointer!pointer_motion
  PROVE  PointerInv'
<1>0. wire # <<>> /\ wire' = Tail(wire) /\ UNCHANGED <<focus, held, batch, known, destroys, live>>
      /\ Head(wire).type = "motion"
  BY Zenon DEF Pointer!pointer_motion, Pointer!Dispatch, Pointer!seatVars
<1>1. PICK a, b \in PointerNodes : /\ PointerStep(a, Head(wire), b) /\ PointerLag(a) /\ ButtonLag(a)
                                   /\ Path(PointerSteps, Tail(wire), b, SeatPointer)
  BY <1>0, PointerTakes, Zenon DEF PointerInv
<1>2. Head(wire).coordinates \in Places
  BY <1>0, PointerTakes, Zenon DEF PointerInv, PointerEvents
<1>3. /\ a.focus # None
         /\ b.focus = Pointer!SurfaceLocation(a.focus.surface, Head(wire).coordinates)
      /\ b.held = a.held /\ b.batch = a.batch \cup {"other"}
  BY <1>0, <1>1, Zenon DEF PointerStep
<1>4. a.focus.surface \in Surfaces
  BY <1>3, Zenon DEF PointerNodes, PointerFoci
<1>5. PICK from : from = IF pending_pointer_location # None THEN pending_pointer_location
                         ELSE current_pointer_location
  BY Zenon
<1>6. /\ from = Here /\ from # None /\ from.surface \in Surfaces \cup {Null}
      /\ from.surface \in {a.focus.surface, Null}
      /\ a.focus.surface \in live => from.surface = a.focus.surface
  BY <1>1, <1>3, <1>4, <1>5, Zenon DEF PointerInv, PointerType, PointerLag, SamePlace, Here
<1>7. /\ pending_pointer_location' = Pointer!SurfaceLocation(from.surface, Head(wire).coordinates)
      /\ UNCHANGED <<current_pointer_location, pending_pointer_leave, pending_buttons, failed, view,
                     pressed>>
  BY <1>5, <1>6, Zenon DEF Pointer!pointer_motion, Pointer!toldVars
<1>8. /\ pending_pointer_location' # None /\ pending_pointer_location' \in Pointer!Locations
      /\ pending_pointer_location'.surface = from.surface
      /\ pending_pointer_location'.coordinates = Head(wire).coordinates
  BY <1>2, <1>6, <1>7, LocationParts, Zenon
<1>9. /\ b.focus # None /\ b.focus.surface = a.focus.surface
      /\ b.focus.coordinates = Head(wire).coordinates
  BY <1>2, <1>3, <1>4, LocationParts
<1>10. PointerType'
  BY <1>7, <1>8, Zenon DEF PointerInv, PointerType
<1>11. PointerLag(b)'
  <2>1. SamePlace(Here, b.focus)'
    BY <1>0, <1>6, <1>8, <1>9, Zenon DEF SamePlace, Here
  <2>2. "enter" \notin a.batch => /\ current_pointer_location # None
                                  /\ from.surface = current_pointer_location.surface
                                  /\ pending_pointer_leave = FALSE
    BY <1>1, <1>5, <1>6, Zenon DEF PointerInv, PointerType, PointerLag, Here
  <2> QED
    BY <2>1, <2>2, <1>1, <1>3, <1>7, <1>8, Zenon DEF PointerInv, PointerType, PointerLag
<1>12. ButtonLag(b)'
  BY <1>1, <1>3, <1>7, Zenon DEF ButtonLag
<1>13. PointerFollows'
  BY <1>0, <1>1, <1>11, <1>12, PointerTaken, Zenon DEF PointerInv, SeatPointer
<1>14. SurfacesKnown' /\ Pointer!NotificationsAgree' /\ failed' = FALSE
  BY <1>0, <1>7, Zenon DEF PointerInv, SurfacesKnown, Pointer!NotificationsAgree
<1> QED
  BY <1>10, <1>13, <1>14, Zenon DEF PointerInv

(* pointer_button: the button is pending, pressed or released.            *)
LEMMA PointerPresses ==
  ASSUME PointerInv, Pointer!pointer_button
  PROVE  PointerInv'
<1>0. wire # <<>> /\ wire' = Tail(wire) /\ UNCHANGED <<focus, held, batch, known, destroys, live>>
      /\ Head(wire).type = "button"
  BY Zenon DEF Pointer!pointer_button, Pointer!Dispatch, Pointer!seatVars
<1>1. PICK a, b \in PointerNodes : /\ PointerStep(a, Head(wire), b) /\ PointerLag(a) /\ ButtonLag(a)
                                   /\ Path(PointerSteps, Tail(wire), b, SeatPointer)
  BY <1>0, PointerTakes, Zenon DEF PointerInv
<1>2. PICK n, d : n = Head(wire).button /\ d = Head(wire).down /\ n \in Buttons /\ d \in BOOLEAN
  BY <1>0, PointerTakes, Zenon DEF PointerInv, PointerEvents
<1>3. /\ b.focus = a.focus /\ b.batch = a.batch \cup {"other"}
      /\ b.held = IF d = TRUE THEN a.held \cup {n} ELSE a.held \ {n}
  BY <1>0, <1>1, <1>2, Zenon DEF PointerStep
<1>4. /\ pending_buttons' = [x \in DOMAIN pending_buttons \cup {n} |->
                                 IF x = n THEN d ELSE pending_buttons[x]]
      /\ UNCHANGED <<current_pointer_location, pending_pointer_location, pending_pointer_leave, failed,
                     view, pressed>>
  BY <1>2, Zenon DEF Pointer!pointer_button, Pointer!toldVars
<1>5. /\ DOMAIN pending_buttons' = DOMAIN pending_buttons \cup {n} /\ pending_buttons'[n] = d
      /\ \A x \in DOMAIN pending_buttons : x # n => pending_buttons'[x] = pending_buttons[x]
  BY <1>4, Zenon
<1>6. PointerType'
  BY <1>2, <1>4, <1>5, Zenon DEF PointerInv, PointerType
<1>7. PointerLag(b)'
  BY <1>0, <1>1, <1>3, <1>4, Zenon DEF PointerLag, SamePlace, Here
<1>8. ButtonLag(b)'
  BY <1>1, <1>2, <1>3, <1>4, <1>5 DEF ButtonLag
<1>9. PointerFollows'
  BY <1>0, <1>1, <1>7, <1>8, PointerTaken, Zenon DEF PointerInv, SeatPointer
<1>10. SurfacesKnown' /\ Pointer!NotificationsAgree' /\ failed' = FALSE
  BY <1>0, <1>4, Zenon DEF PointerInv, SurfacesKnown, Pointer!NotificationsAgree
<1> QED
  BY <1>6, <1>9, <1>10, Zenon DEF PointerInv

(* Whoever knew where the pointer was before the notifications of a frame  *)
(* knows it after them.                                                    *)
LEMMA PointerFrames ==
  ASSUME PointerInv, Pointer!pointer_frame
  PROVE  PointerInv'
<1>0. wire # <<>> /\ wire' = Tail(wire) /\ UNCHANGED <<focus, held, batch, known, destroys, live>>
      /\ Head(wire).type = "frame"
  BY Zenon DEF Pointer!pointer_frame, Pointer!Dispatch, Pointer!seatVars
<1>1. PICK a, b \in PointerNodes : /\ PointerStep(a, Head(wire), b) /\ PointerLag(a) /\ ButtonLag(a)
                                   /\ Path(PointerSteps, Tail(wire), b, SeatPointer)
  BY <1>0, PointerTakes, Zenon DEF PointerInv
<1>2. b.focus = a.focus /\ b.held = a.held /\ b.batch = {}
  BY <1>0, <1>1, Zenon DEF PointerStep
<1>3. ~(pending_pointer_leave /\ current_pointer_location = None)
  BY <1>1, Zenon DEF PointerInv, PointerType, PointerLag
<1>4. /\ current_pointer_location' =
             IF pending_pointer_location # None THEN pending_pointer_location
             ELSE IF pending_pointer_leave THEN None ELSE current_pointer_location
      /\ pending_pointer_location' = None /\ pending_pointer_leave' = FALSE
      /\ Pointer!Notify(pending_pointer_leave, pending_pointer_location)
      /\ pressed' = (pressed \ { x \in DOMAIN pending_buttons : ~pending_buttons[x] })
                    \cup { x \in DOMAIN pending_buttons : pending_buttons[x] }
      /\ pending_buttons' = << >> /\ UNCHANGED failed
  BY <1>3, Zenon DEF Pointer!pointer_frame
<1>5. current_pointer_location' = Here
  BY <1>4, Zenon DEF Here, PointerInv, PointerType
<1>6. /\ DOMAIN pending_buttons' = {}
      /\ \A x \in Buttons : x \in pressed' <=> IF x \in DOMAIN pending_buttons
                                               THEN pending_buttons[x] = TRUE ELSE x \in pressed
      /\ pressed' \subseteq Buttons
  <2>1. DOMAIN pending_buttons' = {}
    BY <1>4
  <2>2. \A x \in DOMAIN pending_buttons : pending_buttons[x] <=> pending_buttons[x] = TRUE
    BY Zenon DEF PointerInv, PointerType
  <2>3. pressed' = (pressed \ { x \in DOMAIN pending_buttons : pending_buttons[x] # TRUE })
                   \cup { x \in DOMAIN pending_buttons : pending_buttons[x] = TRUE }
    BY <1>4, <2>2, Zenon
  <2> QED
    BY <2>1, <2>3, Zenon DEF PointerInv, PointerType
<1>7. PICK gone \in SUBSET Observers :
        view' = [o \in Observers |-> IF view[o] = Gone \/ o \in gone THEN Gone
                                     ELSE Pointer!Told(view[o], pending_pointer_leave, pending_pointer_location)]
  BY <1>4, Zenon DEF Pointer!Notify
<1>8. Pointer!Told(current_pointer_location, pending_pointer_leave, pending_pointer_location) = Here
  <2>1. CASE pending_pointer_location = None \/ pending_pointer_leave = TRUE
             \/ current_pointer_location = None
    BY <2>1, Zenon DEF Pointer!Told, Here, PointerInv, PointerType
  <2>2. CASE pending_pointer_location # None /\ pending_pointer_leave = FALSE
             /\ current_pointer_location # None
    <3>1. pending_pointer_location.surface = current_pointer_location.surface
      BY <2>2, <1>1, Zenon DEF PointerLag
    <3>2. pending_pointer_location =
            Pointer!SurfaceLocation(pending_pointer_location.surface, pending_pointer_location.coordinates)
      BY <2>2, Zenon DEF PointerInv, PointerType, Pointer!Locations, Pointer!SurfaceLocation
    <3> QED
      BY <2>2, <3>1, <3>2, Zenon DEF Pointer!Told, Here
  <2> QED
    BY <2>1, <2>2, Zenon DEF PointerInv, PointerType
<1>9. Pointer!NotificationsAgree' /\ DOMAIN view' = Observers
  <2>1. DOMAIN view' = Observers
    BY <1>7, Zenon
  <2>2. ASSUME NEW o \in Observers PROVE view'[o] \in {Gone, Here}
    <3>1. view[o] \in {Gone, current_pointer_location}
      BY Zenon DEF PointerInv, Pointer!NotificationsAgree
    <3>2. view'[o] = IF view[o] = Gone \/ o \in gone THEN Gone
                     ELSE Pointer!Told(view[o], pending_pointer_leave, pending_pointer_location)
      BY <1>7, Zenon
    <3> QED
      BY <3>1, <3>2, <1>8, Zenon
  <2> QED
    BY <2>1, <2>2, <1>5, Zenon DEF Pointer!NotificationsAgree
<1>10. PointerType'
  <2>1. pending_pointer_leave' \in BOOLEAN
    BY <1>4, Zenon
  <2> QED
    BY <2>1, <1>4, <1>5, <1>6, <1>9, Zenon DEF PointerInv, PointerType, Here
<1>11. PointerLag(b)'
  BY <1>0, <1>1, <1>2, <1>4, <1>5, Zenon DEF PointerLag, SamePlace, Here
<1>12. ButtonLag(b)'
  BY <1>1, <1>2, <1>6, Zenon DEF ButtonLag
<1>13. PointerFollows'
  BY <1>0, <1>1, <1>11, <1>12, PointerTaken, Zenon DEF PointerInv, SeatPointer
<1>14. SurfacesKnown' /\ failed' = FALSE
  BY <1>0, <1>4, Zenon DEF PointerInv, SurfacesKnown
<1> QED
  BY <1>9, <1>10, <1>13, <1>14, Zenon DEF PointerInv

(* The client's part of the invariant, when only the seat acts.            *)
LEMMA PointerQuiet ==
  ASSUME PointerInv, Pointer!quietClient
  PROVE  /\ PointerType' /\ failed' = FALSE /\ Pointer!NotificationsAgree'
         /\ UNCHANGED <<destroys, live, current_pointer_location, pending_pointer_location,
                        pending_pointer_leave, pending_buttons, pressed>>
BY DEF PointerInv, PointerType, Pointer!NotificationsAgree, Pointer!quietClient, Pointer!clientVars,
       Pointer!toldVars

(* An event of a frame that stays plain, to one object.                    *)
LEMMA PlainFrame ==
  ASSUME PointerPlain, PointerPlain', NEW e, Pointer!InFrame(e)
  PROVE  batch' = batch \cup {e} /\ (e # "other" => "enter" \notin batch)
BY DEF PointerPlain, Pointer!InFrame

(* What the one object of the client is sent.                              *)
LEMMA PlainPost ==
  ASSUME PointerPlain, NEW e, Pointer!Post(e)
  PROVE  wire' = Append(wire, e)
<1>1. ~(doubled = "events")
  BY DEF PointerPlain
<1> QED
  BY <1>1, Zenon DEF Pointer!Post

(* The seat sends wl_pointer.enter.                                       *)
LEMMA SeatEnters ==
  ASSUME PointerInv, PointerPlain, PointerPlain', NEW s \in Surfaces, NEW p \in Places, Pointer!SendEnter(s, p)
  PROVE  PointerInv'
<1> DEFINE e == [type |-> "enter", surface |-> s, coordinates |-> p]
<1>1. /\ focus = None /\ s \in known /\ "enter" \notin batch
      /\ focus' = Pointer!SurfaceLocation(s, p) /\ batch' = batch \cup {"enter"}
      /\ wire' = Append(wire, e) /\ UNCHANGED <<held, known>> /\ Pointer!quietClient
  <2>1. "enter" # "other"
    OBVIOUS
  <2> QED
    BY <2>1, PlainFrame, PlainPost, Zenon DEF Pointer!SendEnter
<1>2. focus' \in PointerFoci /\ focus'.surface = s
  BY <1>1, Zenon DEF PointerFoci, Pointer!SurfaceLocation
<1>3. e \in PointerEvents /\ e.type = "enter" /\ e.surface = s /\ e.coordinates = p
  BY Zenon DEF PointerEvents
<1>4. SeatPointer' \in PointerNodes /\ PointerStep(SeatPointer, e, SeatPointer')
  BY <1>1, <1>2, Zenon DEF PointerInv, PointerFollows, PointerNodes, SeatPointer, PointerStep
<1> HIDE DEF e
<1>5. PointerFollows'
  BY <1>1, <1>3, <1>4, PointerQuiet, PointerPosts, Zenon DEF PointerInv
<1>6. SurfacesKnown'
  BY <1>1, <1>2, PointerQuiet, Zenon DEF PointerInv, SurfacesKnown
<1> QED
  BY <1>1, <1>5, <1>6, PointerQuiet, Zenon DEF PointerInv

(* The focus is a location while there is one.                             *)
LEMMA FocusParts ==
  ASSUME SeatPointer \in PointerNodes
  PROVE  /\ held \subseteq Buttons /\ batch \subseteq {"enter", "leave", "other"}
         /\ focus \in PointerFoci
         /\ focus # None => focus.surface \in Surfaces /\ focus.coordinates \in Places
<1>1. focus \in PointerFoci /\ held \subseteq Buttons /\ batch \subseteq {"enter", "leave", "other"}
  BY Zenon DEF PointerNodes, SeatPointer
<1> QED
  BY <1>1, Zenon DEF PointerFoci

(* A leave of the seat, of its own accord or of a destroyed surface.       *)
LEMMA SeatLeft ==
  ASSUME PointerFollows, PointerPlain, PointerPlain',
         NEW s \in Surfaces, focus # None, focus.surface = s, Pointer!Leave(s), UNCHANGED held,
         UNCHANGED <<live, current_pointer_location, pending_pointer_location,
                     pending_pointer_leave, pending_buttons, pressed>>
  PROVE  PointerFollows' /\ focus' = None
<1> DEFINE e == [type |-> "leave", surface |-> s]
<1>1. focus' = None /\ batch' = batch \cup {"leave"} /\ wire' = Append(wire, e)
      /\ "enter" \notin batch
  <2>1. "leave" # "other"
    OBVIOUS
  <2> QED
    BY <2>1, PlainFrame, PlainPost, Zenon DEF Pointer!Leave
<1>2. e \in PointerEvents
  BY Zenon DEF PointerEvents
<1>3. SeatPointer' \in PointerNodes /\ PointerStep(SeatPointer, e, SeatPointer')
  BY <1>1, FocusParts, Zenon DEF PointerFollows, PointerNodes, PointerFoci, SeatPointer, PointerStep
<1> HIDE DEF e
<1> QED
  BY <1>1, <1>2, <1>3, PointerPosts, Zenon

(* The seat sends wl_pointer.leave.                                       *)
LEMMA SeatLeaves ==
  ASSUME PointerInv, PointerPlain, PointerPlain', Pointer!SendLeave
  PROVE  PointerInv'
<1>1. focus # None /\ Pointer!Leave(focus.surface)
      /\ UNCHANGED <<held, known>>
      /\ Pointer!quietClient
  BY Zenon DEF Pointer!SendLeave
<1>2. PICK s \in Surfaces : s = focus.surface
  BY <1>1, FocusParts, Zenon DEF PointerInv, PointerFollows
<1>3. PointerFollows' /\ focus' = None
  BY <1>1, <1>2, PointerQuiet, SeatLeft, Zenon DEF PointerInv
<1>4. SurfacesKnown'
  BY <1>1, <1>3, PointerQuiet, Zenon DEF PointerInv, SurfacesKnown
<1> QED
  BY <1>1, <1>3, <1>4, PointerQuiet, Zenon DEF PointerInv

(* The seat sends wl_pointer.motion.                                      *)
LEMMA SeatMoves ==
  ASSUME PointerInv, PointerPlain, PointerPlain', NEW p \in Places, Pointer!SendMotion(p)
  PROVE  PointerInv'
<1> DEFINE e == [type |-> "motion", coordinates |-> p]
<1>1. /\ focus # None /\ focus' = Pointer!SurfaceLocation(focus.surface, p)
      /\ batch' = batch \cup {"other"}
      /\ wire' = Append(wire, e) /\ UNCHANGED <<held, known>> /\ Pointer!quietClient
  BY PlainFrame, PlainPost, Zenon DEF Pointer!SendMotion
<1>2. focus' \in PointerFoci /\ focus'.surface = focus.surface
  BY <1>1, FocusParts, Zenon DEF PointerFoci, Pointer!SurfaceLocation, PointerInv, PointerFollows
<1>3. e \in PointerEvents
  BY Zenon DEF PointerEvents
<1>4. SeatPointer' \in PointerNodes /\ PointerStep(SeatPointer, e, SeatPointer')
  BY <1>1, <1>2, Zenon DEF PointerInv, PointerFollows, PointerNodes, SeatPointer, PointerStep
<1> HIDE DEF e
<1>5. PointerFollows'
  BY <1>1, <1>3, <1>4, PointerQuiet, PointerPosts, Zenon DEF PointerInv
<1>6. SurfacesKnown'
  BY <1>1, <1>2, PointerQuiet, Zenon DEF PointerInv, SurfacesKnown
<1> QED
  BY <1>1, <1>5, <1>6, PointerQuiet, Zenon DEF PointerInv

(* The seat sends wl_pointer.button.                                      *)
LEMMA SeatPresses ==
  ASSUME PointerInv, PointerPlain, PointerPlain', NEW n \in Buttons, Pointer!SendButton(n)
  PROVE  PointerInv'
<1> DEFINE e == [type |-> "button", button |-> n, down |-> n \notin held]
<1>1. /\ held' = (IF n \in held THEN held \ {n} ELSE held \cup {n}) /\ batch' = batch \cup {"other"}
      /\ wire' = Append(wire, e) /\ UNCHANGED <<focus, known>> /\ Pointer!quietClient
  BY PlainFrame, PlainPost, Zenon DEF Pointer!SendButton
<1>2. e \in PointerEvents /\ e.type = "button" /\ e.button = n /\ (e.down = TRUE <=> n \notin held)
  <2>1. (n \notin held) \in BOOLEAN
    BY Zenon
  <2>2. e.type = "button" /\ e.button = n /\ e.down = (n \notin held)
    BY Zenon
  <2>3. e \in PointerEvents
    BY <2>1, Zenon DEF PointerEvents
  <2>4. e.down = TRUE <=> n \notin held
    BY <2>2, Zenon
  <2> QED
    BY <2>2, <2>3, <2>4, Zenon
<1> HIDE DEF e
<1>4. SeatPointer' \in PointerNodes /\ PointerStep(SeatPointer, e, SeatPointer')
  BY <1>1, <1>2, Zenon DEF PointerInv, PointerFollows, PointerNodes, SeatPointer, PointerStep
<1>5. PointerFollows'
  BY <1>1, <1>2, <1>4, PointerQuiet, PointerPosts, Zenon DEF PointerInv
<1>6. SurfacesKnown'
  BY <1>1, PointerQuiet, Zenon DEF PointerInv, SurfacesKnown
<1> QED
  BY <1>1, <1>5, <1>6, PointerQuiet, Zenon DEF PointerInv

(* The seat sends wl_pointer.frame, which ends the group of events.       *)
LEMMA SeatFrames ==
  ASSUME PointerInv, PointerPlain, Pointer!SendFrame
  PROVE  PointerInv'
<1> DEFINE e == [type |-> "frame"]
<1>1. /\ batch' = {} /\ wire' = Append(wire, e) /\ UNCHANGED <<focus, held, known>>
         /\ Pointer!quietClient
  BY DEF Pointer!SendFrame, Pointer!frame, PointerPlain
<1>2. e \in PointerEvents
  BY Zenon DEF PointerEvents
<1>3. SeatPointer' \in PointerNodes /\ PointerStep(SeatPointer, e, SeatPointer')
  BY <1>1, Zenon DEF PointerInv, PointerFollows, PointerNodes, SeatPointer, PointerStep
<1> HIDE DEF e
<1>4. PointerFollows'
  BY <1>1, <1>2, <1>3, PointerQuiet, PointerPosts, Zenon DEF PointerInv
<1>5. SurfacesKnown'
  BY <1>1, PointerQuiet, Zenon DEF PointerInv, SurfacesKnown
<1> QED
  BY <1>1, <1>4, <1>5, PointerQuiet, Zenon DEF PointerInv

(* What a client that has followed the seat may know only grows less when  *)
(* it destroys surfaces.                                                   *)
LEMMA PointerForgets ==
  ASSUME PointerFollows, live' \subseteq live,
         UNCHANGED <<wire, SeatPointer, current_pointer_location, pending_pointer_location,
                     pending_pointer_leave, pending_buttons, pressed>>
  PROVE  PointerFollows'
<1>1. PICK a \in PointerNodes : /\ Path(PointerSteps, wire, a, SeatPointer)
                                /\ PointerLag(a) /\ ButtonLag(a)
  BY Zenon DEF PointerFollows
<1>2. PointerLag(a)' /\ ButtonLag(a)'
  BY <1>1, Zenon DEF PointerLag, ButtonLag, Here, SamePlace
<1> QED
  BY <1>1, <1>2, Zenon DEF PointerFollows

(* The server handles the destruction of a surface: the pointer leaves    *)
(* it.                                                                    *)
LEMMA SeatForgets ==
  ASSUME PointerInv, PointerPlain, PointerPlain', NEW s \in Surfaces, Pointer!HandleDestroy(s)
  PROVE  PointerInv'
<1>1. /\ s \in destroys /\ batch = {} /\ destroys' = destroys \ {s} /\ known' = known \ {s}
      /\ UNCHANGED <<held, live, current_pointer_location, pending_pointer_location,
                     pending_pointer_leave, pending_buttons, failed, view, pressed>>
  BY Zenon DEF Pointer!HandleDestroy, Pointer!clientVars, Pointer!toldVars
<1>2. PointerFollows' /\ (focus' = None \/ (focus' = focus /\ focus.surface # s))
  <2>1. CASE focus # None /\ focus.surface = s
    <3>1. Pointer!Leave(s)
      BY <2>1, Zenon DEF Pointer!HandleDestroy
    <3> QED
      BY <2>1, <1>1, <3>1, SeatLeft, Zenon DEF PointerInv
  <2>2. CASE ~(focus # None /\ focus.surface = s)
    <3>1. UNCHANGED <<focus, batch, wire>>
      BY <2>2, Zenon DEF Pointer!HandleDestroy
    <3>2. live' \subseteq live /\ UNCHANGED SeatPointer
      BY <1>1, <3>1, Zenon DEF SeatPointer
    <3> QED
      BY <1>1, <2>2, <3>1, <3>2, PointerForgets, Zenon DEF PointerInv
  <2> QED
    BY <2>1, <2>2, Zenon
<1>3. SurfacesKnown'
  BY <1>1, <1>2, Zenon DEF PointerInv, SurfacesKnown
<1>4. PointerType' /\ failed' = FALSE /\ Pointer!NotificationsAgree'
  BY <1>1, Zenon DEF PointerInv, PointerType, Pointer!NotificationsAgree
<1> QED
  BY <1>2, <1>3, <1>4, Zenon DEF PointerInv

(* The client destroys a surface: what the listeners keep of it stays,    *)
(* the events of it still in flight too.                                  *)
LEMMA ClientForgets ==
  ASSUME PointerInv, NEW s \in Surfaces, Pointer!DestroySurface(s)
  PROVE  PointerInv'
<1>1. /\ s \in live /\ live' = live \ {s} /\ destroys' = destroys \cup {s}
      /\ UNCHANGED <<focus, held, batch, known, wire, current_pointer_location, pending_pointer_location,
                     pending_pointer_leave, pending_buttons, failed, view, pressed>>
  BY Zenon DEF Pointer!DestroySurface, Pointer!clientVars, Pointer!toldVars, Pointer!seatVars
<1>2. live' \subseteq live /\ UNCHANGED SeatPointer
  BY <1>1, Zenon DEF SeatPointer
<1>3. PointerFollows'
  BY <1>1, <1>2, PointerForgets, Zenon DEF PointerInv
<1>4. SurfacesKnown'
  BY <1>1, Zenon DEF PointerInv, SurfacesKnown
<1>5. PointerType' /\ failed' = FALSE /\ Pointer!NotificationsAgree'
  BY <1>1, Zenon DEF PointerInv, PointerType, Pointer!NotificationsAgree
<1> QED
  BY <1>3, <1>4, <1>5, Zenon DEF PointerInv

(* Adding a notifier changes nothing the seat or the handlers keep.       *)
LEMMA ClientWatches ==
  ASSUME PointerInv, NEW o \in Observers, Pointer!AddNotifications(o)
  PROVE  PointerInv'
<1>1. /\ view' = [view EXCEPT ![o] = current_pointer_location]
      /\ UNCHANGED <<focus, held, batch, known, wire, destroys, live, current_pointer_location,
                     pending_pointer_location, pending_pointer_leave, pending_buttons, failed, pressed>>
  BY Zenon DEF Pointer!AddNotifications, Pointer!clientVars, Pointer!seatVars
<1>2. DOMAIN view' = Observers /\ Pointer!NotificationsAgree'
  BY <1>1, Zenon DEF PointerInv, PointerType, Pointer!NotificationsAgree
<1>3. PointerFollows'
  <2>1. live' \subseteq live /\ UNCHANGED SeatPointer
    BY <1>1, Zenon DEF SeatPointer
  <2> QED
    BY <1>1, <2>1, PointerForgets, Zenon DEF PointerInv
<1>4. SurfacesKnown' /\ PointerType' /\ failed' = FALSE
  BY <1>1, <1>2, Zenon DEF PointerInv, SurfacesKnown, PointerType
<1> QED
  BY <1>2, <1>3, <1>4, Zenon DEF PointerInv

(* Every step of the seat, the handlers and the notifiers keeps the       *)
(* invariant.                                                             *)
LEMMA PointerNext ==
  ASSUME PointerInv, PointerPlain, PointerPlain', [Pointer!Next]_pointerVars
  PROVE  PointerInv'
<1>0. ~Pointer!GetPointer
  BY DEF Pointer!GetPointer, PointerPlain
<1>1. CASE Pointer!Next
  BY <1>0, <1>1, SeatEnters, SeatLeaves, SeatMoves, SeatPresses, SeatFrames, SeatForgets, ClientForgets,
     ClientWatches, PointerEnters, PointerLeaves, PointerMoves, PointerPresses, PointerFrames, Zenon
     DEF Pointer!Next, Pointer!Handle
<1>2. CASE UNCHANGED pointerVars
  <2>1. live' \subseteq live /\ UNCHANGED SeatPointer
    BY <1>2, Zenon DEF SeatPointer, pointerVars
  <2>2. PointerFollows'
    BY <1>2, <2>1, PointerForgets, Zenon DEF PointerInv, pointerVars
  <2>3. SurfacesKnown' /\ PointerType' /\ failed' = FALSE /\ Pointer!NotificationsAgree'
    BY <1>2, Zenon DEF PointerInv, SurfacesKnown, PointerType, Pointer!NotificationsAgree,
       pointerVars
  <2> QED
    BY <2>2, <2>3, Zenon DEF PointerInv
<1> QED
  BY <1>1, <1>2, Zenon

(* The invariant gives what is promised of the pointer.                   *)
LEMMA PointerCorrect ==
  ASSUME PointerInv
  PROVE  failed = FALSE /\ Pointer!FollowsSeat
<1>1. failed = FALSE
  BY Zenon DEF PointerInv
<1>2. ASSUME wire = <<>>, batch = {}, destroys = {}
      PROVE  /\ focus = None => Pointer!window_under_cursor = Null
             /\ focus # None => /\ Pointer!window_under_cursor = focus.surface
                                /\ Pointer!pointer_position = focus.coordinates
             /\ ~Pointer!pointer_events_pending /\ ~pending_pointer_leave
             /\ pressed = held
  <2>1. PICK a \in PointerNodes : Path(PointerSteps, <<>>, a, SeatPointer) /\ PointerLag(a)
             /\ ButtonLag(a)
    BY <1>2, Zenon DEF PointerInv, PointerFollows
  <2>2. a = SeatPointer
    BY <2>1, PathEmpty, Zenon
  <2>3. a.focus = focus /\ a.held = held /\ a.batch = {} /\ held \subseteq Buttons
    BY <1>2, <2>2, FocusParts, Zenon DEF SeatPointer, PointerInv, PointerFollows
  <2>4. /\ pending_pointer_location = None /\ pending_buttons = <<>>
           /\ pending_pointer_leave = FALSE
        /\ SamePlace(Here, focus)
    BY <2>1, <2>3, Zenon DEF PointerLag, PointerInv, PointerType
  <2>5. Here = current_pointer_location
    BY <2>4, Zenon DEF Here
  <2>6. focus # None => focus.surface \in live
    BY <1>2, Zenon DEF PointerInv, SurfacesKnown
  <2>7. pressed = held
    <3>1. DOMAIN pending_buttons = {}
      BY <2>4
    <3> QED
      BY <3>1, <2>1, <2>3, Zenon DEF ButtonLag, PointerInv, PointerType
  <2> QED
    BY <2>4, <2>5, <2>6, <2>7, Zenon DEF SamePlace, Pointer!window_under_cursor,
       Pointer!pointer_position,
                                  Pointer!pointer_events_pending
<1> QED
  BY <1>1, <1>2, Zenon DEF Pointer!FollowsSeat

-----------------------------------------------------------------------------
(* What holds of the pointer whatever the frames are and however often     *)
(* they are sent: the events are well formed.                              *)
PointerSent ==
    /\ crossed \in Nat /\ SeatPointer \in PointerNodes
    /\ wire \in Seq(PointerEvents) /\ later \in Seq(PointerEvents)

(* A leave is pending only of a surface, and only a leave lets the pending *)
(* location be on another surface.                                         *)
PointerMembers ==
    /\ current_pointer_location \in Pointer!Locations \cup {None}
    /\ pending_pointer_location \in Pointer!Locations \cup {None}
    /\ pending_pointer_leave \in BOOLEAN
    /\ pending_pointer_leave = TRUE => current_pointer_location # None
    /\ pending_pointer_location # None /\ current_pointer_location # None
       /\ pending_pointer_leave = FALSE =>
         pending_pointer_location.surface = current_pointer_location.surface

PointerTold == DOMAIN view = Observers /\ Pointer!NotificationsAgree

PointerWatch == PointerSent /\ PointerMembers /\ PointerTold

(* Nothing was sent and nobody watches.                                    *)
LEMMA WatchInit == Pointer!Init => PointerWatch
<1> SUFFICES ASSUME Pointer!Init PROVE PointerWatch
  BY Zenon
<1> USE DEF Pointer!Init
<1>1. SeatPointer \in PointerNodes
  BY Zenon DEF SeatPointer, PointerNodes, PointerFoci
<1>2. PointerSent
  BY <1>1 DEF PointerSent
<1>3. PointerMembers
  BY DEF PointerMembers
<1>4. PointerTold
  BY Zenon DEF PointerTold, Pointer!NotificationsAgree
<1> QED
  BY <1>2, <1>3, <1>4, Zenon DEF PointerWatch

(* An event, sent once or twice, or once more later.                       *)
LEMMA SentPosts ==
  ASSUME PointerSent, NEW e \in PointerEvents, Pointer!Post(e)
  PROVE  wire' \in Seq(PointerEvents) /\ later' \in Seq(PointerEvents)
<1>1. wire' \in Seq(PointerEvents)
  BY DEF PointerSent, Pointer!Post
<1>2. later' \in Seq(PointerEvents)
  BY DEF PointerSent, Pointer!Post
<1> QED
  BY <1>1, <1>2

(* The count of changes of focus goes on.                                  *)
LEMMA SentInFrame ==
  ASSUME PointerSent, NEW e \in {"enter", "leave", "other"}, Pointer!InFrame(e)
  PROVE  /\ crossed' \in Nat /\ batch' \subseteq {"enter", "leave", "other"}
         /\ batch \subseteq {"enter", "leave", "other"} /\ held \subseteq Buttons
<1>1. crossed' \in Nat
  BY DEF PointerSent, Pointer!InFrame
<1>2. batch \subseteq {"enter", "leave", "other"} /\ held \subseteq Buttons
  BY FocusParts, Zenon DEF PointerSent
<1>3. batch' = batch \cup {e}
  BY Zenon DEF Pointer!InFrame
<1> QED
  BY <1>1, <1>2, <1>3

(* A state of the seat.                                                    *)
LEMMA SeatNode ==
  ASSUME focus' \in PointerFoci, held' \subseteq Buttons,
         batch' \subseteq {"enter", "leave", "other"}
  PROVE  SeatPointer' \in PointerNodes
BY Zenon DEF SeatPointer, PointerNodes

(* The compositor sends well-formed events.                                *)
LEMMA SeatSends ==
  ASSUME PointerSent,
         \/ \E s \in Surfaces, p \in Places : Pointer!SendEnter(s, p)
         \/ Pointer!SendLeave
         \/ \E p \in Places : Pointer!SendMotion(p)
         \/ \E b \in Buttons : Pointer!SendButton(b)
  PROVE  PointerSent' /\ Pointer!quietClient
<1>1. ASSUME NEW s \in Surfaces, NEW p \in Places, Pointer!SendEnter(s, p)
      PROVE  PointerSent' /\ Pointer!quietClient
  <2>1. [type |-> "enter", surface |-> s, coordinates |-> p] \in PointerEvents
    BY Zenon DEF PointerEvents
  <2>2. focus' \in PointerFoci
    BY <1>1, Zenon DEF PointerFoci, Pointer!SurfaceLocation, Pointer!SendEnter
  <2>3. Pointer!InFrame("enter") /\ UNCHANGED held /\ Pointer!quietClient
        /\ Pointer!Post([type |-> "enter", surface |-> s, coordinates |-> p])
    BY <1>1, Zenon DEF Pointer!SendEnter
  <2> QED
    BY <2>1, <2>2, <2>3, SentPosts, SentInFrame, SeatNode, Zenon DEF PointerSent
<1>2. ASSUME Pointer!SendLeave PROVE PointerSent' /\ Pointer!quietClient
  <2>1. focus # None /\ Pointer!InFrame("leave") /\ UNCHANGED held /\ Pointer!quietClient
        /\ Pointer!Post([type |-> "leave", surface |-> focus.surface])
        /\ focus' = None
    BY <1>2, Zenon DEF Pointer!SendLeave, Pointer!Leave
  <2>2. focus.surface \in Surfaces /\ focus' \in PointerFoci
    BY <2>1, FocusParts, Zenon DEF PointerSent, PointerFoci
  <2>3. [type |-> "leave", surface |-> focus.surface] \in PointerEvents
    BY <2>2, Zenon DEF PointerEvents
  <2> QED
    BY <2>1, <2>2, <2>3, SentPosts, SentInFrame, SeatNode, Zenon DEF PointerSent
<1>3. ASSUME NEW p \in Places, Pointer!SendMotion(p) PROVE PointerSent' /\ Pointer!quietClient
  <2>1. /\ focus # None /\ Pointer!InFrame("other") /\ UNCHANGED held /\ Pointer!quietClient
        /\ Pointer!Post([type |-> "motion", coordinates |-> p])
        /\ focus' = Pointer!SurfaceLocation(focus.surface, p)
    BY <1>3, Zenon DEF Pointer!SendMotion
  <2>2. focus' \in PointerFoci
    BY <2>1, FocusParts, Zenon DEF PointerSent, PointerFoci, Pointer!SurfaceLocation
  <2>3. [type |-> "motion", coordinates |-> p] \in PointerEvents
    BY Zenon DEF PointerEvents
  <2> QED
    BY <2>1, <2>2, <2>3, SentPosts, SentInFrame, SeatNode, Zenon DEF PointerSent
<1>4. ASSUME NEW b \in Buttons, Pointer!SendButton(b) PROVE PointerSent' /\ Pointer!quietClient
  <2>1. /\ Pointer!InFrame("other") /\ UNCHANGED focus /\ Pointer!quietClient
        /\ Pointer!Post([type |-> "button", button |-> b, down |-> b \notin held])
        /\ held' = IF b \in held THEN held \ {b} ELSE held \cup {b}
    BY <1>4, Zenon DEF Pointer!SendButton
  <2>2. focus' \in PointerFoci /\ held' \subseteq Buttons
    BY <2>1, FocusParts, Zenon DEF PointerSent
  <2>3. (b \notin held) \in BOOLEAN
    BY Zenon
  <2>4. [type |-> "button", button |-> b, down |-> b \notin held] \in PointerEvents
    BY <2>3, Zenon DEF PointerEvents
  <2> QED
    BY <2>1, <2>2, <2>4, SentPosts, SentInFrame, SeatNode, Zenon DEF PointerSent
<1> QED
  BY <1>1, <1>2, <1>3, <1>4, Zenon

(* It ends frames, takes requests for objects and learns of destructions.  *)
LEMMA PointerAnswers ==
  ASSUME PointerSent,
         Pointer!SendFrame \/ Pointer!GetPointer \/ \E s \in Surfaces : Pointer!HandleDestroy(s)
  PROVE  PointerSent' /\ UNCHANGED <<live, Pointer!clientVars, Pointer!toldVars>>
<1>0. /\ focus \in PointerFoci /\ held \subseteq Buttons
      /\ batch \subseteq {"enter", "leave", "other"}
      /\ focus # None => focus.surface \in Surfaces /\ focus.coordinates \in Places
      /\ crossed \in Nat /\ wire \in Seq(PointerEvents) /\ later \in Seq(PointerEvents)
      /\ None \in PointerFoci /\ {} \subseteq {"enter", "leave", "other"}
  BY FocusParts, Zenon DEF PointerSent, PointerFoci
<1>1. Pointer!frame \in PointerEvents
  BY Zenon DEF Pointer!frame, PointerEvents
<1>2. ASSUME Pointer!SendFrame
      PROVE  PointerSent' /\ UNCHANGED <<live, Pointer!clientVars, Pointer!toldVars>>
  <2>1. /\ UNCHANGED <<focus, held, crossed>> /\ batch' = {} /\ later' = <<>>
        /\ UNCHANGED <<live, Pointer!clientVars, Pointer!toldVars>>
    BY <1>2, Zenon DEF Pointer!SendFrame, Pointer!quietClient
  <2>2. wire' \in Seq(PointerEvents)
    <3>1. /\ Append(wire, Pointer!frame) \in Seq(PointerEvents)
          /\ wire \o <<Pointer!frame, Pointer!frame>> \in Seq(PointerEvents)
          /\ Append(wire, Pointer!frame) \o Append(later, Pointer!frame) \in Seq(PointerEvents)
      BY <1>0, <1>1
    <3>2. \/ wire' = Append(wire, Pointer!frame)
          \/ wire' = wire \o <<Pointer!frame, Pointer!frame>>
          \/ wire' = Append(wire, Pointer!frame) \o Append(later, Pointer!frame)
      BY <1>2 DEF Pointer!SendFrame
    <3> QED
      BY <3>1, <3>2, Zenon
  <2>3. later' \in Seq(PointerEvents)
    BY <2>1
  <2> QED
    BY <1>0, <2>1, <2>2, <2>3, SeatNode, Zenon DEF PointerSent
<1>3. ASSUME Pointer!GetPointer
      PROVE  PointerSent' /\ UNCHANGED <<live, Pointer!clientVars, Pointer!toldVars>>
  <2>1. /\ UNCHANGED <<focus, held, batch, crossed, later>>
        /\ UNCHANGED <<live, Pointer!clientVars, Pointer!toldVars>>
    BY <1>3, Zenon DEF Pointer!GetPointer, Pointer!quietClient
  <2>2. wire' \in Seq(PointerEvents)
    <3>1. CASE focus = None
      BY <1>0, <1>3, <3>1, Zenon DEF Pointer!GetPointer
    <3>2. CASE focus # None
      <4>1. PICK e : e = [type |-> "enter", surface |-> focus.surface,
                          coordinates |-> focus.coordinates]
        BY Zenon
      <4>2. e \in PointerEvents
        BY <1>0, <3>2, <4>1, Zenon DEF PointerEvents
      <4>3. wire' = wire \o <<e, Pointer!frame>>
        BY <1>3, <3>2, <4>1, Zenon DEF Pointer!GetPointer
      <4> QED
        BY <1>0, <1>1, <4>2, <4>3
    <3> QED
      BY <3>1, <3>2, Zenon
  <2> QED
    BY <1>0, <2>1, <2>2, SeatNode, Zenon DEF PointerSent
<1>4. ASSUME NEW s \in Surfaces, Pointer!HandleDestroy(s)
      PROVE  PointerSent' /\ UNCHANGED <<live, Pointer!clientVars, Pointer!toldVars>>
  <2>1. UNCHANGED held /\ UNCHANGED <<live, Pointer!clientVars, Pointer!toldVars>>
    BY <1>4, Zenon DEF Pointer!HandleDestroy
  <2>2. CASE focus # None /\ focus.surface = s
    <3>1. Pointer!Leave(s)
      BY <1>4, <2>2, Zenon DEF Pointer!HandleDestroy
    <3>2. Pointer!InFrame("leave") /\ Pointer!Post([type |-> "leave", surface |-> s])
          /\ focus' = None
      BY <3>1, Zenon DEF Pointer!Leave
    <3>3. [type |-> "leave", surface |-> s] \in PointerEvents
      BY Zenon DEF PointerEvents
    <3> QED
      BY <1>0, <2>1, <3>2, <3>3, SentPosts, SentInFrame, SeatNode, Zenon DEF PointerSent
  <2>3. CASE ~(focus # None /\ focus.surface = s)
    <3>1. UNCHANGED <<focus, batch, wire, later, crossed>>
      BY <1>4, <2>3, Zenon DEF Pointer!HandleDestroy
    <3> QED
      BY <1>0, <2>1, <3>1, SeatNode, Zenon DEF PointerSent
  <2> QED
    BY <2>2, <2>3, Zenon
<1> QED
  BY <1>2, <1>3, <1>4, Zenon

(* A handler takes one event, well formed, and leaves the seat alone.      *)
LEMMA HandlerTakes ==
  ASSUME PointerSent, NEW type, Pointer!Dispatch(type)
  PROVE  /\ PointerSent' /\ Head(wire) \in PointerEvents /\ Head(wire).type = type
         /\ type = "enter" => Head(wire).surface \in Surfaces /\ Head(wire).coordinates \in Places
         /\ type = "motion" => Head(wire).coordinates \in Places
<1>1. /\ wire # <<>> /\ wire' = Tail(wire) /\ Head(wire).type = type
      /\ UNCHANGED <<focus, held, batch, later, crossed>>
  BY Zenon DEF Pointer!Dispatch, Pointer!seatVars
<1>2. Head(wire) \in PointerEvents /\ wire' \in Seq(PointerEvents)
  BY <1>1 DEF PointerSent
<1>3. PointerSent'
  BY <1>1, <1>2, Zenon DEF PointerSent, SeatPointer
<1>4. ASSUME NEW e \in PointerEvents
      PROVE  /\ e.type = "enter" => e.surface \in Surfaces /\ e.coordinates \in Places
             /\ e.type = "motion" => e.coordinates \in Places
  BY DEF PointerEvents
<1> QED
  BY <1>1, <1>2, <1>3, <1>4, Zenon

(* Members and notifiers a handler leaves as they are.                     *)
LEMMA MembersStay ==
  ASSUME PointerMembers, PointerTold,
         UNCHANGED <<current_pointer_location, pending_pointer_location,
                     pending_pointer_leave, view>>
  PROVE  PointerMembers' /\ PointerTold'
BY Zenon DEF PointerMembers, PointerTold, Pointer!NotificationsAgree

(* What watchers know stays right while the current location stays.        *)
LEMMA ToldStays ==
  ASSUME PointerTold, UNCHANGED <<current_pointer_location, view>>
  PROVE  PointerTold'
BY Zenon DEF PointerTold, Pointer!NotificationsAgree

(* FAIL() leaves all of them.                                              *)
LEMMA FailStays ==
  ASSUME PointerMembers, PointerTold, Pointer!FAIL
  PROVE  PointerMembers' /\ PointerTold'
<1>1. UNCHANGED <<current_pointer_location, pending_pointer_location, pending_pointer_leave, view>>
  BY Zenon DEF Pointer!FAIL, Pointer!toldVars
<1> QED
  BY <1>1, MembersStay, Zenon

(* pointer_enter: after a leave, or from nowhere.                          *)
LEMMA WatchEnters ==
  ASSUME PointerWatch, Pointer!pointer_enter
  PROVE  PointerWatch'
<1>1. PointerSent' /\ Head(wire).surface \in Surfaces /\ Head(wire).coordinates \in Places
  BY HandlerTakes, Zenon DEF PointerWatch, Pointer!pointer_enter
<1>2. CASE current_pointer_location # None /\ ~pending_pointer_leave
  BY <1>1, <1>2, FailStays, Zenon DEF PointerWatch, Pointer!pointer_enter
<1>3. CASE ~(current_pointer_location # None /\ ~pending_pointer_leave)
  <2>1. PICK s \in Surfaces \cup {Null} : s = Pointer!Resolve(Head(wire).surface)
    BY <1>1, Zenon DEF Pointer!Resolve
  <2>2. /\ pending_pointer_location' = Pointer!SurfaceLocation(s, Head(wire).coordinates)
        /\ UNCHANGED <<current_pointer_location, pending_pointer_leave, view>>
    BY <1>3, <2>1, Zenon DEF Pointer!pointer_enter, Pointer!toldVars
  <2>3. pending_pointer_location' \in Pointer!Locations
    BY <1>1, <2>2, LocationParts, Zenon
  <2>4. current_pointer_location = None \/ pending_pointer_leave # FALSE
    BY <1>3, Zenon
  <2>5. PointerMembers'
    BY <2>2, <2>3, <2>4, Zenon DEF PointerWatch, PointerMembers
  <2> QED
    BY <1>1, <2>2, <2>5, ToldStays, Zenon DEF PointerWatch
<1> QED
  BY <1>2, <1>3, Zenon

(* pointer_leave.                                                          *)
LEMMA WatchLeaves ==
  ASSUME PointerWatch, Pointer!pointer_leave
  PROVE  PointerWatch'
<1> DEFINE s == Pointer!Resolve(Head(wire).surface)
           wrong == current_pointer_location = None
                    \/ (s # Null /\ s # current_pointer_location.surface)
<1>1. PointerSent'
  BY HandlerTakes, Zenon DEF PointerWatch, Pointer!pointer_leave
<1>2. CASE wrong
  BY <1>1, <1>2, FailStays, Zenon DEF PointerWatch, Pointer!pointer_leave
<1>3. CASE ~wrong
  <2>1. /\ pending_pointer_location' = None /\ pending_pointer_leave' = TRUE
        /\ UNCHANGED <<current_pointer_location, view>> /\ current_pointer_location # None
    BY <1>3, Zenon DEF Pointer!pointer_leave, Pointer!toldVars
  <2>2. PointerMembers'
    BY <2>1, Zenon DEF PointerWatch, PointerMembers
  <2> QED
    BY <1>1, <2>1, <2>2, ToldStays, Zenon DEF PointerWatch
<1> QED
  BY <1>2, <1>3, Zenon

(* pointer_motion: on the surface where the pointer is or will be.         *)
LEMMA WatchMoves ==
  ASSUME PointerWatch, Pointer!pointer_motion
  PROVE  PointerWatch'
<1>1. PointerSent' /\ Head(wire).coordinates \in Places
  BY HandlerTakes, Zenon DEF PointerWatch, Pointer!pointer_motion
<1>2. PICK from : from = IF pending_pointer_location # None THEN pending_pointer_location
                         ELSE current_pointer_location
  BY Zenon
<1>3. CASE from = None
  BY <1>1, <1>2, <1>3, FailStays, Zenon DEF PointerWatch, Pointer!pointer_motion
<1>4. CASE from # None
  <2>1. /\ pending_pointer_location' = Pointer!SurfaceLocation(from.surface, Head(wire).coordinates)
        /\ UNCHANGED <<current_pointer_location, pending_pointer_leave, view>>
    BY <1>2, <1>4, Zenon DEF Pointer!pointer_motion, Pointer!toldVars
  <2>2. from \in Pointer!Locations
    BY <1>2, <1>4, Zenon DEF PointerWatch, PointerMembers
  <2>3. from.surface \in Surfaces \cup {Null}
    BY <2>2, Zenon DEF Pointer!Locations
  <2>4. /\ pending_pointer_location' \in Pointer!Locations
        /\ pending_pointer_location'.surface = from.surface
    BY <1>1, <2>1, <2>3, LocationParts, Zenon
  <2>5. current_pointer_location # None /\ pending_pointer_leave = FALSE =>
          from.surface = current_pointer_location.surface
    BY <1>2, <1>4, Zenon DEF PointerWatch, PointerMembers
  <2>6. PointerMembers'
    BY <2>1, <2>4, <2>5, Zenon DEF PointerWatch, PointerMembers
  <2> QED
    BY <1>1, <2>1, <2>6, ToldStays, Zenon DEF PointerWatch
<1> QED
  BY <1>3, <1>4, Zenon

(* pointer_button.                                                         *)
LEMMA WatchPresses ==
  ASSUME PointerWatch, Pointer!pointer_button
  PROVE  PointerWatch'
<1>1. PointerSent'
  BY HandlerTakes, Zenon DEF PointerWatch, Pointer!pointer_button
<1>2. UNCHANGED <<current_pointer_location, pending_pointer_location, pending_pointer_leave, view>>
  BY Zenon DEF Pointer!pointer_button, Pointer!toldVars
<1> QED
  BY <1>1, <1>2, MembersStay, Zenon DEF PointerWatch

(* What is told in a frame leads watchers to the new location.             *)
LEMMA FrameTold ==
  ASSUME PointerMembers, NEW stays,
         stays = IF pending_pointer_leave THEN None ELSE current_pointer_location
  PROVE  Pointer!Told(current_pointer_location, pending_pointer_leave, pending_pointer_location)
           = IF pending_pointer_location # None THEN pending_pointer_location ELSE stays
<1>1. PICK m : m = pending_pointer_location
  BY Zenon
<1>2. CASE m = None
  BY <1>1, <1>2, Zenon DEF Pointer!Told
<1>3. CASE m # None /\ stays = None
  BY <1>1, <1>3, Zenon DEF Pointer!Told
<1>4. CASE m # None /\ stays # None
  <2>1. m \in Pointer!Locations /\ m.surface = stays.surface
    BY <1>1, <1>4, Zenon DEF PointerMembers
  <2>2. Pointer!SurfaceLocation(stays.surface, m.coordinates) = m
    BY <2>1 DEF Pointer!SurfaceLocation, Pointer!Locations
  <2> QED
    BY <1>1, <1>4, <2>2, Zenon DEF Pointer!Told
<1> QED
  BY <1>2, <1>3, <1>4, Zenon

(* pointer_frame: a watcher is told of what changes.                       *)
LEMMA WatchFrames ==
  ASSUME PointerWatch, Pointer!pointer_frame
  PROVE  PointerWatch'
<1>1. PointerSent'
  BY HandlerTakes, Zenon DEF PointerWatch, Pointer!pointer_frame
<1>2. CASE pending_pointer_leave /\ current_pointer_location = None
  BY <1>1, <1>2, FailStays, Zenon DEF PointerWatch, Pointer!pointer_frame
<1>3. CASE ~(pending_pointer_leave /\ current_pointer_location = None)
  <2>1. PICK stays : stays = IF pending_pointer_leave THEN None ELSE current_pointer_location
    BY Zenon
  <2>2. /\ current_pointer_location' = IF pending_pointer_location # None
                                       THEN pending_pointer_location ELSE stays
        /\ pending_pointer_location' = None /\ pending_pointer_leave' = FALSE
        /\ Pointer!Notify(pending_pointer_leave, pending_pointer_location)
    BY <1>3, <2>1, Zenon DEF Pointer!pointer_frame
  <2>3. PointerMembers'
    BY <2>1, <2>2, Zenon DEF PointerWatch, PointerMembers
  <2>4. current_pointer_location' =
          Pointer!Told(current_pointer_location, pending_pointer_leave, pending_pointer_location)
    <3>1. PointerMembers
      BY Zenon DEF PointerWatch
    <3>2. Pointer!Told(current_pointer_location, pending_pointer_leave, pending_pointer_location)
            = IF pending_pointer_location # None THEN pending_pointer_location ELSE stays
      BY <2>1, <3>1, FrameTold
    <3> QED
      BY <2>2, <3>2
  <2>5. PICK declining \in SUBSET Observers :
          view' = [o \in Observers |->
                     IF view[o] = Gone \/ o \in declining THEN Gone
                     ELSE Pointer!Told(view[o], pending_pointer_leave, pending_pointer_location)]
    BY <2>2, Zenon DEF Pointer!Notify
  <2>6. DOMAIN view' = Observers
    BY <2>5, Zenon
  <2>7. ASSUME NEW o \in Observers PROVE view'[o] \in {Gone, current_pointer_location'}
    <3>1. view[o] \in {Gone, current_pointer_location}
      BY Zenon DEF PointerWatch, PointerTold, Pointer!NotificationsAgree
    <3> QED
      BY <2>4, <2>5, <3>1, Zenon
  <2>8. PointerTold'
    BY <2>6, <2>7, Zenon DEF PointerTold, Pointer!NotificationsAgree
  <2> QED
    BY <1>1, <2>3, <2>8, Zenon DEF PointerWatch
<1> QED
  BY <1>2, <1>3, Zenon

(* The steps of the compositor and of the test.                            *)
LEMMA WatchQuiet ==
  ASSUME PointerWatch, PointerSent', UNCHANGED <<Pointer!clientVars, Pointer!toldVars>>
  PROVE  PointerWatch'
<1>1. UNCHANGED <<current_pointer_location, pending_pointer_location, pending_pointer_leave, view>>
  BY Zenon DEF Pointer!clientVars, Pointer!toldVars
<1> QED
  BY <1>1, MembersStay, Zenon DEF PointerWatch

(* Every step keeps watchers right.                                        *)
LEMMA WatchNext ==
  ASSUME PointerWatch, [Pointer!Next]_pointerVars
  PROVE  PointerWatch' /\ (PointerPlain' => PointerPlain)
<1>1. CASE Pointer!Handle
  <2>1. UNCHANGED <<doubled, crossed>>
    BY <1>1, Zenon DEF Pointer!Handle, Pointer!pointer_enter, Pointer!pointer_leave,
       Pointer!pointer_motion, Pointer!pointer_button, Pointer!pointer_frame, Pointer!Dispatch,
       Pointer!seatVars
  <2> QED
    BY <1>1, <2>1, WatchEnters, WatchLeaves, WatchMoves, WatchPresses, WatchFrames, Zenon
       DEF Pointer!Handle, PointerPlain
<1>2. CASE \/ \E s \in Surfaces, p \in Places : Pointer!SendEnter(s, p)
           \/ Pointer!SendLeave
           \/ \E p \in Places : Pointer!SendMotion(p)
           \/ \E b \in Buttons : Pointer!SendButton(b)
  <2>1. PointerWatch'
    BY <1>2, SeatSends, WatchQuiet, Zenon DEF PointerWatch, Pointer!quietClient
  <2>2. PICK e : Pointer!InFrame(e) /\ UNCHANGED doubled
    BY <1>2, Zenon DEF Pointer!SendEnter, Pointer!SendLeave, Pointer!Leave, Pointer!SendMotion,
       Pointer!SendButton, Pointer!Post
  <2>3. crossed' = 0 => crossed = 0
    BY <2>2 DEF Pointer!InFrame, PointerWatch, PointerSent
  <2> QED
    BY <2>1, <2>2, <2>3, Zenon DEF PointerPlain
<1>3. CASE Pointer!SendFrame \/ Pointer!GetPointer \/ \E s \in Surfaces : Pointer!HandleDestroy(s)
  <2>1. PointerWatch'
    BY <1>3, PointerAnswers, WatchQuiet, Zenon DEF PointerWatch
  <2>2. (doubled' = "no" => doubled = "no") /\ (crossed' = 0 => crossed = 0)
    <3>1. CASE Pointer!SendFrame \/ Pointer!GetPointer
      BY <3>1, Zenon DEF Pointer!SendFrame, Pointer!GetPointer
    <3>2. CASE \E s \in Surfaces : Pointer!HandleDestroy(s)
      <4>1. UNCHANGED <<doubled, crossed>> \/ (Pointer!InFrame("leave") /\ UNCHANGED doubled)
        BY <3>2, Zenon DEF Pointer!HandleDestroy, Pointer!Leave, Pointer!Post
      <4> QED
        BY <4>1 DEF Pointer!InFrame, PointerWatch, PointerSent
    <3> QED
      BY <1>3, <3>1, <3>2, Zenon
  <2> QED
    BY <2>1, <2>2, Zenon DEF PointerPlain
<1>4. CASE \E s \in Surfaces : Pointer!DestroySurface(s)
  <2>1. UNCHANGED <<Pointer!seatVars, wire, Pointer!clientVars, Pointer!toldVars>>
    BY <1>4, Zenon DEF Pointer!DestroySurface
  <2>2. PointerSent' /\ UNCHANGED <<doubled, crossed>>
    BY <2>1, Zenon DEF Pointer!seatVars, PointerSent, SeatPointer, PointerWatch
  <2> QED
    BY <2>1, <2>2, WatchQuiet, Zenon DEF PointerPlain
<1>5. CASE \E o \in Observers : Pointer!AddNotifications(o)
  <2>1. PICK o \in Observers : Pointer!AddNotifications(o)
    BY <1>5, Zenon
  <2>2. /\ view' = [view EXCEPT ![o] = current_pointer_location]
        /\ UNCHANGED <<Pointer!seatVars, wire, Pointer!clientVars>>
    BY <2>1, Zenon DEF Pointer!AddNotifications
  <2>3. PointerSent' /\ UNCHANGED <<doubled, crossed>>
    BY <2>2, Zenon DEF Pointer!seatVars, PointerSent, SeatPointer, PointerWatch
  <2>4. PointerMembers' /\ UNCHANGED current_pointer_location
    BY <2>2, Zenon DEF Pointer!clientVars, PointerMembers, PointerWatch
  <2>5. PointerTold'
    BY <2>2, <2>4, Zenon DEF PointerWatch, PointerTold, Pointer!NotificationsAgree
  <2> QED
    BY <2>3, <2>4, <2>5, Zenon DEF PointerWatch, PointerPlain
<1>6. CASE UNCHANGED pointerVars
  <2>1. UNCHANGED <<focus, held, batch, later, wire, doubled, crossed, view,
                    current_pointer_location, pending_pointer_location, pending_pointer_leave>>
    BY <1>6, Zenon DEF pointerVars
  <2>2. PointerSent'
    BY <2>1, Zenon DEF PointerSent, SeatPointer, PointerWatch
  <2> QED
    BY <2>1, <2>2, MembersStay, Zenon DEF PointerWatch, PointerPlain
<1> QED
  BY <1>1, <1>2, <1>3, <1>4, <1>5, <1>6, Zenon DEF Pointer!Next

-----------------------------------------------------------------------------
(* The touches.                                                            *)
TouchKinds == {"nothing", "down", "motion", "up"}
TouchMaps == UNION { [D -> Touch!Locations] : D \in SUBSET Ids }
TouchNodes == [touches : TouchMaps, batch : [Ids -> TouchKinds]]
TouchEvents ==
    [type : {"down"}, id : Ids, surface : Surfaces, coordinates : Places]
    \cup [type : {"motion"}, id : Ids, coordinates : Places]
    \cup [type : {"up"}, id : Ids]
    \cup [type : {"frame"}]

TouchStep(a, e, b) ==
    /\ e.type = "down" =>
         /\ e.id \notin DOMAIN a.touches /\ a.batch[e.id] = "nothing"
         /\ b.touches = Touch!With(a.touches, e.id, Touch!SurfaceLocation(e.surface, e.coordinates))
         /\ b.batch = [a.batch EXCEPT ![e.id] = "down"]
    /\ e.type = "motion" =>
         /\ e.id \in DOMAIN a.touches /\ a.batch[e.id] \in {"nothing", "motion"}
         /\ b.touches = [a.touches EXCEPT ![e.id] = Touch!SurfaceLocation(@.surface, e.coordinates)]
         /\ b.batch = [a.batch EXCEPT ![e.id] = "motion"]
    /\ e.type = "up" =>
         /\ e.id \in DOMAIN a.touches /\ a.batch[e.id] = "nothing"
         /\ b.touches = [j \in DOMAIN a.touches \ {e.id} |-> a.touches[j]]
         /\ b.batch = [a.batch EXCEPT ![e.id] = "up"]
    /\ e.type = "frame" => b.touches = a.touches /\ b.batch = [i \in Ids |-> "nothing"]

TouchSteps == { t \in TouchNodes \X TouchEvents \X TouchNodes : TouchStep(t[1], t[2], t[3]) }

(* The triples of TouchSteps are the steps of TouchStep.                  *)
LEMMA TouchStepsDef ==
  \A a, e, b : <<a, e, b>> \in TouchSteps <=>
      a \in TouchNodes /\ e \in TouchEvents /\ b \in TouchNodes /\ TouchStep(a, e, b)
BY DEF TouchSteps

(* A map of touches, a point at a time.                                    *)
LEMMA TouchMap ==
  \A f : f \in TouchMaps <=> /\ f = [i \in DOMAIN f |-> f[i]] /\ DOMAIN f \subseteq Ids
                             /\ \A i \in DOMAIN f : f[i] \in Touch!Locations
<1>1. ASSUME NEW f, f \in TouchMaps
      PROVE  /\ f = [i \in DOMAIN f |-> f[i]] /\ DOMAIN f \subseteq Ids
             /\ \A i \in DOMAIN f : f[i] \in Touch!Locations
  <2>1. PICK D \in SUBSET Ids : f \in [D -> Touch!Locations]
    BY <1>1, Zenon DEF TouchMaps
  <2> QED
    BY <2>1, Zenon
<1>2. ASSUME NEW f, f = [i \in DOMAIN f |-> f[i]], DOMAIN f \subseteq Ids,
             \A i \in DOMAIN f : f[i] \in Touch!Locations
      PROVE  f \in TouchMaps
  <2>1. f \in [DOMAIN f -> Touch!Locations]
    BY <1>2, Zenon
  <2> QED
    BY <1>2, <2>1, Zenon DEF TouchMaps
<1> QED
  BY <1>1, <1>2, Zenon

(* Point i of a client that has followed the seat to a.                    *)
PointLag(i, a) ==
    /\ a.batch[i] = "nothing" =>
         /\ i \notin DOMAIN pending_touches /\ i \notin pending_up_touches
         /\ i \in DOMAIN current_touches <=> i \in DOMAIN a.touches
         /\ i \in DOMAIN a.touches => current_touches[i] = a.touches[i]
    /\ a.batch[i] = "down" =>
         /\ i \in DOMAIN pending_touches /\ i \notin pending_up_touches
         /\ i \notin DOMAIN current_touches /\ i \in DOMAIN a.touches
         /\ pending_touches[i] = a.touches[i]
    /\ a.batch[i] = "motion" =>
         /\ i \in DOMAIN pending_touches /\ i \notin pending_up_touches
         /\ i \in DOMAIN current_touches /\ i \in DOMAIN a.touches
         /\ pending_touches[i] = a.touches[i]
         /\ current_touches[i].surface = a.touches[i].surface
    /\ a.batch[i] = "up" =>
         /\ i \notin DOMAIN pending_touches /\ i \in pending_up_touches
         /\ i \in DOMAIN current_touches /\ i \notin DOMAIN a.touches

TouchLag(a) == \A i \in Ids : PointLag(i, a)

SeatTouches == [touches |-> touches, batch |-> touchBatch]

TouchFollows ==
    /\ touchWire \in Seq(TouchEvents) /\ SeatTouches \in TouchNodes
    /\ \E a \in TouchNodes : Path(TouchSteps, touchWire, a, SeatTouches) /\ TouchLag(a)

TouchInv ==
    /\ current_touches \in TouchMaps /\ pending_touches \in TouchMaps
    /\ pending_up_touches \subseteq Ids /\ touchFailed = FALSE
    /\ TouchFollows

(* A seat without touches or events satisfies the invariant.              *)
LEMMA TouchInit == Touch!Init => TouchInv
<1> SUFFICES ASSUME Touch!Init PROVE TouchInv
  BY Zenon
<1> USE DEF Touch!Init
<1>1. << >> \in TouchMaps /\ DOMAIN << >> = {}
  <2>1. DOMAIN << >> = {} /\ << >> = [i \in DOMAIN << >> |-> << >>[i]]
    OBVIOUS
  <2> QED
    BY <2>1, TouchMap, Zenon
<1>2. SeatTouches \in TouchNodes /\ SeatTouches.touches = << >>
      /\ SeatTouches.batch = [i \in Ids |-> "nothing"]
  BY <1>1, Zenon DEF SeatTouches, TouchNodes, TouchKinds
<1>3. TouchLag(SeatTouches)
  BY <1>1, <1>2, Zenon DEF TouchLag, PointLag
<1>4. Path(TouchSteps, touchWire, SeatTouches, SeatTouches)
  BY PathEmpty, Zenon
<1> QED
  BY <1>1, <1>2, <1>3, <1>4 DEF TouchInv, TouchFollows

(* An event the seat sends keeps the client on a path to the seat.        *)
LEMMA TouchPosts ==
  ASSUME TouchInv, NEW e \in TouchEvents, touchWire' = Append(touchWire, e),
         UNCHANGED <<current_touches, pending_touches, pending_up_touches, touchFailed>>,
         SeatTouches' \in TouchNodes, TouchStep(SeatTouches, e, SeatTouches')
  PROVE  TouchInv'
<1>1. PICK a \in TouchNodes : Path(TouchSteps, touchWire, a, SeatTouches) /\ TouchLag(a)
  BY Zenon DEF TouchInv, TouchFollows
<1>2. <<SeatTouches, e, SeatTouches'>> \in TouchSteps
  BY TouchStepsDef, Zenon DEF TouchInv, TouchFollows
<1>3. Path(TouchSteps, Append(touchWire, e), a, SeatTouches')
  BY <1>1, <1>2, PathAppend, Zenon DEF TouchInv, TouchFollows
<1>4. TouchLag(a)'
  BY <1>1, Zenon DEF TouchLag, PointLag
<1>5. touchWire' \in Seq(TouchEvents)
  BY DEF TouchInv, TouchFollows
<1>6. TouchFollows'
  BY <1>1, <1>3, <1>4, <1>5, Zenon DEF TouchFollows
<1> QED
  BY <1>6, Zenon DEF TouchInv

(* The event a handler takes is the step the client is about to make.     *)
LEMMA TouchTakes ==
  ASSUME TouchFollows, touchWire # <<>>
  PROVE  /\ Head(touchWire) \in TouchEvents /\ Tail(touchWire) \in Seq(TouchEvents)
         /\ \E a, b \in TouchNodes : /\ TouchStep(a, Head(touchWire), b) /\ TouchLag(a)
                                     /\ Path(TouchSteps, Tail(touchWire), b, SeatTouches)
<1>1. PICK a \in TouchNodes : Path(TouchSteps, touchWire, a, SeatTouches) /\ TouchLag(a)
  BY Zenon DEF TouchFollows
<1>2. PICK b : <<a, Head(touchWire), b>> \in TouchSteps
           /\ Path(TouchSteps, Tail(touchWire), b, SeatTouches)
  BY <1>1, PathTail, Zenon DEF TouchFollows
<1>3. b \in TouchNodes /\ TouchStep(a, Head(touchWire), b)
  BY <1>2, TouchStepsDef, Zenon
<1>4. Head(touchWire) \in TouchEvents /\ Tail(touchWire) \in Seq(TouchEvents)
  BY DEF TouchFollows
<1> QED
  BY <1>1, <1>2, <1>3, <1>4, Zenon

(* After the event the client is one step further on that path.           *)
LEMMA TouchTaken ==
  ASSUME TouchFollows, touchWire # <<>>, touchWire' = Tail(touchWire), UNCHANGED SeatTouches,
         NEW b \in TouchNodes, Path(TouchSteps, Tail(touchWire), b, SeatTouches), TouchLag(b)'
  PROVE  TouchFollows'
<1>1. touchWire' \in Seq(TouchEvents)
  BY DEF TouchFollows
<1> QED
  BY <1>1, Zenon DEF TouchFollows

(* A map with a point put in, moved or taken away.                         *)
LEMMA WithPoint ==
  ASSUME NEW f \in TouchMaps, NEW i \in Ids, NEW t \in Touch!Locations
  PROVE  /\ Touch!With(f, i, t) \in TouchMaps
         /\ DOMAIN Touch!With(f, i, t) = DOMAIN f \cup {i} /\ Touch!With(f, i, t)[i] = t
         /\ \A j \in DOMAIN f : j # i => Touch!With(f, i, t)[j] = f[j]
<1> DEFINE g == Touch!With(f, i, t)
<1>1. /\ DOMAIN g = DOMAIN f \cup {i} /\ g[i] = t /\ g = [j \in DOMAIN g |-> g[j]]
      /\ \A j \in DOMAIN f : j # i => g[j] = f[j]
  BY Zenon DEF Touch!With
<1> HIDE DEF g
<1>2. DOMAIN f \subseteq Ids /\ \A j \in DOMAIN f : f[j] \in Touch!Locations
  BY TouchMap, Zenon
<1>3. DOMAIN g \subseteq Ids /\ \A j \in DOMAIN g : g[j] \in Touch!Locations
  BY <1>1, <1>2, Zenon
<1>4. g \in TouchMaps
  BY <1>1, <1>3, TouchMap, Zenon
<1> QED
  BY <1>1, <1>4, Zenon DEF g

(* The touches of the seat after one of them moved.                       *)
LEMMA MovedPoint ==
  ASSUME NEW f \in TouchMaps, NEW i \in DOMAIN f, NEW p \in Places
  PROVE  LET g == [f EXCEPT ![i] = Touch!SurfaceLocation(@.surface, p)]
         IN /\ g \in TouchMaps /\ DOMAIN g = DOMAIN f
            /\ g[i] = Touch!SurfaceLocation(f[i].surface, p)
            /\ \A j \in DOMAIN f : j # i => g[j] = f[j]
<1> DEFINE g == [f EXCEPT ![i] = Touch!SurfaceLocation(@.surface, p)]
<1>1. DOMAIN f \subseteq Ids /\ \A j \in DOMAIN f : f[j] \in Touch!Locations
  BY TouchMap, Zenon
<1>2. /\ DOMAIN g = DOMAIN f /\ g[i] = Touch!SurfaceLocation(f[i].surface, p)
      /\ g = [j \in DOMAIN g |-> g[j]]
      /\ \A j \in DOMAIN f : j # i => g[j] = f[j]
  BY Zenon
<1> HIDE DEF g
<1>3. g[i] \in Touch!Locations
  BY <1>1, <1>2 DEF Touch!SurfaceLocation, Touch!Locations
<1>4. DOMAIN g \subseteq Ids /\ \A j \in DOMAIN g : g[j] \in Touch!Locations
  BY <1>1, <1>2, <1>3, Zenon
<1>5. g \in TouchMaps
  BY <1>2, <1>4, TouchMap, Zenon
<1> QED
  BY <1>2, <1>5, Zenon DEF g

(* The touches of the seat after one of them ended.                       *)
LEMMA WithoutPoint ==
  ASSUME NEW f \in TouchMaps, NEW i
  PROVE  LET g == [j \in DOMAIN f \ {i} |-> f[j]]
         IN /\ g \in TouchMaps /\ DOMAIN g = DOMAIN f \ {i}
            /\ \A j \in DOMAIN f : j # i => g[j] = f[j]
<1> DEFINE g == [j \in DOMAIN f \ {i} |-> f[j]]
<1>1. DOMAIN f \subseteq Ids /\ \A j \in DOMAIN f : f[j] \in Touch!Locations
  BY TouchMap, Zenon
<1>2. /\ DOMAIN g = DOMAIN f \ {i} /\ g = [j \in DOMAIN g |-> g[j]]
      /\ \A j \in DOMAIN f : j # i => g[j] = f[j]
  BY Zenon
<1> HIDE DEF g
<1>3. DOMAIN g \subseteq Ids /\ \A j \in DOMAIN g : g[j] \in Touch!Locations
  BY <1>1, <1>2, Zenon
<1>4. g \in TouchMaps
  BY <1>2, <1>3, TouchMap, Zenon
<1> QED
  BY <1>2, <1>4, Zenon DEF g

(* The two parts of the touch state of the seat.                          *)
LEMMA SeatTouchParts ==
  ASSUME TouchInv
  PROVE  touches \in TouchMaps /\ touchBatch \in [Ids -> TouchKinds]
         /\ SeatTouches.touches = touches /\ SeatTouches.batch = touchBatch
BY DEF TouchInv, TouchFollows, TouchNodes, SeatTouches

(* The client has one wl_touch, and no frame had several kinds of events   *)
(* for a point.                                                            *)
TouchPlain == touchDoubled = "no" /\ touchCrossed = 0

(* An event of a frame that stays plain.                                   *)
LEMMA PlainTouch ==
  ASSUME TouchPlain, TouchPlain', NEW i, NEW e, Touch!InFrame(i, e)
  PROVE  Touch!Alone(i, e)
BY DEF TouchPlain, Touch!InFrame

(* What the one object of the client is sent.                              *)
LEMMA PlainTouchPost ==
  ASSUME TouchPlain, NEW e, Touch!Post(e)
  PROVE  touchWire' = Append(touchWire, e)
<1>1. ~(touchDoubled = "events")
  BY DEF TouchPlain
<1> QED
  BY <1>1, Zenon DEF Touch!Post

(* The seat sends wl_touch.down.                                          *)
LEMMA SeatTouchDown ==
  ASSUME TouchInv, TouchPlain, TouchPlain', NEW i \in Ids, NEW s \in Surfaces, NEW p \in Places, Touch!SendDown(i, s, p)
  PROVE  TouchInv'
<1> DEFINE e == [type |-> "down", id |-> i, surface |-> s, coordinates |-> p]
<1>1. /\ i \notin DOMAIN touches /\ touchBatch' = [touchBatch EXCEPT ![i] = "down"]
      /\ touches' = Touch!With(touches, i, Touch!SurfaceLocation(s, p))
      /\ touchWire' = Append(touchWire, e)
      /\ UNCHANGED <<current_touches, pending_touches, pending_up_touches, touchFailed>>
  BY PlainTouchPost, Zenon DEF Touch!SendDown, Touch!InFrame, Touch!clientVars
<1>2. touchBatch[i] = "nothing"
  <2>1. "down" # "motion"
    OBVIOUS
  <2> QED
    BY <2>1, PlainTouch, Zenon DEF Touch!SendDown, Touch!Alone
<1>3. e \in TouchEvents /\ e.type = "down" /\ e.id = i /\ e.surface = s /\ e.coordinates = p
  BY Zenon DEF TouchEvents
<1>4. Touch!SurfaceLocation(s, p) \in Touch!Locations
  BY Zenon DEF Touch!SurfaceLocation, Touch!Locations
<1>5. touches' \in TouchMaps
  BY <1>1, <1>4, WithPoint, SeatTouchParts, Zenon
<1> HIDE DEF e
<1>6. SeatTouches' \in TouchNodes /\ SeatTouches'.touches = touches'
      /\ SeatTouches'.batch = touchBatch'
  BY <1>1, <1>5, SeatTouchParts, Zenon DEF TouchNodes, SeatTouches, TouchKinds
<1>7. TouchStep(SeatTouches, e, SeatTouches')
  BY <1>1, <1>2, <1>3, <1>6, SeatTouchParts, Zenon DEF TouchStep
<1> QED
  BY <1>1, <1>3, <1>6, <1>7, TouchPosts, Zenon

(* The seat sends wl_touch.motion.                                        *)
LEMMA SeatTouchMotion ==
  ASSUME TouchInv, TouchPlain, TouchPlain', NEW i \in Ids, NEW p \in Places, Touch!SendMotion(i, p)
  PROVE  TouchInv'
<1> DEFINE e == [type |-> "motion", id |-> i, coordinates |-> p]
<1>1. /\ i \in DOMAIN touches /\ touchBatch' = [touchBatch EXCEPT ![i] = "motion"]
      /\ touches' = [touches EXCEPT ![i] = Touch!SurfaceLocation(@.surface, p)]
      /\ touchWire' = Append(touchWire, e)
      /\ UNCHANGED <<current_touches, pending_touches, pending_up_touches, touchFailed>>
  BY PlainTouchPost, Zenon DEF Touch!SendMotion, Touch!InFrame, Touch!clientVars
<1>2. touchBatch[i] \in {"nothing", "motion"}
  BY PlainTouch, Zenon DEF Touch!SendMotion, Touch!Alone
<1>3. e \in TouchEvents /\ e.type = "motion" /\ e.id = i /\ e.coordinates = p
  BY Zenon DEF TouchEvents
<1>5. touches' \in TouchMaps
  BY <1>1, MovedPoint, SeatTouchParts, Zenon
<1> HIDE DEF e
<1>6. SeatTouches' \in TouchNodes /\ SeatTouches'.touches = touches'
      /\ SeatTouches'.batch = touchBatch'
  BY <1>1, <1>5, SeatTouchParts, Zenon DEF TouchNodes, SeatTouches, TouchKinds
<1>7. TouchStep(SeatTouches, e, SeatTouches')
  BY <1>1, <1>2, <1>3, <1>6, SeatTouchParts, Zenon DEF TouchStep
<1> QED
  BY <1>1, <1>3, <1>6, <1>7, TouchPosts, Zenon

(* The seat sends wl_touch.up.                                            *)
LEMMA SeatTouchUp ==
  ASSUME TouchInv, TouchPlain, TouchPlain', NEW i \in Ids, Touch!SendUp(i)
  PROVE  TouchInv'
<1> DEFINE e == [type |-> "up", id |-> i]
<1>1. /\ i \in DOMAIN touches /\ touchBatch' = [touchBatch EXCEPT ![i] = "up"]
      /\ touches' = [j \in DOMAIN touches \ {i} |-> touches[j]]
      /\ touchWire' = Append(touchWire, e)
      /\ UNCHANGED <<current_touches, pending_touches, pending_up_touches, touchFailed>>
  BY PlainTouchPost, Zenon DEF Touch!SendUp, Touch!InFrame, Touch!clientVars
<1>2. touchBatch[i] = "nothing"
  <2>1. "up" # "motion"
    OBVIOUS
  <2> QED
    BY <2>1, PlainTouch, Zenon DEF Touch!SendUp, Touch!Alone
<1>3. e \in TouchEvents /\ e.type = "up" /\ e.id = i
  BY Zenon DEF TouchEvents
<1>5. touches' \in TouchMaps
  BY <1>1, WithoutPoint, SeatTouchParts, Zenon
<1> HIDE DEF e
<1>6. SeatTouches' \in TouchNodes /\ SeatTouches'.touches = touches'
      /\ SeatTouches'.batch = touchBatch'
  BY <1>1, <1>5, SeatTouchParts, Zenon DEF TouchNodes, SeatTouches, TouchKinds
<1>7. TouchStep(SeatTouches, e, SeatTouches')
  BY <1>1, <1>2, <1>3, <1>6, SeatTouchParts, Zenon DEF TouchStep
<1> QED
  BY <1>1, <1>3, <1>6, <1>7, TouchPosts, Zenon

(* The seat sends wl_touch.frame, which ends the group of events.         *)
LEMMA SeatTouchFrame ==
  ASSUME TouchInv, TouchPlain, Touch!SendFrame
  PROVE  TouchInv'
<1> DEFINE e == [type |-> "frame"]
<1>1. /\ touchBatch' = [i \in Ids |-> "nothing"] /\ touches' = touches
      /\ touchWire' = Append(touchWire, e)
      /\ UNCHANGED <<current_touches, pending_touches, pending_up_touches, touchFailed>>
  BY DEF Touch!SendFrame, Touch!frame, Touch!clientVars, TouchPlain
<1>3. e \in TouchEvents /\ e.type = "frame"
  BY Zenon DEF TouchEvents
<1> HIDE DEF e
<1>6. SeatTouches' \in TouchNodes /\ SeatTouches'.touches = touches'
      /\ SeatTouches'.batch = touchBatch'
  BY <1>1, SeatTouchParts, Zenon DEF TouchNodes, SeatTouches, TouchKinds
<1>7. TouchStep(SeatTouches, e, SeatTouches')
  BY <1>1, <1>3, <1>6, SeatTouchParts, Zenon DEF TouchStep
<1> QED
  BY <1>1, <1>3, <1>6, <1>7, TouchPosts, Zenon

(* touch_down: the touch is pending at the place of the event.            *)
LEMMA ClientTouchDown ==
  ASSUME TouchInv, Touch!touch_down
  PROVE  TouchInv'
<1>0. touchWire # <<>> /\ touchWire' = Tail(touchWire) /\ UNCHANGED SeatTouches
      /\ Head(touchWire).type = "down"
  BY Zenon DEF Touch!touch_down, Touch!Dispatch, Touch!seatVars, SeatTouches
<1>1. PICK a, b \in TouchNodes : /\ TouchStep(a, Head(touchWire), b) /\ TouchLag(a)
                                 /\ Path(TouchSteps, Tail(touchWire), b, SeatTouches)
  BY <1>0, TouchTakes, Zenon DEF TouchInv
<1>2. /\ a.touches \in TouchMaps /\ a.batch \in [Ids -> TouchKinds]
      /\ b.touches \in TouchMaps /\ b.batch \in [Ids -> TouchKinds]
  BY Zenon DEF TouchNodes
<1>3. PICK i \in Ids : /\ i = Head(touchWire).id /\ Head(touchWire).surface \in Surfaces
                       /\ Head(touchWire).coordinates \in Places
  BY <1>0, TouchTakes, Zenon DEF TouchInv, TouchEvents
<1>4. PICK t \in Touch!Locations :
             t = Touch!SurfaceLocation(Head(touchWire).surface, Head(touchWire).coordinates)
  BY <1>3, Zenon DEF Touch!SurfaceLocation, Touch!Locations
<1>5. /\ i \notin DOMAIN a.touches /\ a.batch[i] = "nothing"
      /\ b.touches = Touch!With(a.touches, i, t) /\ b.batch = [a.batch EXCEPT ![i] = "down"]
  BY <1>0, <1>1, <1>3, <1>4, Zenon DEF TouchStep
<1>6. PointLag(i, a) /\ i \notin DOMAIN current_touches
  BY <1>1, <1>5, Zenon DEF TouchLag, PointLag
<1>7. /\ pending_touches' = Touch!With(pending_touches, i, t)
      /\ UNCHANGED <<current_touches, pending_up_touches, touchFailed>>
  BY <1>3, <1>4, <1>6, Zenon DEF Touch!touch_down
<1>8. /\ pending_touches' \in TouchMaps /\ DOMAIN pending_touches' = DOMAIN pending_touches \cup {i}
      /\ pending_touches'[i] = t
      /\ \A j \in DOMAIN pending_touches : j # i => pending_touches'[j] = pending_touches[j]
  BY <1>7, WithPoint, ZenonT(30) DEF TouchInv
<1>11. /\ DOMAIN b.touches = DOMAIN a.touches \cup {i} /\ b.touches[i] = t
       /\ \A j \in DOMAIN a.touches : j # i => b.touches[j] = a.touches[j]
  BY <1>2, <1>5, WithPoint
<1>9. current_touches' \in TouchMaps /\ pending_touches' \in TouchMaps
      /\ pending_up_touches' \subseteq Ids /\ touchFailed' = FALSE
  BY <1>7, <1>8, Zenon DEF TouchInv
<1>10. TouchLag(b)'
  <2>1. b.batch[i] = "down" /\ \A j \in Ids : j # i => b.batch[j] = a.batch[j]
    BY <1>2, <1>5, Zenon
  <2>2. PointLag(i, b)'
    BY <2>1, <1>6, <1>5, <1>7, <1>8, <1>11, Zenon DEF PointLag
  <2>3. ASSUME NEW j \in Ids, j # i PROVE PointLag(j, b)'
    <3>1. PointLag(j, a) /\ b.batch[j] = a.batch[j]
      BY <1>1, <2>1, <2>3, Zenon DEF TouchLag
    <3> QED
      BY <3>1, <2>3, <1>7, <1>8, <1>11, Zenon DEF PointLag
  <2> QED
    BY <2>2, <2>3, Zenon DEF TouchLag
<1>20. TouchFollows'
  BY <1>0, <1>1, <1>10, TouchTaken, Zenon DEF TouchInv
<1> QED
  BY <1>20, <1>9, Zenon DEF TouchInv

(* touch_motion: the touch, current or pending, is pending at the new     *)
(* place.                                                                 *)
LEMMA ClientTouchMotion ==
  ASSUME TouchInv, Touch!touch_motion
  PROVE  TouchInv'
<1>0. touchWire # <<>> /\ touchWire' = Tail(touchWire) /\ UNCHANGED SeatTouches
      /\ Head(touchWire).type = "motion"
  BY Zenon DEF Touch!touch_motion, Touch!Dispatch, Touch!seatVars, SeatTouches
<1>1. PICK a, b \in TouchNodes : /\ TouchStep(a, Head(touchWire), b) /\ TouchLag(a)
                                 /\ Path(TouchSteps, Tail(touchWire), b, SeatTouches)
  BY <1>0, TouchTakes, Zenon DEF TouchInv
<1>2. /\ a.touches \in TouchMaps /\ a.batch \in [Ids -> TouchKinds]
      /\ b.touches \in TouchMaps /\ b.batch \in [Ids -> TouchKinds]
  BY Zenon DEF TouchNodes
<1>3. PICK i \in Ids : i = Head(touchWire).id /\ Head(touchWire).coordinates \in Places
  BY <1>0, TouchTakes, Zenon DEF TouchInv, TouchEvents
<1>4. /\ i \in DOMAIN a.touches /\ a.batch[i] \in {"nothing", "motion"}
      /\ b.touches = [a.touches EXCEPT ![i] = Touch!SurfaceLocation(@.surface, Head(touchWire).coordinates)]
      /\ b.batch = [a.batch EXCEPT ![i] = "motion"]
  BY <1>0, <1>1, <1>3, Zenon DEF TouchStep
<1>5. PointLag(i, a) /\ i \in DOMAIN current_touches /\ i \notin pending_up_touches
      /\ current_touches[i].surface = a.touches[i].surface
  BY <1>1, <1>4, Zenon DEF TouchLag, PointLag
<1>6. PICK t \in Touch!Locations :
        t = Touch!SurfaceLocation(current_touches[i].surface, Head(touchWire).coordinates)
  <2>1. current_touches[i] \in Touch!Locations
    BY <1>5, TouchMap, Zenon DEF TouchInv
  <2> QED
    BY <2>1, <1>3, Zenon DEF Touch!SurfaceLocation, Touch!Locations
<1>7. /\ pending_touches' = Touch!With(pending_touches, i, t)
      /\ UNCHANGED <<current_touches, pending_up_touches, touchFailed>>
  BY <1>3, <1>5, <1>6, Zenon DEF Touch!touch_motion
<1>8. /\ pending_touches' \in TouchMaps /\ DOMAIN pending_touches' = DOMAIN pending_touches \cup {i}
      /\ pending_touches'[i] = t
         /\ \A j \in DOMAIN pending_touches : j # i => pending_touches'[j] = pending_touches[j]
  BY <1>7, WithPoint, ZenonT(30) DEF TouchInv
<1>11. /\ DOMAIN b.touches = DOMAIN a.touches /\ b.touches[i] = t
       /\ \A j \in DOMAIN a.touches : j # i => b.touches[j] = a.touches[j]
  <2>1. PICK q \in Places : q = Head(touchWire).coordinates
    BY <1>3, Zenon
  <2>2. /\ b.touches = [a.touches EXCEPT ![i] = Touch!SurfaceLocation(@.surface, q)]
        /\ t = Touch!SurfaceLocation(a.touches[i].surface, q)
    BY <1>4, <1>5, <1>6, <2>1, Zenon
  <2> QED
    BY <1>2, <1>4, <2>2, MovedPoint, Zenon
<1>9. current_touches' \in TouchMaps /\ pending_touches' \in TouchMaps
      /\ pending_up_touches' \subseteq Ids /\ touchFailed' = FALSE
  BY <1>7, <1>8, Zenon DEF TouchInv
<1>12. t.surface = current_touches[i].surface
  BY <1>6, Zenon DEF Touch!SurfaceLocation
<1>10. TouchLag(b)'
  <2>1. b.batch[i] = "motion" /\ \A j \in Ids : j # i => b.batch[j] = a.batch[j]
    BY <1>2, <1>4, Zenon
  <2>2. PointLag(i, b)'
    BY <2>1, <1>5, <1>4, <1>7, <1>8, <1>11, <1>12, Zenon DEF PointLag
  <2>3. ASSUME NEW j \in Ids, j # i PROVE PointLag(j, b)'
    <3>1. PointLag(j, a) /\ b.batch[j] = a.batch[j]
      BY <1>1, <2>1, <2>3, Zenon DEF TouchLag
    <3> QED
      BY <3>1, <2>3, <1>7, <1>8, <1>11, Zenon DEF PointLag
  <2> QED
    BY <2>2, <2>3, Zenon DEF TouchLag
<1>20. TouchFollows'
  BY <1>0, <1>1, <1>10, TouchTaken, Zenon DEF TouchInv
<1> QED
  BY <1>20, <1>9, Zenon DEF TouchInv

(* touch_up: the touch is pending to be removed.                          *)
LEMMA ClientTouchUp ==
  ASSUME TouchInv, Touch!touch_up
  PROVE  TouchInv'
<1>0. touchWire # <<>> /\ touchWire' = Tail(touchWire) /\ UNCHANGED SeatTouches
      /\ Head(touchWire).type = "up"
  BY Zenon DEF Touch!touch_up, Touch!Dispatch, Touch!seatVars, SeatTouches
<1>1. PICK a, b \in TouchNodes : /\ TouchStep(a, Head(touchWire), b) /\ TouchLag(a)
                                 /\ Path(TouchSteps, Tail(touchWire), b, SeatTouches)
  BY <1>0, TouchTakes, Zenon DEF TouchInv
<1>2. /\ a.touches \in TouchMaps /\ a.batch \in [Ids -> TouchKinds]
      /\ b.touches \in TouchMaps /\ b.batch \in [Ids -> TouchKinds]
  BY Zenon DEF TouchNodes
<1>3. PICK i \in Ids : i = Head(touchWire).id
  BY <1>0, TouchTakes, Zenon DEF TouchInv, TouchEvents
<1>4. /\ i \in DOMAIN a.touches /\ a.batch[i] = "nothing"
      /\ b.touches = [j \in DOMAIN a.touches \ {i} |-> a.touches[j]]
      /\ b.batch = [a.batch EXCEPT ![i] = "up"]
  BY <1>0, <1>1, <1>3, Zenon DEF TouchStep
<1>5. PointLag(i, a) /\ i \in DOMAIN current_touches
  BY <1>1, <1>4, Zenon DEF TouchLag, PointLag
<1>7. /\ pending_up_touches' = pending_up_touches \cup {i}
      /\ UNCHANGED <<current_touches, pending_touches, touchFailed>>
  BY <1>3, <1>5, Zenon DEF Touch!touch_up
<1>11. /\ DOMAIN b.touches = DOMAIN a.touches \ {i}
       /\ \A j \in DOMAIN a.touches : j # i => b.touches[j] = a.touches[j]
  BY <1>2, <1>4, WithoutPoint, Zenon
<1>9. current_touches' \in TouchMaps /\ pending_touches' \in TouchMaps
      /\ pending_up_touches' \subseteq Ids /\ touchFailed' = FALSE
  BY <1>7, Zenon DEF TouchInv
<1>10. TouchLag(b)'
  <2>1. b.batch[i] = "up" /\ \A j \in Ids : j # i => b.batch[j] = a.batch[j]
    BY <1>2, <1>4, Zenon
  <2>2. PointLag(i, b)'
    BY <2>1, <1>5, <1>4, <1>7, <1>11, Zenon DEF PointLag
  <2>3. ASSUME NEW j \in Ids, j # i PROVE PointLag(j, b)'
    <3>1. PointLag(j, a) /\ b.batch[j] = a.batch[j]
      BY <1>1, <2>1, <2>3, Zenon DEF TouchLag
    <3> QED
      BY <3>1, <2>3, <1>7, <1>11, Zenon DEF PointLag
  <2> QED
    BY <2>2, <2>3, Zenon DEF TouchLag
<1>20. TouchFollows'
  BY <1>0, <1>1, <1>10, TouchTaken, Zenon DEF TouchInv
<1> QED
  BY <1>20, <1>9, Zenon DEF TouchInv

(* touch_frame: the pending touches become current and the ended ones are *)
(* gone.                                                                  *)
LEMMA ClientTouchFrame ==
  ASSUME TouchInv, Touch!touch_frame
  PROVE  TouchInv'
<1>0. touchWire # <<>> /\ touchWire' = Tail(touchWire) /\ UNCHANGED SeatTouches
      /\ Head(touchWire).type = "frame"
  BY Zenon DEF Touch!touch_frame, Touch!Dispatch, Touch!seatVars, SeatTouches
<1>1. PICK a, b \in TouchNodes : /\ TouchStep(a, Head(touchWire), b) /\ TouchLag(a)
                                 /\ Path(TouchSteps, Tail(touchWire), b, SeatTouches)
  BY <1>0, TouchTakes, Zenon DEF TouchInv
<1>2. /\ a.touches \in TouchMaps /\ a.batch \in [Ids -> TouchKinds]
      /\ b.touches \in TouchMaps /\ b.batch \in [Ids -> TouchKinds]
  BY Zenon DEF TouchNodes
<1>3. b.touches = a.touches /\ b.batch = [i \in Ids |-> "nothing"]
  BY <1>0, <1>1, Zenon DEF TouchStep
<1>4. /\ current_touches' =
             [i \in DOMAIN pending_touches \cup (DOMAIN current_touches \ pending_up_touches) |->
                 IF i \in DOMAIN pending_touches THEN pending_touches[i] ELSE current_touches[i]]
      /\ pending_up_touches' = {} /\ pending_touches' = << >> /\ UNCHANGED touchFailed
  BY Zenon DEF Touch!touch_frame
<1>5. /\ DOMAIN pending_touches' = {}
         /\ pending_touches' = [i \in DOMAIN pending_touches' |-> pending_touches'[i]]
  BY <1>4
<1>6. /\ DOMAIN current_touches' = DOMAIN pending_touches \cup (DOMAIN current_touches \ pending_up_touches)
      /\ \A i \in DOMAIN current_touches' :
            current_touches'[i] = IF i \in DOMAIN pending_touches THEN pending_touches[i] ELSE current_touches[i]
      /\ current_touches' = [i \in DOMAIN current_touches' |-> current_touches'[i]]
  BY <1>4, Zenon
<1>7. /\ DOMAIN current_touches \subseteq Ids /\ DOMAIN pending_touches \subseteq Ids
      /\ \A i \in DOMAIN current_touches : current_touches[i] \in Touch!Locations
      /\ \A i \in DOMAIN pending_touches : pending_touches[i] \in Touch!Locations
  BY TouchMap, Zenon DEF TouchInv
<1>8. DOMAIN current_touches' \subseteq Ids
      /\ \A i \in DOMAIN current_touches' : current_touches'[i] \in Touch!Locations
  BY <1>6, <1>7, Zenon
<1>9. current_touches' \in TouchMaps /\ pending_touches' \in TouchMaps
      /\ pending_up_touches' \subseteq Ids /\ touchFailed' = FALSE
  <2>1. current_touches' \in TouchMaps
    BY <1>6, <1>8, TouchMap, Zenon
  <2>2. pending_touches' \in TouchMaps
    BY <1>5, TouchMap, Zenon
  <2> QED
    BY <2>1, <2>2, <1>4, Zenon DEF TouchInv
<1>10. TouchLag(b)'
  <2>1. ASSUME NEW i \in Ids PROVE PointLag(i, b)'
    <3>1. PointLag(i, a) /\ b.batch[i] = "nothing" /\ a.batch[i] \in TouchKinds
      BY <1>1, <1>2, <1>3, Zenon DEF TouchLag
    <3> QED
      BY <3>1, <1>3, <1>4, <1>5, <1>6, Zenon DEF PointLag, TouchKinds
  <2> QED
    BY <2>1, Zenon DEF TouchLag
<1>20. TouchFollows'
  BY <1>0, <1>1, <1>10, TouchTaken, Zenon DEF TouchInv
<1> QED
  BY <1>20, <1>9, Zenon DEF TouchInv

(* Every step of the seat and of the handlers keeps the invariant.        *)
LEMMA TouchNext ==
  ASSUME TouchInv, TouchPlain, TouchPlain', [Touch!Next]_touchVars
  PROVE  TouchInv'
<1>0. ~Touch!GetTouch
  BY DEF Touch!GetTouch, TouchPlain
<1>1. CASE Touch!Next
  BY <1>0, <1>1, SeatTouchDown, SeatTouchMotion, SeatTouchUp, SeatTouchFrame, ClientTouchDown,
     ClientTouchUp,
     ClientTouchMotion, ClientTouchFrame, Zenon DEF Touch!Next
<1>2. CASE UNCHANGED touchVars
  <2>1. UNCHANGED SeatTouches /\ UNCHANGED <<touchWire, current_touches, pending_touches,
                                             pending_up_touches, touchFailed>>
    BY <1>2, Zenon DEF SeatTouches, touchVars
  <2>2. PICK a \in TouchNodes : Path(TouchSteps, touchWire, a, SeatTouches) /\ TouchLag(a)
    BY Zenon DEF TouchInv, TouchFollows
  <2>3. TouchLag(a)'
    BY <2>1, <2>2, Zenon DEF TouchLag, PointLag
  <2>4. TouchFollows'
    BY <2>1, <2>2, <2>3, Zenon DEF TouchInv, TouchFollows
  <2> QED
    BY <2>1, <2>4, Zenon DEF TouchInv
<1> QED
  BY <1>1, <1>2, Zenon

(* What was not plain stays so.                                            *)
LEMMA TouchStaysPlain ==
  ASSUME touchCrossed \in Nat, [Touch!Next]_touchVars
  PROVE  touchCrossed' \in Nat /\ (TouchPlain' => TouchPlain)
<1>1. \/ UNCHANGED <<touchDoubled, touchCrossed>>
      \/ touchDoubled' \in {"events", "frames"} /\ UNCHANGED touchCrossed
      \/ \E i, e : Touch!InFrame(i, e) /\ UNCHANGED touchDoubled
  <2>1. CASE \/ \E i \in Ids, s \in Surfaces, p \in Places : Touch!SendDown(i, s, p)
             \/ \E i \in Ids, p \in Places : Touch!SendMotion(i, p)
             \/ \E i \in Ids : Touch!SendUp(i)
    BY <2>1, Zenon DEF Touch!SendDown, Touch!SendMotion, Touch!SendUp, Touch!Post
  <2>2. CASE Touch!SendFrame \/ Touch!GetTouch
    BY <2>2, Zenon DEF Touch!SendFrame, Touch!GetTouch
  <2>3. CASE Touch!touch_down \/ Touch!touch_up \/ Touch!touch_motion \/ Touch!touch_frame
    BY <2>3, Zenon DEF Touch!touch_down, Touch!touch_up, Touch!touch_motion, Touch!touch_frame,
       Touch!Dispatch, Touch!seatVars
  <2>4. CASE UNCHANGED touchVars
    BY <2>4, Zenon DEF touchVars
  <2> QED
    BY <2>1, <2>2, <2>3, <2>4, Zenon DEF Touch!Next
<1> QED
  BY <1>1 DEF TouchPlain, Touch!InFrame

(* The invariant gives what is promised of the touches.                   *)
LEMMA TouchCorrect ==
  ASSUME TouchInv
  PROVE  touchFailed = FALSE /\ Touch!FollowsSeat
<1>1. touchFailed = FALSE
  BY Zenon DEF TouchInv
<1>2. ASSUME touchWire = <<>>, Touch!Between
      PROVE  /\ current_touches = touches /\ ~Touch!touch_events_pending
             /\ \A i \in Ids : DOMAIN touches = {i} => Touch!touch_position = touches[i].coordinates
             /\ Touch!touched_window \in Surfaces =>
                  \E i \in DOMAIN touches : touches[i].surface = Touch!touched_window
  <2>1. PICK a \in TouchNodes : Path(TouchSteps, <<>>, a, SeatTouches) /\ TouchLag(a)
    BY <1>2, Zenon DEF TouchInv, TouchFollows
  <2>2. a = SeatTouches
    BY <2>1, PathEmpty, Zenon
  <2>3. a.touches = touches /\ a.batch = touchBatch /\ \A i \in Ids : touchBatch[i] = "nothing"
    BY <1>2, <2>2, SeatTouchParts, Zenon DEF Touch!Between
  <2>4. \A i \in Ids : /\ i \notin DOMAIN pending_touches /\ i \notin pending_up_touches
                       /\ i \in DOMAIN current_touches <=> i \in DOMAIN touches
                       /\ i \in DOMAIN touches => current_touches[i] = touches[i]
    BY <2>1, <2>3, Zenon DEF TouchLag, PointLag
  <2>5. /\ DOMAIN current_touches \subseteq Ids /\ DOMAIN pending_touches \subseteq Ids
        /\ DOMAIN touches \subseteq Ids /\ pending_up_touches \subseteq Ids
        /\ current_touches = [i \in DOMAIN current_touches |-> current_touches[i]]
        /\ touches = [i \in DOMAIN touches |-> touches[i]]
    BY TouchMap, SeatTouchParts, Zenon DEF TouchInv
  <2>6. current_touches = touches
    BY <2>4, <2>5, Zenon
  <2>7. ~Touch!touch_events_pending
    BY <2>4, <2>5, Zenon DEF Touch!touch_events_pending
  <2>8. ASSUME NEW i \in Ids, DOMAIN touches = {i} PROVE Touch!touch_position = touches[i].coordinates
    <3>1. (CHOOSE j \in {i} : TRUE) = i
      BY Zenon
    <3>2. {i} # {}
      BY Zenon
    <3> QED
      BY <2>6, <2>8, <3>1, <3>2, Zenon DEF Touch!touch_position
  <2>9. ASSUME Touch!touched_window \in Surfaces
        PROVE  \E i \in DOMAIN touches : touches[i].surface = Touch!touched_window
    <3> DEFINE on == { touches[i].surface : i \in DOMAIN touches }
    <3>1. "nullptr" \notin Surfaces /\ "Multiple surfaces have active touches" \notin Surfaces
      BY InputAssumption, Zenon
    <3>2. on # {} /\ Touch!touched_window = CHOOSE s \in on : TRUE
      BY <2>6, <2>9, <3>1, ZenonT(30) DEF Touch!touched_window
    <3>3. Touch!touched_window \in on
      BY <3>2, Zenon
    <3> QED
      BY <3>3, Zenon
  <2> QED
    BY <2>6, <2>7, <2>8, <2>9, Zenon
<1> QED
  BY <1>1, <1>2, Zenon DEF Touch!FollowsSeat

-----------------------------------------------------------------------------
(* The keyboard focus.                                                     *)
KeyboardNodes == KeyboardSurfaces \cup {Null}
KeyboardEvents ==
    [type : {"enter", "leave"}, surface : KeyboardSurfaces, serial : Nat]
    \cup [type : {"key"}, key : Keys, is_down : BOOLEAN, serial : Nat]

KeyboardStep(a, e, b) ==
    /\ e.type = "enter" => b = e.surface
    /\ e.type = "leave" => b = IF a = e.surface THEN Null ELSE a
    /\ e.type = "key" => b = a

KeyboardSteps ==
    { t \in KeyboardNodes \X KeyboardEvents \X KeyboardNodes : KeyboardStep(t[1], t[2], t[3]) }

(* The triples of KeyboardSteps are the steps of KeyboardStep.            *)
LEMMA KeyboardStepsDef ==
  \A a, e, b : <<a, e, b>> \in KeyboardSteps <=>
      a \in KeyboardNodes /\ e \in KeyboardEvents /\ b \in KeyboardNodes /\ KeyboardStep(a, e, b)
BY DEF KeyboardSteps

(* A client that has followed the focus to a knows it, of the surfaces it  *)
(* has.                                                                    *)
KeyboardLag(a) ==
    /\ a \in keyLive => keyboard_focused_surface = a
    /\ keyboard_focused_surface \in keyLive => keyboard_focused_surface = a

KeyboardSurfacesKnown ==
    /\ keyKnown \subseteq KeyboardSurfaces /\ keyLive \subseteq KeyboardSurfaces
    /\ keyKnown = keyLive \cup keyDestroys /\ keyLive \cap keyDestroys = {}
    /\ keyFocus \in keyKnown \cup {Null} /\ serial \in Nat

KeyboardFollows ==
    /\ keyWire \in Seq(KeyboardEvents)
    /\ \E a \in KeyboardNodes : Path(KeyboardSteps, keyWire, a, keyFocus) /\ KeyboardLag(a)

KeyboardInv == KeyboardSurfacesKnown /\ KeyboardFollows

(* A keyboard without focus or events satisfies the invariant.            *)
LEMMA KeyboardInit == Keyboard!Init => KeyboardInv
<1> SUFFICES ASSUME Keyboard!Init PROVE KeyboardInv
  BY Zenon
<1> USE DEF Keyboard!Init
<1>1. KeyboardSurfacesKnown
  BY Zenon DEF KeyboardSurfacesKnown
<1>2. KeyboardLag(Null) /\ Null \in KeyboardNodes
  BY Zenon DEF KeyboardLag, KeyboardNodes
<1>3. Path(KeyboardSteps, keyWire, Null, keyFocus)
  BY PathEmpty, Zenon
<1> QED
  BY <1>1, <1>2, <1>3 DEF KeyboardInv, KeyboardFollows

(* The events keyWire and then one or two others.                          *)
LEMMA KeyboardPosts ==
  ASSUME NEW a, NEW w \in Seq(KeyboardEvents), NEW y \in KeyboardNodes, NEW z \in KeyboardNodes,
         NEW e \in KeyboardEvents, Path(KeyboardSteps, w, a, y), KeyboardStep(y, e, z)
  PROVE  Append(w, e) \in Seq(KeyboardEvents) /\ Path(KeyboardSteps, Append(w, e), a, z)
<1>1. <<y, e, z>> \in KeyboardSteps
  BY KeyboardStepsDef, Zenon
<1>2. Path(KeyboardSteps, Append(w, e), a, z)
  BY <1>1, PathAppend, Zenon
<1>3. Append(w, e) \in Seq(KeyboardEvents)
  OBVIOUS
<1> QED
  BY <1>2, <1>3, Zenon

(* The events of the keyboard, and what each does to the focus of the     *)
(* client.                                                                *)
LEMMA KeyboardEvent ==
  ASSUME NEW s \in KeyboardSurfaces, NEW n \in Nat
  PROVE  /\ Keyboard!Enter(s, n) \in KeyboardEvents /\ Keyboard!Leave(s, n) \in KeyboardEvents
         /\ \A a, b : KeyboardStep(a, Keyboard!Enter(s, n), b) <=> b = s
         /\ \A a, b : KeyboardStep(a, Keyboard!Leave(s, n), b) <=> b = IF a = s THEN Null ELSE a
BY DEF Keyboard!Enter, Keyboard!Leave, KeyboardEvents, KeyboardStep

(* Two runs of events one after the other.                                 *)
LEMMA PathConcat ==
  ASSUME NEW E, NEW F, NEW w \in Seq(E), NEW v \in Seq(E), NEW a, NEW y, NEW z,
         Path(F, w, a, y), Path(F, v, y, z)
  PROVE  Path(F, w \o v, a, z)
<1>1. PICK S : /\ S[1] = a /\ S[Len(w) + 1] = y
               /\ \A k \in 1 .. Len(w) : <<S[k], w[k], S[k + 1]>> \in F
  BY Zenon DEF Path
<1>2. PICK T : /\ T[1] = y /\ T[Len(v) + 1] = z
               /\ \A k \in 1 .. Len(v) : <<T[k], v[k], T[k + 1]>> \in F
  BY Zenon DEF Path
<1>3. PICK n \in Nat : n = Len(w)
  OBVIOUS
<1>4. PICK m \in Nat : m = Len(v)
  OBVIOUS
<1>5. PICK R : R = [k \in 1 .. n + m + 1 |-> IF k <= n THEN S[k] ELSE T[k - n]]
  BY Zenon
<1>6. /\ Len(w \o v) = n + m
      /\ \A k \in 1 .. n + m : (w \o v)[k] = IF k <= n THEN w[k] ELSE v[k - n]
  BY <1>3, <1>4
<1>7. \A k \in 1 .. n + 1 : R[k] = S[k]
  <2>1. \A k \in 1 .. n : R[k] = S[k]
    BY <1>5
  <2>2. R[n + 1] = T[1]
    BY <1>5
  <2>3. \A k \in 1 .. n + 1 : k \in 1 .. n \/ k = n + 1
    OBVIOUS
  <2> QED
    BY <1>1, <1>2, <1>3, <2>1, <2>2, <2>3, Zenon
<1>8. \A k \in 1 .. m + 1 : R[n + k] = T[k]
  BY <1>2, <1>4, <1>5
<1>9. R[1] = a /\ R[n + m + 1] = z
  <2>1. 1 \in 1 .. n + 1 /\ m + 1 \in 1 .. m + 1 /\ n + (m + 1) = n + m + 1
    OBVIOUS
  <2> QED
    BY <1>1, <1>2, <1>4, <1>7, <1>8, <2>1
<1>10. ASSUME NEW k \in 1 .. n + m PROVE <<R[k], (w \o v)[k], R[k + 1]>> \in F
  <2>1. CASE k <= n
    <3>1. k \in 1 .. n + 1 /\ k + 1 \in 1 .. n + 1 /\ k \in 1 .. Len(w) /\ (w \o v)[k] = w[k]
      BY <1>3, <1>6, <2>1
    <3> QED
      BY <1>1, <1>7, <3>1
  <2>2. CASE ~(k <= n)
    <3>1. PICK j \in 1 .. m : k = n + j
      BY <2>2
    <3>2. j \in 1 .. m + 1 /\ j + 1 \in 1 .. m + 1 /\ k + 1 = n + (j + 1) /\ k - n = j
      BY <3>1
    <3>3. R[k] = T[j] /\ R[k + 1] = T[j + 1] /\ (w \o v)[k] = v[j]
      BY <1>6, <1>8, <2>2, <3>1, <3>2
    <3> QED
      BY <1>2, <1>4, <3>1, <3>3
  <2> QED
    BY <2>1, <2>2, Zenon
<1> QED
  BY <1>6, <1>9, <1>10 DEF Path

(* The events that take the focus from f to s, in any order and as often   *)
(* as they are sent: leaves of f, and enters of s if there is an s.        *)
Moving(v, f, s) ==
    /\ \A k \in 1 .. Len(v) : \/ v[k].type = "enter" /\ v[k].surface = s
                              \/ v[k].type = "leave" /\ v[k].surface = f
    /\ s # Null => \E k \in 1 .. Len(v) : v[k].type = "enter"
    /\ s = Null => Len(v) > 0

(* They lead the client from f to s.                                       *)
LEMMA FocusPath ==
  ASSUME NEW f \in KeyboardNodes, NEW s \in KeyboardNodes, f # s,
         NEW v \in Seq(KeyboardEvents), Moving(v, f, s)
  PROVE  Path(KeyboardSteps, v, f, s)
<1>1. PICK n \in Nat : n = Len(v)
  OBVIOUS
<1> DEFINE come(k) == \E j \in 1 .. n : j < k /\ v[j].type = "enter"
           T == [k \in 1 .. n + 1 |-> IF come(k) THEN s ELSE IF k = 1 THEN f ELSE Null]
<1>2. Null \in KeyboardNodes /\ Null \notin KeyboardSurfaces
  BY InputAssumption, Zenon DEF KeyboardNodes
<1>3. T[1] = f
  <2>1. 1 \in 1 .. n + 1 /\ ~come(1)
    OBVIOUS
  <2> QED
    BY <2>1
<1>4. ASSUME NEW k \in 1 .. n
      PROVE  /\ v[k] \in KeyboardEvents
             /\ v[k].type \in {"enter", "leave"} => v[k].surface \in KeyboardSurfaces
             /\ v[k].type = "enter" => v[k].surface = s
             /\ v[k].type # "enter" => v[k].type = "leave" /\ v[k].surface = f
  <2>1. v[k] \in KeyboardEvents
    BY <1>1
  <2>2. \A e \in KeyboardEvents : e.type \in {"enter", "leave"} => e.surface \in KeyboardSurfaces
    BY DEF KeyboardEvents
  <2>3. \/ v[k].type = "enter" /\ v[k].surface = s
        \/ v[k].type = "leave" /\ v[k].surface = f
    BY <1>1, Zenon DEF Moving
  <2>4. "leave" # "enter"
    OBVIOUS
  <2> QED
    BY <2>1, <2>2, <2>3, <2>4, Zenon
<1>5. T[n + 1] = s
  <2>1. n + 1 \in 1 .. n + 1 /\ (\A j \in 1 .. n : j < n + 1)
    OBVIOUS
  <2>2. come(n + 1) <=> \E j \in 1 .. n : v[j].type = "enter"
    BY <2>1, Zenon
  <2>3. CASE s # Null
    BY <1>1, <2>1, <2>2, <2>3, Zenon DEF Moving
  <2>4. CASE s = Null
    <3>1. ~come(n + 1)
      BY <1>2, <1>4, <2>2, <2>4, Zenon
    <3>2. n + 1 # 1
      BY <1>1, <2>4 DEF Moving
    <3> QED
      BY <2>1, <2>4, <3>1, <3>2, Zenon
  <2> QED
    BY <2>3, <2>4, Zenon
<1>6. ASSUME NEW k \in 1 .. n PROVE <<T[k], v[k], T[k + 1]>> \in KeyboardSteps
  <2>1. /\ k \in 1 .. n + 1 /\ k + 1 \in 1 .. n + 1 /\ k + 1 # 1 /\ k < k + 1
        /\ \A j \in 1 .. n : j < k + 1 <=> j < k \/ j = k
    OBVIOUS
  <2>2. come(k + 1) <=> come(k) \/ v[k].type = "enter"
    BY <2>1, Zenon
  <2>3. /\ T[k] = IF come(k) THEN s ELSE IF k = 1 THEN f ELSE Null
        /\ T[k + 1] = IF come(k + 1) THEN s ELSE Null
    BY <2>1, Zenon
  <2> HIDE DEF T
  <2>4. T[k] \in KeyboardNodes /\ T[k + 1] \in KeyboardNodes
    BY <1>2, <2>3, Zenon
  <2>5. "enter" # "leave" /\ "enter" # "key" /\ "leave" # "key"
    OBVIOUS
  <2>6. CASE v[k].type = "enter"
    <3>1. T[k + 1] = v[k].surface
      BY <1>4, <2>2, <2>3, <2>6, Zenon
    <3> QED
      BY <1>4, <2>4, <2>5, <2>6, <3>1, KeyboardStepsDef, Zenon DEF KeyboardStep
  <2>7. CASE v[k].type # "enter"
    <3>1. v[k].type = "leave" /\ v[k].surface = f /\ f # Null
      BY <1>2, <1>4, <2>7, Zenon
    <3>2. T[k + 1] = IF T[k] = f THEN Null ELSE T[k]
      BY <2>2, <2>3, <2>7, <3>1, Zenon
    <3>3. PICK x, y \in KeyboardNodes : x = T[k] /\ y = T[k + 1]
      BY <2>4, Zenon
    <3>4. PICK e \in KeyboardEvents : e = v[k]
      BY <1>4, Zenon
    <3>5. e.type = "leave" /\ y = IF x = e.surface THEN Null ELSE x
      BY <3>1, <3>2, <3>3, <3>4, Zenon
    <3>6. KeyboardStep(x, e, y)
      BY <2>5, <3>5, Zenon DEF KeyboardStep
    <3> QED
      BY <3>3, <3>4, <3>6, KeyboardStepsDef, Zenon
  <2> QED
    BY <2>6, <2>7, Zenon
<1> HIDE DEF T
<1> QED
  BY <1>1, <1>3, <1>5, <1>6, Zenon DEF Path

(* Keys leave the focus where it is.                                       *)
LEMMA KeyPath ==
  ASSUME NEW f \in KeyboardNodes, NEW v \in Seq(KeyboardEvents),
         \A k \in 1 .. Len(v) : v[k].type = "key"
  PROVE  Path(KeyboardSteps, v, f, f)
<1>1. PICK n \in Nat : n = Len(v)
  OBVIOUS
<1>2. PICK T : T = [k \in 1 .. n + 1 |-> f]
  BY Zenon
<1>3. T[1] = f /\ T[n + 1] = f
  BY <1>2
<1>4. ASSUME NEW k \in 1 .. n PROVE <<T[k], v[k], T[k + 1]>> \in KeyboardSteps
  <2>1. T[k] = f /\ T[k + 1] = f
    BY <1>2
  <2>2. v[k] \in KeyboardEvents /\ v[k].type = "key"
    BY <1>1
  <2>3. "key" # "enter" /\ "key" # "leave"
    OBVIOUS
  <2> QED
    BY <2>1, <2>2, <2>3, KeyboardStepsDef, Zenon DEF KeyboardStep
<1> QED
  BY <1>1, <1>3, <1>4, Zenon DEF Path

(* What is sent is what was to be sent, once or twice.                     *)
LEMMA SentAll ==
  ASSUME NEW es \in Seq(KeyboardEvents), keyWire \in Seq(KeyboardEvents), Keyboard!Post(es)
  PROVE  \E v \in Seq(KeyboardEvents) :
            /\ keyWire' = keyWire \o v
            /\ \A k \in 1 .. Len(v) : \E j \in 1 .. Len(es) : v[k] = es[j]
            /\ \A j \in 1 .. Len(es) : \E k \in 1 .. Len(v) : v[k] = es[j]
<1>1. PICK n \in Nat : n = Len(es)
  OBVIOUS
<1>2. PICK d : d = [k \in 1 .. 2 * n |-> es[(k + 1) \div 2]]
  BY Zenon
<1>3. PICK v : keyWire' = keyWire \o v /\ (v = es \/ v = es \o es \/ v = d)
  BY <1>1, <1>2, Zenon DEF Keyboard!Post
<1>4. CASE v = es
  <2>1. v \in Seq(KeyboardEvents)
    BY <1>4, Zenon
  <2> QED
    BY <1>3, <1>4, <2>1, Zenon
<1>5. CASE v = es \o es
  <2>1. v \in Seq(KeyboardEvents) /\ Len(v) = n + n
    BY <1>1, <1>5
  <2>2. \A j \in 1 .. n : v[j] = es[j] /\ v[n + j] = es[j] /\ j \in 1 .. n + n
    BY <1>1, <1>5
  <2>3. \A k \in 1 .. n + n : k \in 1 .. n \/ \E j \in 1 .. n : k = n + j
    <3>1. \A k \in 1 .. n + n : k \in 1 .. n \/ (k - n \in 1 .. n /\ k = n + (k - n))
      OBVIOUS
    <3> QED
      BY <3>1, Zenon
  <2>4. ASSUME NEW k \in 1 .. Len(v) PROVE \E j \in 1 .. Len(es) : v[k] = es[j]
    <3>1. k \in 1 .. n \/ \E j \in 1 .. n : k = n + j
      BY <2>1, <2>3, Zenon
    <3>2. CASE k \in 1 .. n
      BY <1>1, <2>2, <3>2, Zenon
    <3>3. CASE \E j \in 1 .. n : k = n + j
      BY <1>1, <2>2, <3>3, Zenon
    <3> QED
      BY <3>1, <3>2, <3>3, Zenon
  <2>5. \A j \in 1 .. Len(es) : \E k \in 1 .. Len(v) : v[k] = es[j]
    BY <1>1, <2>1, <2>2, Zenon
  <2> QED
    BY <1>3, <2>1, <2>4, <2>5, Zenon
<1>6. CASE v = d
  <2>1. \A k \in 1 .. 2 * n : (k + 1) \div 2 \in 1 .. n
    OBVIOUS
  <2>2. \A j \in 1 .. n : 2 * j - 1 \in 1 .. 2 * n /\ ((2 * j - 1) + 1) \div 2 = j
    OBVIOUS
  <2>3. \A k \in 1 .. 2 * n : v[k] = es[(k + 1) \div 2]
    BY <1>2, <1>6, Zenon
  <2>4. 2 * n \in Nat /\ \A j \in 1 .. n : es[j] \in KeyboardEvents
    BY <1>1
  <2>5. v \in [1 .. 2 * n -> KeyboardEvents]
    BY <1>2, <1>6, <2>1, <2>4, Zenon
  <2>6. v \in Seq(KeyboardEvents) /\ Len(v) = 2 * n
    BY <2>4, <2>5
  <2>7. \A j \in 1 .. n : \E k \in 1 .. 2 * n : v[k] = es[j]
    BY <2>2, <2>3, Zenon
  <2>8. \A k \in 1 .. 2 * n : \E j \in 1 .. n : v[k] = es[j]
    BY <2>1, <2>3, Zenon
  <2>9. \A k \in 1 .. Len(v) : \E j \in 1 .. Len(es) : v[k] = es[j]
    BY <1>1, <2>6, <2>8, Zenon
  <2>10. \A j \in 1 .. Len(es) : \E k \in 1 .. Len(v) : v[k] = es[j]
    BY <1>1, <2>6, <2>7, Zenon
  <2>11. v \in Seq(KeyboardEvents) /\ keyWire' = keyWire \o v
    BY <1>3, <2>6, Zenon
  <2> QED
    BY <2>9, <2>10, <2>11, Zenon
<1> QED
  BY <1>3, <1>4, <1>5, <1>6, Zenon

(* The events of the keyboard are sent to both objects.                    *)
LEMMA FocusPosts ==
  ASSUME KeyboardFollows, keyFocus \in KeyboardNodes, NEW s \in KeyboardNodes, s # keyFocus,
         NEW es \in Seq(KeyboardEvents), Moving(es, keyFocus, s), Keyboard!Post(es),
         keyFocus' = s, UNCHANGED <<keyLive, keyboard_focused_surface>>
  PROVE  KeyboardFollows'
<1>0. keyWire \in Seq(KeyboardEvents)
  BY Zenon DEF KeyboardFollows
<1>1. PICK v \in Seq(KeyboardEvents) :
         /\ keyWire' = keyWire \o v
         /\ \A k \in 1 .. Len(v) : \E j \in 1 .. Len(es) : v[k] = es[j]
         /\ \A j \in 1 .. Len(es) : \E k \in 1 .. Len(v) : v[k] = es[j]
  BY <1>0, SentAll, Zenon
<1>2. Moving(v, keyFocus, s)
  <2>1. ASSUME NEW k \in 1 .. Len(v)
        PROVE  \/ v[k].type = "enter" /\ v[k].surface = s
               \/ v[k].type = "leave" /\ v[k].surface = keyFocus
    <3>1. PICK j \in 1 .. Len(es) : v[k] = es[j]
      BY <1>1, Zenon
    <3>2. \/ es[j].type = "enter" /\ es[j].surface = s
          \/ es[j].type = "leave" /\ es[j].surface = keyFocus
      BY Zenon DEF Moving
    <3> QED
      BY <3>1, <3>2, Zenon
  <2>2. ASSUME s # Null PROVE \E k \in 1 .. Len(v) : v[k].type = "enter"
    <3>1. PICK j \in 1 .. Len(es) : es[j].type = "enter"
      BY <2>2, Zenon DEF Moving
    <3>2. PICK k \in 1 .. Len(v) : v[k] = es[j]
      BY <1>1, <3>1, Zenon
    <3> QED
      BY <3>1, <3>2, Zenon
  <2>3. ASSUME s = Null PROVE Len(v) > 0
    <3>1. 1 \in 1 .. Len(es)
      BY <2>3 DEF Moving
    <3>2. PICK k \in 1 .. Len(v) : v[k] = es[1]
      BY <1>1, <3>1, Zenon
    <3> QED
      BY <3>2
  <2> QED
    BY <2>1, <2>2, <2>3, Zenon DEF Moving
<1>3. Path(KeyboardSteps, v, keyFocus, s)
  BY <1>2, FocusPath, Zenon
<1>4. PICK a \in KeyboardNodes : Path(KeyboardSteps, keyWire, a, keyFocus) /\ KeyboardLag(a)
  BY Zenon DEF KeyboardFollows
<1>5. Path(KeyboardSteps, keyWire \o v, a, s)
  BY <1>0, <1>3, <1>4, PathConcat, Zenon
<1>6. KeyboardLag(a)'
  BY <1>4, Zenon DEF KeyboardLag
<1>7. keyWire \o v \in Seq(KeyboardEvents)
  BY <1>0
<1> QED
  BY <1>1, <1>4, <1>5, <1>6, <1>7, Zenon DEF KeyboardFollows

(* Two events, one after the other.                                        *)
LEMMA ConcatPair ==
  ASSUME NEW x, NEW y
  PROVE  <<x>> \o <<y>> = <<x, y>>
<1>1. PICK w : w = <<x>> \o <<y>>
  BY Zenon
<1>2. PICK u : u = <<x, y>>
  BY Zenon
<1>3. w \in Seq({x, y}) /\ Len(w) = 2 /\ w[1] = x /\ w[2] = y
  BY <1>1
<1>4. u \in Seq({x, y}) /\ Len(u) = 2 /\ u[1] = x /\ u[2] = y
  BY <1>2
<1>5. \A k \in 1 .. 2 : w[k] = u[k]
  BY <1>3, <1>4
<1>6. w \in [1 .. 2 -> {x, y}] /\ u \in [1 .. 2 -> {x, y}]
  BY <1>3, <1>4
<1>7. w = u
  BY <1>5, <1>6
<1> QED
  BY <1>1, <1>2, <1>7, Zenon

(* The leave, if any, and the enter, if any, in either order.              *)
LEMMA MovesAway ==
  ASSUME NEW f \in KeyboardNodes, NEW s \in KeyboardNodes, f # s, NEW n \in Nat, NEW m \in Nat,
         NEW gone, gone = (IF f = Null THEN <<>> ELSE <<Keyboard!Leave(f, n)>>),
         NEW come, come = (IF s = Null THEN <<>> ELSE <<Keyboard!Enter(s, m)>>)
  PROVE  /\ gone \o come \in Seq(KeyboardEvents) /\ come \o gone \in Seq(KeyboardEvents)
         /\ Moving(gone \o come, f, s) /\ Moving(come \o gone, f, s)
<1>0. f # Null => f \in KeyboardSurfaces
  BY Zenon DEF KeyboardNodes
<1>1. s # Null => s \in KeyboardSurfaces
  BY Zenon DEF KeyboardNodes
<1>2. PICK l, c : l = Keyboard!Leave(f, n) /\ c = Keyboard!Enter(s, m)
  BY Zenon
<1>3. /\ f # Null => l \in KeyboardEvents
      /\ s # Null => c \in KeyboardEvents
  BY <1>0, <1>1, <1>2, KeyboardEvent, Zenon
<1>4. l.type = "leave" /\ l.surface = f /\ c.type = "enter" /\ c.surface = s
  BY <1>2, Zenon DEF Keyboard!Leave, Keyboard!Enter
<1>5. CASE f = Null
  <2>1. gone \o come = <<c>> /\ come \o gone = <<c>> /\ c \in KeyboardEvents /\ s # Null
    BY <1>2, <1>3, <1>5
  <2>2. <<c>> \in Seq(KeyboardEvents) /\ Moving(<<c>>, f, s)
    BY <1>4, <2>1 DEF Moving
  <2> QED
    BY <2>1, <2>2, Zenon
<1>6. CASE f # Null /\ s = Null
  <2>1. gone \o come = <<l>> /\ come \o gone = <<l>> /\ l \in KeyboardEvents
    BY <1>2, <1>3, <1>6
  <2>2. <<l>> \in Seq(KeyboardEvents) /\ Moving(<<l>>, f, s)
    BY <1>4, <1>6, <2>1 DEF Moving
  <2> QED
    BY <2>1, <2>2, Zenon
<1>7. CASE f # Null /\ s # Null
  <2>1. gone \o come = <<l, c>> /\ come \o gone = <<c, l>>
        /\ l \in KeyboardEvents /\ c \in KeyboardEvents
    <3>1. gone = <<l>> /\ come = <<c>> /\ l \in KeyboardEvents /\ c \in KeyboardEvents
      BY <1>2, <1>3, <1>7, Zenon
    <3> QED
      BY <3>1, ConcatPair, Zenon
  <2>2. <<l, c>> \in Seq(KeyboardEvents) /\ <<c, l>> \in Seq(KeyboardEvents)
    BY <2>1
  <2>3. Moving(<<l, c>>, f, s) /\ Moving(<<c, l>>, f, s)
    BY <1>4, <1>7 DEF Moving
  <2> QED
    BY <2>1, <2>2, <2>3, Zenon
<1> QED
  BY <1>5, <1>6, <1>7, Zenon

(* The keyboard focus moves.                                               *)
LEMMA FocusMoves ==
  ASSUME KeyboardInv, NEW s \in KeyboardSurfaces \cup {Null}, Keyboard!MoveFocus(s)
  PROVE  KeyboardInv'
<1> DEFINE gone(n) == IF keyFocus = Null THEN <<>> ELSE <<Keyboard!Leave(keyFocus, n)>>
           come(n) == IF s = Null THEN <<>> ELSE <<Keyboard!Enter(s, n)>>
<1>1. /\ s # keyFocus /\ s \in keyKnown \cup {Null} /\ keyFocus' = s /\ serial' = serial + 2
      /\ UNCHANGED <<keyKnown, keyDestroys, keyLive, keyboard_focused_surface>>
  BY Zenon DEF Keyboard!MoveFocus, Keyboard!clientVars
<1>2. PICK n, m \in Nat : n = serial + 1 /\ m = serial + 2
  BY DEF KeyboardInv, KeyboardSurfacesKnown
<1>3. Keyboard!Post(gone(n) \o come(m)) \/ Keyboard!Post(come(n) \o gone(m))
  BY <1>2, Zenon DEF Keyboard!MoveFocus
<1>4. keyFocus \in KeyboardNodes /\ s \in KeyboardNodes /\ KeyboardFollows
  BY Zenon DEF KeyboardInv, KeyboardSurfacesKnown, KeyboardNodes
<1>5. PICK es \in Seq(KeyboardEvents) : Moving(es, keyFocus, s) /\ Keyboard!Post(es)
  <2>1. gone(n) \o come(m) \in Seq(KeyboardEvents) /\ Moving(gone(n) \o come(m), keyFocus, s)
    BY <1>1, <1>2, <1>4, MovesAway
  <2>2. come(n) \o gone(m) \in Seq(KeyboardEvents) /\ Moving(come(n) \o gone(m), keyFocus, s)
    BY <1>1, <1>2, <1>4, MovesAway
  <2> QED
    BY <1>3, <2>1, <2>2, Zenon
<1>6. KeyboardFollows'
  BY <1>1, <1>4, <1>5, FocusPosts, Zenon
<1>7. KeyboardSurfacesKnown'
  BY <1>1 DEF KeyboardInv, KeyboardSurfacesKnown
<1> QED
  BY <1>6, <1>7, Zenon DEF KeyboardInv

(* A key leaves the surfaces and the focus as they are.                    *)
LEMMA KeySent ==
  ASSUME KeyboardInv, NEW k \in Keys, Keyboard!SendKey(k)
  PROVE  KeyboardInv'
<1>1. PICK e : e = [type |-> "key", key |-> k, is_down |-> k \notin down, serial |-> serial + 1]
  BY Zenon
<1>2. /\ Keyboard!Post(<<e>>) /\ serial' = serial + 1
      /\ UNCHANGED <<keyFocus, keyKnown, keyDestroys, keyLive, keyboard_focused_surface>>
  BY <1>1, Zenon DEF Keyboard!SendKey, Keyboard!clientVars
<1>3. e \in KeyboardEvents /\ e.type = "key"
  <2>1. PICK d \in BOOLEAN : d = (k \notin down)
    BY Zenon
  <2>2. e = [type |-> "key", key |-> k, is_down |-> d, serial |-> serial + 1] /\ serial \in Nat
    BY <1>1, <2>1, Zenon DEF KeyboardInv, KeyboardSurfacesKnown
  <2> QED
    BY <2>1, <2>2 DEF KeyboardEvents
<1>4. keyFocus \in KeyboardNodes /\ keyWire \in Seq(KeyboardEvents)
  BY Zenon DEF KeyboardInv, KeyboardFollows, KeyboardSurfacesKnown, KeyboardNodes
<1>5. PICK a \in KeyboardNodes : Path(KeyboardSteps, keyWire, a, keyFocus) /\ KeyboardLag(a)
  BY Zenon DEF KeyboardInv, KeyboardFollows
<1>6. PICK es \in Seq(KeyboardEvents) : es = <<e>> /\ \A j \in 1 .. Len(es) : es[j] = e
  <2>1. <<e>> \in Seq(KeyboardEvents)
    BY <1>3
  <2>2. \A j \in 1 .. Len(<<e>>) : <<e>>[j] = e
    OBVIOUS
  <2> QED
    BY <2>1, <2>2, Zenon
<1>7. PICK v \in Seq(KeyboardEvents) :
         keyWire' = keyWire \o v /\ \A i \in 1 .. Len(v) : \E j \in 1 .. Len(es) : v[i] = es[j]
  BY <1>2, <1>4, <1>6, SentAll, Zenon
<1>8. Path(KeyboardSteps, v, keyFocus, keyFocus)
  BY <1>3, <1>4, <1>6, <1>7, KeyPath, Zenon
<1>9. keyWire' \in Seq(KeyboardEvents)
  BY <1>4, <1>7
<1>10. Path(KeyboardSteps, keyWire', a, keyFocus')
  BY <1>2, <1>4, <1>5, <1>7, <1>8, PathConcat, Zenon
<1>11. KeyboardLag(a)'
  BY <1>2, <1>5, Zenon DEF KeyboardLag
<1>12. KeyboardFollows'
  BY <1>5, <1>9, <1>10, <1>11, Zenon DEF KeyboardFollows
<1>13. KeyboardSurfacesKnown'
  BY <1>2 DEF KeyboardInv, KeyboardSurfacesKnown
<1> QED
  BY <1>12, <1>13, Zenon DEF KeyboardInv

(* A second wl_keyboard is told where the focus is.                        *)
LEMMA KeyboardGiven ==
  ASSUME KeyboardInv, Keyboard!GetKeyboard
  PROVE  KeyboardInv'
<1>1. /\ serial' = serial + 1
      /\ keyWire' = IF keyFocus = Null THEN keyWire
                    ELSE Append(keyWire, Keyboard!Enter(keyFocus, serial + 1))
      /\ UNCHANGED <<keyFocus, keyKnown, keyDestroys, keyLive, keyboard_focused_surface>>
  BY Zenon DEF Keyboard!GetKeyboard, Keyboard!clientVars
<1>2. keyFocus \in KeyboardNodes /\ keyWire \in Seq(KeyboardEvents)
  BY Zenon DEF KeyboardInv, KeyboardFollows, KeyboardSurfacesKnown, KeyboardNodes
<1>3. PICK a \in KeyboardNodes : Path(KeyboardSteps, keyWire, a, keyFocus) /\ KeyboardLag(a)
  BY Zenon DEF KeyboardInv, KeyboardFollows
<1>4. PICK n \in Nat : n = serial + 1
  BY DEF KeyboardInv, KeyboardSurfacesKnown
<1>5. keyWire' \in Seq(KeyboardEvents) /\ Path(KeyboardSteps, keyWire', a, keyFocus)
  <2>1. CASE keyFocus = Null
    BY <1>1, <1>2, <1>3, <2>1, Zenon
  <2>2. CASE keyFocus # Null
    <3>1. keyFocus \in KeyboardSurfaces
      BY <1>2, <2>2, Zenon DEF KeyboardNodes
    <3>2. PICK e \in KeyboardEvents : e = Keyboard!Enter(keyFocus, n)
               /\ KeyboardStep(keyFocus, e, keyFocus)
      BY <1>4, <3>1, KeyboardEvent
    <3>3. keyWire' = Append(keyWire, e)
      BY <1>1, <1>4, <2>2, <3>2, Zenon
    <3> QED
      BY <1>2, <1>3, <3>2, <3>3, KeyboardPosts, Zenon
  <2> QED
    BY <2>1, <2>2, Zenon
<1>6. KeyboardLag(a)'
  BY <1>1, <1>3, Zenon DEF KeyboardLag
<1>7. KeyboardFollows'
  BY <1>1, <1>3, <1>5, <1>6, Zenon DEF KeyboardFollows
<1>8. KeyboardSurfacesKnown'
  BY <1>1 DEF KeyboardInv, KeyboardSurfacesKnown
<1> QED
  BY <1>7, <1>8, Zenon DEF KeyboardInv

(* The server handles the destruction of a surface: the keyboard focus    *)
(* leaves it.                                                             *)
LEMMA FocusForgotten ==
  ASSUME KeyboardInv, NEW s \in Destroyable, Keyboard!HandleDestroy(s)
  PROVE  KeyboardInv'
<1>1. /\ s \in keyDestroys /\ keyDestroys' = keyDestroys \ {s} /\ keyKnown' = keyKnown \ {s}
      /\ UNCHANGED <<keyLive, keyboard_focused_surface>>
  BY Zenon DEF Keyboard!HandleDestroy, Keyboard!clientVars
<1>2. /\ keyFocus \in KeyboardNodes /\ s \in KeyboardSurfaces /\ Null \in KeyboardNodes
      /\ Null \notin KeyboardSurfaces /\ s \in KeyboardNodes
  BY <1>1, InputAssumption, Zenon DEF KeyboardInv, KeyboardFollows, KeyboardSurfacesKnown,
     KeyboardNodes
<1>3. /\ KeyboardFollows' /\ serial' \in Nat
      /\ keyFocus' = Null \/ (keyFocus' = keyFocus /\ keyFocus # s)
  <2>1. CASE keyFocus = s
    <3>1. Keyboard!Post(<<Keyboard!Leave(s, serial + 1)>>) /\ keyFocus' = Null
          /\ serial' = serial + 1
      BY <2>1, Zenon DEF Keyboard!HandleDestroy
    <3>2. PICK n \in Nat : n = serial + 1
      BY DEF KeyboardInv, KeyboardSurfacesKnown
    <3>3. PICK e \in KeyboardEvents : e = Keyboard!Leave(s, n) /\ e.type = "leave" /\ e.surface = s
      <4>1. Keyboard!Leave(s, n) \in KeyboardEvents
        BY <1>2, KeyboardEvent, Zenon
      <4>2. Keyboard!Leave(s, n).type = "leave" /\ Keyboard!Leave(s, n).surface = s
        BY Zenon DEF Keyboard!Leave
      <4> QED
        BY <4>1, <4>2, Zenon
    <3>4. PICK es \in Seq(KeyboardEvents) : es = <<e>>
      <4>1. <<e>> \in Seq(KeyboardEvents)
        BY <3>3
      <4> QED
        BY <4>1, Zenon
    <3>5. Moving(es, keyFocus, Null)
      BY <2>1, <3>3, <3>4 DEF Moving
    <3>6. Keyboard!Post(es) /\ Null # keyFocus /\ KeyboardFollows
      BY <1>2, <2>1, <3>1, <3>2, <3>3, <3>4, Zenon DEF KeyboardInv
    <3>7. KeyboardFollows'
      BY <1>1, <1>2, <3>1, <3>5, <3>6, FocusPosts, Zenon
    <3> QED
      BY <3>1, <3>2, <3>7, Zenon
  <2>2. CASE keyFocus # s
    <3>1. UNCHANGED <<keyWire, keyFocus, serial>>
      BY <2>2, Zenon DEF Keyboard!HandleDestroy
    <3>2. PICK a \in KeyboardNodes : Path(KeyboardSteps, keyWire, a, keyFocus) /\ KeyboardLag(a)
      BY Zenon DEF KeyboardInv, KeyboardFollows
    <3>3. KeyboardLag(a)'
      BY <1>1, <3>2, Zenon DEF KeyboardLag
    <3> QED
      BY <2>2, <3>1, <3>2, <3>3, Zenon DEF KeyboardInv, KeyboardFollows, KeyboardSurfacesKnown
  <2> QED
    BY <2>1, <2>2, Zenon
<1>4. KeyboardSurfacesKnown'
  BY <1>1, <1>3, Zenon DEF KeyboardInv, KeyboardSurfacesKnown
<1> QED
  BY <1>3, <1>4, Zenon DEF KeyboardInv

(* The client destroys a surface: the focus it knows stays as it is.      *)
LEMMA KeyboardForgets ==
  ASSUME KeyboardInv, NEW s \in Destroyable, Keyboard!DestroySurface(s)
  PROVE  KeyboardInv'
<1>1. /\ s \in keyLive /\ keyLive' = keyLive \ {s} /\ keyDestroys' = keyDestroys \cup {s}
      /\ UNCHANGED <<keyFocus, serial, keyKnown, keyWire, keyboard_focused_surface>>
  BY Zenon DEF Keyboard!DestroySurface, Keyboard!clientVars, Keyboard!seatVars
<1>2. PICK a \in KeyboardNodes : Path(KeyboardSteps, keyWire, a, keyFocus) /\ KeyboardLag(a)
  BY Zenon DEF KeyboardInv, KeyboardFollows
<1>3. KeyboardLag(a)'
  BY <1>1, <1>2, Zenon DEF KeyboardLag
<1>4. KeyboardFollows'
  BY <1>1, <1>2, <1>3, Zenon DEF KeyboardInv, KeyboardFollows
<1>5. KeyboardSurfacesKnown'
  BY <1>1, Zenon DEF KeyboardInv, KeyboardSurfacesKnown
<1> QED
  BY <1>4, <1>5, Zenon DEF KeyboardInv

(* The three handlers.                                                     *)
LEMMA KeyboardHandles ==
  ASSUME KeyboardInv, Keyboard!keyboard_enter \/ Keyboard!keyboard_leave \/ Keyboard!keyboard_key
  PROVE  KeyboardInv'
<1>1. /\ keyWire # <<>> /\ keyWire' = Tail(keyWire)
      /\ UNCHANGED <<keyFocus, serial, keyKnown, keyDestroys, keyLive>>
  <2>1. PICK type : Keyboard!Dispatch(type)
    BY Zenon DEF Keyboard!keyboard_enter, Keyboard!keyboard_leave, Keyboard!keyboard_key
  <2> QED
    BY <2>1, Zenon DEF Keyboard!Dispatch, Keyboard!seatVars
<1>2. PICK a \in KeyboardNodes : Path(KeyboardSteps, keyWire, a, keyFocus) /\ KeyboardLag(a)
  BY Zenon DEF KeyboardInv, KeyboardFollows
<1>3. PICK b : <<a, Head(keyWire), b>> \in KeyboardSteps
           /\ Path(KeyboardSteps, Tail(keyWire), b, keyFocus)
  BY <1>1, <1>2, PathTail, Zenon DEF KeyboardInv, KeyboardFollows
<1>4. b \in KeyboardNodes /\ KeyboardStep(a, Head(keyWire), b)
  BY <1>3, KeyboardStepsDef, Zenon
<1>5. Null \notin keyLive /\ keyWire' \in Seq(KeyboardEvents)
  <2>1. Null \notin KeyboardSurfaces
    BY InputAssumption, Zenon
  <2>2. keyLive \subseteq KeyboardSurfaces
    BY Zenon DEF KeyboardInv, KeyboardSurfacesKnown
  <2>3. keyWire' \in Seq(KeyboardEvents)
    BY <1>1 DEF KeyboardInv, KeyboardFollows
  <2> QED
    BY <2>1, <2>2, <2>3, Zenon
<1>6. KeyboardLag(b)'
  <2>1. CASE Keyboard!keyboard_enter
    BY <2>1, <1>1, <1>4, <1>5, Zenon DEF Keyboard!keyboard_enter, Keyboard!Dispatch,
       Keyboard!Resolve,
       KeyboardStep,
       KeyboardLag
  <2>2. CASE Keyboard!keyboard_leave
    BY <2>2, <1>1, <1>2, <1>4, <1>5, Zenon DEF Keyboard!keyboard_leave, Keyboard!Dispatch,
       Keyboard!Resolve,
       KeyboardStep, KeyboardLag
  <2>3. CASE Keyboard!keyboard_key
    BY <2>3, <1>1, <1>2, <1>4, Zenon DEF Keyboard!keyboard_key, Keyboard!Dispatch, KeyboardStep,
       KeyboardLag
  <2> QED
    BY <2>1, <2>2, <2>3, Zenon
<1>7. KeyboardFollows'
  BY <1>1, <1>3, <1>4, <1>5, <1>6, Zenon DEF KeyboardFollows
<1>8. KeyboardSurfacesKnown'
  BY <1>1, Zenon DEF KeyboardInv, KeyboardSurfacesKnown
<1> QED
  BY <1>7, <1>8, Zenon DEF KeyboardInv

(* Every step of the seat and of the handlers keeps the invariant.        *)
LEMMA KeyboardNext == KeyboardInv /\ [Keyboard!Next]_keyboardVars => KeyboardInv'
<1> SUFFICES ASSUME KeyboardInv, [Keyboard!Next]_keyboardVars PROVE KeyboardInv'
  BY Zenon
<1>1. CASE Keyboard!Next
  BY <1>1, FocusMoves, KeySent, KeyboardGiven, FocusForgotten, KeyboardForgets, KeyboardHandles,
     Zenon DEF Keyboard!Next
<1>2. CASE UNCHANGED keyboardVars
  <2>1. UNCHANGED <<keyFocus, serial, keyKnown, keyWire, keyDestroys, keyLive, keyboard_focused_surface>>
    BY <1>2, Zenon DEF keyboardVars
  <2>2. PICK a \in KeyboardNodes : Path(KeyboardSteps, keyWire, a, keyFocus) /\ KeyboardLag(a)
    BY Zenon DEF KeyboardInv, KeyboardFollows
  <2>3. KeyboardLag(a)'
    BY <2>1, <2>2, Zenon DEF KeyboardLag
  <2>4. KeyboardFollows'
    BY <2>1, <2>2, <2>3, Zenon DEF KeyboardInv, KeyboardFollows
  <2>5. KeyboardSurfacesKnown'
    BY <2>1, Zenon DEF KeyboardInv, KeyboardSurfacesKnown
  <2> QED
    BY <2>4, <2>5, Zenon DEF KeyboardInv
<1> QED
  BY <1>1, <1>2, Zenon

(* The invariant gives what is promised of the keyboard.                  *)
LEMMA KeyboardCorrect ==
  ASSUME KeyboardInv
  PROVE  Keyboard!FocusIsCurrent
<1>1. ASSUME keyWire = <<>>, keyDestroys = {}
      PROVE  /\ keyFocus # Null => keyboard_focused_surface = keyFocus
             /\ keyboard_focused_surface \in keyLive => keyboard_focused_surface = keyFocus
  <2>1. PICK a \in KeyboardNodes : Path(KeyboardSteps, <<>>, a, keyFocus) /\ KeyboardLag(a)
    BY <1>1, Zenon DEF KeyboardInv, KeyboardFollows
  <2>2. a = keyFocus
    BY <2>1, PathEmpty, Zenon
  <2>3. keyFocus # Null => keyFocus \in keyLive
    BY <1>1, Zenon DEF KeyboardInv, KeyboardSurfacesKnown
  <2> QED
    BY <2>1, <2>2, <2>3, Zenon DEF KeyboardLag
<1> QED
  BY <1>1, Zenon DEF Keyboard!FocusIsCurrent

-----------------------------------------------------------------------------
(* The objects of a seat.  Asked(o): the request for o is on its way.      *)
SeatObjectSet == [kind : Seat!Kinds, number : Nat]
Elements(s) == { s[i] : i \in 1 .. Len(s) }
Asked(o) == o \in Elements(requests)

SeatType ==
    /\ seatWire \in Seq(SUBSET Seat!Kinds) /\ requests \in Seq(SeatObjectSet)
    /\ had \subseteq Seat!Kinds /\ capabilities \subseteq had
    /\ made \in [Seat!Kinds -> Nat] /\ member \in [Seat!Kinds -> Nat]

(* Nothing is told or asked for that the seat never had; the last event on *)
(* its way is what the seat has, and once none is, its objects are asked   *)
(* for or receive.                                                         *)
SeatInv ==
    /\ SeatType /\ error = FALSE
    /\ \A i \in 1 .. Len(seatWire) : seatWire[i] \subseteq had
    /\ \A o \in Elements(requests) : o.kind \in had
    /\ seatWire # <<>> => seatWire[Len(seatWire)] = capabilities
    /\ seatWire = <<>> => \A k \in capabilities : \/ Seat!Object(k, member[k]) \in receiving
                                                  \/ Asked(Seat!Object(k, member[k]))

(* The elements of a concatenation, and of none or one.                    *)
LEMMA ConcatElements ==
  ASSUME NEW E, NEW s \in Seq(E), NEW t \in Seq(E)
  PROVE  s \o t \in Seq(E) /\ Elements(s \o t) = Elements(s) \cup Elements(t)
<1>1. /\ s \o t \in Seq(E) /\ Len(s \o t) = Len(s) + Len(t) /\ Len(s) \in Nat /\ Len(t) \in Nat
      /\ \A i \in 1 .. Len(s) + Len(t) : (s \o t)[i] = IF i <= Len(s) THEN s[i] ELSE t[i - Len(s)]
  OBVIOUS
<1>2. ASSUME NEW i \in 1 .. Len(s) PROVE s[i] \in Elements(s \o t)
  <2>1. i \in 1 .. Len(s \o t) /\ (s \o t)[i] = s[i]
    BY <1>1
  <2> QED
    BY <2>1, Zenon DEF Elements
<1>3. ASSUME NEW i \in 1 .. Len(t) PROVE t[i] \in Elements(s \o t)
  <2>1. Len(s) + i \in 1 .. Len(s) + Len(t) /\ ~(Len(s) + i <= Len(s)) /\ Len(s) + i - Len(s) = i
    BY <1>1
  <2>2. Len(s) + i \in 1 .. Len(s \o t) /\ (s \o t)[Len(s) + i] = t[i]
    BY <2>1, <1>1
  <2> QED
    BY <2>2, Zenon DEF Elements
<1>4. ASSUME NEW i \in 1 .. Len(s \o t) PROVE (s \o t)[i] \in Elements(s) \cup Elements(t)
  <2>1. CASE i <= Len(s)
    <3>1. i \in 1 .. Len(s) /\ (s \o t)[i] = s[i]
      BY <2>1, <1>1
    <3> QED
      BY <3>1, Zenon DEF Elements
  <2>2. CASE ~(i <= Len(s))
    <3>1. i - Len(s) \in 1 .. Len(t) /\ (s \o t)[i] = t[i - Len(s)]
      BY <2>2, <1>1
    <3> QED
      BY <3>1, Zenon DEF Elements
  <2> QED
    BY <2>1, <2>2, Zenon
<1>5. Elements(s \o t) \subseteq Elements(s) \cup Elements(t)
  BY <1>4, Zenon DEF Elements
<1>6. Elements(s) \cup Elements(t) \subseteq Elements(s \o t)
  <2>1. \A x \in Elements(s) : x \in Elements(s \o t)
    BY <1>2, Zenon DEF Elements
  <2>2. \A x \in Elements(t) : x \in Elements(s \o t)
    BY <1>3, Zenon DEF Elements
  <2> QED
    BY <2>1, <2>2, Zenon
<1> QED
  BY <1>1, <1>5, <1>6, Zenon

(* The elements of a sequence of none and of one.                         *)
LEMMA FewElements == Elements(<<>>) = {} /\ \A x : Elements(<<x>>) = {x}
BY DEF Elements

(* A seat that has announced nothing satisfies the invariant.             *)
LEMMA SeatInit == Seat!Init => SeatInv
<1> SUFFICES ASSUME Seat!Init PROVE SeatInv
  BY Zenon
<1> USE DEF Seat!Init
<1>1. SeatType
  BY DEF SeatType, Seat!Kinds
<1>2. Len(seatWire) = 1 /\ seatWire[1] = capabilities /\ Len(requests) = 0 /\ seatWire # <<>>
  BY Zenon
<1> QED
  BY <1>1, <1>2, FewElements DEF SeatInv

(* The compositor announces other capabilities.                           *)
LEMMA SeatChanges ==
  ASSUME SeatInv, NEW new \in SUBSET Seat!Kinds, Seat!ChangeCapabilities(new)
  PROVE  SeatInv'
<1>1. /\ capabilities' = new /\ had' = had \cup new /\ seatWire' = Append(seatWire, new)
      /\ UNCHANGED <<requests, member, made, error>>
  BY Zenon DEF Seat!ChangeCapabilities
<1>2. /\ Len(seatWire') = Len(seatWire) + 1 /\ seatWire'[Len(seatWire) + 1] = new
         /\ seatWire' # <<>>
      /\ \A i \in 1 .. Len(seatWire) : seatWire'[i] = seatWire[i]
      /\ Len(seatWire) \in Nat
  BY <1>1 DEF SeatInv, SeatType
<1>3. SeatType'
  BY <1>1 DEF SeatInv, SeatType
<1>4. ASSUME NEW i \in 1 .. Len(seatWire') PROVE seatWire'[i] \subseteq had'
  BY <1>1, <1>2 DEF SeatInv
<1> QED
  BY <1>1, <1>2, <1>3, <1>4, Zenon DEF SeatInv

(* The server takes the next request for an object of the seat.           *)
LEMMA SeatAnswers ==
  ASSUME SeatInv, Seat!HandleRequest
  PROVE  SeatInv'
<1>1. /\ requests # <<>> /\ requests' = Tail(requests)
      /\ error' = (error \/ Head(requests).kind \notin had)
      /\ receiving' = IF Head(requests).kind \in capabilities THEN receiving \cup {Head(requests)}
                      ELSE receiving
      /\ UNCHANGED <<capabilities, had, seatWire, member, made>>
  BY Zenon DEF Seat!HandleRequest
<1>2. /\ Head(requests) = requests[1] /\ Len(requests) \in Nat \ {0}
         /\ Len(Tail(requests)) = Len(requests) - 1
      /\ \A i \in 1 .. Len(requests) - 1 : Tail(requests)[i] = requests[i + 1]
  BY <1>1 DEF SeatInv, SeatType
<1>3. SeatType'
  BY <1>1 DEF SeatInv, SeatType
<1>4. error' = FALSE
  <2>1. Head(requests).kind \in had
    BY <1>2 DEF SeatInv, Elements
  <2> QED
    BY <1>1, <2>1, Zenon DEF SeatInv
<1>5. /\ Elements(requests) = Elements(requests') \cup {Head(requests)}
  <2>1. ASSUME NEW i \in 1 .. Len(requests) PROVE requests[i] \in Elements(requests') \cup {Head(requests)}
    <3>1. CASE i = 1
      BY <3>1, <1>2, Zenon
    <3>2. CASE i # 1
      <4>1. i - 1 \in 1 .. Len(requests') /\ requests'[i - 1] = requests[i]
        BY <3>2, <1>1, <1>2
      <4> QED
        BY <4>1, Zenon DEF Elements
    <3> QED
      BY <3>1, <3>2, Zenon
  <2>2. ASSUME NEW i \in 1 .. Len(requests') PROVE requests'[i] \in Elements(requests)
    <3>1. i + 1 \in 1 .. Len(requests) /\ requests'[i] = requests[i + 1]
      BY <1>1, <1>2
    <3> QED
      BY <3>1, Zenon DEF Elements
  <2>3. Head(requests) \in Elements(requests)
    BY <1>2 DEF Elements
  <2> QED
    BY <2>1, <2>2, <2>3, Zenon DEF Elements
<1>6. ASSUME seatWire' = <<>>, NEW k \in capabilities'
      PROVE  Seat!Object(k, member'[k]) \in receiving' \/ Asked(Seat!Object(k, member[k]))'
  <2>1. Seat!Object(k, member[k]) \in receiving \/ Asked(Seat!Object(k, member[k]))
    BY <1>1, <1>6, Zenon DEF SeatInv
  <2>2. Seat!Object(k, member[k]).kind = k
    BY Zenon DEF Seat!Object
  <2> QED
    BY <2>1, <2>2, <1>1, <1>5, <1>6, Zenon DEF Asked
<1> QED
  BY <1>1, <1>3, <1>4, <1>5, <1>6, Zenon DEF SeatInv

(* The requests for objects of the kinds in K are put after the others.    *)
LEMMA SeatCreates ==
  ASSUME SeatType, NEW K \in SUBSET Seat!Kinds, Seat!Create(K)
  PROVE  /\ requests' \in Seq(SeatObjectSet) /\ made' \in [Seat!Kinds -> Nat]
            /\ member' \in [Seat!Kinds -> Nat]
         /\ Elements(requests') = Elements(requests) \cup { Seat!Object(k, member'[k]) : k \in K }
<1> DEFINE get(k) == IF k \in K THEN << Seat!Object(k, made[k] + 1) >> ELSE <<>>
<1>1. /\ made' = [k \in Seat!Kinds |-> IF k \in K THEN made[k] + 1 ELSE made[k]]
      /\ member' = [k \in Seat!Kinds |-> IF k \in K THEN made[k] + 1 ELSE member[k]]
      /\ requests' = requests \o get("keyboard") \o get("pointer") \o get("touch")
  BY Zenon DEF Seat!Create
<1>2. made' \in [Seat!Kinds -> Nat] /\ member' \in [Seat!Kinds -> Nat]
      /\ \A k \in K : member'[k] = made[k] + 1
  <2>1. \A k \in Seat!Kinds : made[k] \in Nat /\ member[k] \in Nat /\ made[k] + 1 \in Nat
    BY DEF SeatType
  <2> QED
    BY <1>1, <2>1, Zenon
<1>3. ASSUME NEW k \in Seat!Kinds
      PROVE  /\ get(k) \in Seq(SeatObjectSet)
             /\ Elements(get(k)) = IF k \in K THEN {Seat!Object(k, member'[k])} ELSE {}
  <2>1. CASE k \in K
    <3>1. member'[k] = made[k] + 1 /\ made[k] + 1 \in Nat
      BY <2>1, <1>2, Zenon DEF SeatType
    <3>2. PICK o \in SeatObjectSet : o = Seat!Object(k, made[k] + 1)
      BY <3>1, Zenon DEF Seat!Object, SeatObjectSet
    <3>3. get(k) = << o >>
      BY <2>1, <3>2, Zenon
    <3> HIDE DEF get
    <3> QED
      BY <2>1, <3>1, <3>2, <3>3, FewElements
  <2>2. CASE k \notin K
    <3>1. get(k) = <<>>
      BY <2>2, Zenon
    <3> HIDE DEF get
    <3> QED
      BY <2>2, <3>1, FewElements
  <2> QED
    BY <2>1, <2>2, Zenon
<1> HIDE DEF get
<1>4. PICK a, b, c \in Seq(SeatObjectSet) : a = get("keyboard") /\ b = get("pointer")
           /\ c = get("touch")
  BY <1>3, Zenon DEF Seat!Kinds
<1>5. /\ requests' \in Seq(SeatObjectSet)
      /\ Elements(requests') = Elements(requests) \cup Elements(a) \cup Elements(b) \cup Elements(c)
  <2>1. PICK q \in Seq(SeatObjectSet) : q = requests \o a
             /\ Elements(q) = Elements(requests) \cup Elements(a)
    BY ConcatElements, ZenonT(30) DEF SeatType
  <2>2. PICK r \in Seq(SeatObjectSet) : r = q \o b /\ Elements(r) = Elements(q) \cup Elements(b)
    <3>1. q \o b \in Seq(SeatObjectSet) /\ Elements(q \o b) = Elements(q) \cup Elements(b)
      BY ConcatElements
    <3> QED
      BY <3>1, Zenon
  <2>3. PICK u \in Seq(SeatObjectSet) : u = r \o c /\ Elements(u) = Elements(r) \cup Elements(c)
    <3>1. r \o c \in Seq(SeatObjectSet) /\ Elements(r \o c) = Elements(r) \cup Elements(c)
      BY ConcatElements
    <3> QED
      BY <3>1, Zenon
  <2>4. requests' = u
    BY <2>1, <2>2, <2>3, <1>1, <1>4, Zenon
  <2> QED
    BY <2>1, <2>2, <2>3, <2>4, Zenon
<1>6. Elements(a) \cup Elements(b) \cup Elements(c) = { Seat!Object(k, member'[k]) : k \in K }
  <2>1. /\ Elements(a) = IF "keyboard" \in K THEN {Seat!Object("keyboard", member'["keyboard"])} ELSE {}
        /\ Elements(b) = IF "pointer" \in K THEN {Seat!Object("pointer", member'["pointer"])} ELSE {}
        /\ Elements(c) = IF "touch" \in K THEN {Seat!Object("touch", member'["touch"])} ELSE {}
    BY <1>3, <1>4, Zenon DEF Seat!Kinds
  <2>2. \A k \in K : k = "keyboard" \/ k = "pointer" \/ k = "touch"
    BY Zenon DEF Seat!Kinds
  <2> QED
    BY <2>1, <2>2, Zenon
<1> QED
  BY <1>2, <1>5, <1>6, Zenon

(* seat_capabilities: a new object of each announced kind is requested    *)
(* and becomes the member.                                                *)
LEMMA SeatHandles ==
  ASSUME SeatInv, Seat!seat_capabilities
  PROVE  SeatInv'
<1>1. /\ seatWire # <<>> /\ seatWire' = Tail(seatWire) /\ Seat!Create(Head(seatWire))
      /\ UNCHANGED <<capabilities, had, receiving, error>>
  BY Zenon DEF Seat!seat_capabilities
<1>2. /\ Head(seatWire) = seatWire[1] /\ Len(seatWire) \in Nat \ {0}
      /\ Len(Tail(seatWire)) = Len(seatWire) - 1 /\ Tail(seatWire) \in Seq(SUBSET Seat!Kinds)
      /\ \A i \in 1 .. Len(seatWire) - 1 : Tail(seatWire)[i] = seatWire[i + 1]
      /\ Tail(seatWire) # <<>> <=> Len(seatWire) > 1
  <2>1. seatWire \in Seq(SUBSET Seat!Kinds)
    BY Zenon DEF SeatInv, SeatType
  <2>2. /\ Head(seatWire) = seatWire[1] /\ Len(seatWire) \in Nat \ {0}
        /\ Len(Tail(seatWire)) = Len(seatWire) - 1 /\ Tail(seatWire) \in Seq(SUBSET Seat!Kinds)
        /\ \A i \in 1 .. Len(seatWire) - 1 : Tail(seatWire)[i] = seatWire[i + 1]
    BY <1>1, <2>1
  <2>3. \A x \in Seq(SUBSET Seat!Kinds) : x # <<>> <=> Len(x) > 0
    OBVIOUS
  <2>4. Tail(seatWire) # <<>> <=> Len(Tail(seatWire)) > 0
    BY <2>2, <2>3, Zenon
  <2>5. Len(Tail(seatWire)) > 0 <=> Len(seatWire) > 1
    BY <2>2
  <2> QED
    BY <2>2, <2>4, <2>5, Zenon
<1>3. Head(seatWire) \in SUBSET had
  BY <1>2 DEF SeatInv
<1>4. /\ requests' \in Seq(SeatObjectSet) /\ made' \in [Seat!Kinds -> Nat]
         /\ member' \in [Seat!Kinds -> Nat]
      /\ Elements(requests') = Elements(requests) \cup { Seat!Object(k, member'[k]) :
           k \in Head(seatWire) }
  <2>1. Head(seatWire) \in SUBSET Seat!Kinds
    BY <1>3, Zenon DEF SeatInv, SeatType
  <2> QED
    BY <1>1, <2>1, SeatCreates, Zenon DEF SeatInv
<1>9. /\ \A o \in Elements(requests') : o.kind \in had'
      /\ \A k \in Head(seatWire) : Asked(Seat!Object(k, member[k]))'
  <2>1. \A k \in Head(seatWire) : Seat!Object(k, member'[k]).kind \in had
    BY <1>3, Zenon DEF Seat!Object
  <2> QED
    BY <2>1, <1>1, <1>4, Zenon DEF SeatInv, Asked
<1>5. SeatType' /\ error' = FALSE
  BY <1>1, <1>2, <1>4, Zenon DEF SeatInv, SeatType
<1>6. \A i \in 1 .. Len(seatWire') : seatWire'[i] \subseteq had'
  BY <1>1, <1>2 DEF SeatInv
<1>7. seatWire' # <<>> => seatWire'[Len(seatWire')] = capabilities'
  BY <1>1, <1>2 DEF SeatInv
<1>8. seatWire' = <<>> => Head(seatWire) = capabilities'
  BY <1>1, <1>2 DEF SeatInv
<1> QED
  BY <1>5, <1>6, <1>7, <1>8, <1>9, Zenon DEF SeatInv

(* Every step of the compositor and of the client keeps the invariant.    *)
LEMMA SeatNext == SeatInv /\ [Seat!Next]_seatVars => SeatInv'
<1> SUFFICES ASSUME SeatInv, [Seat!Next]_seatVars PROVE SeatInv'
  BY Zenon
<1>1. CASE Seat!Next
  BY <1>1, SeatChanges, SeatAnswers, SeatHandles, Zenon DEF Seat!Next
<1>2. CASE UNCHANGED seatVars
  BY <1>2, Zenon DEF SeatInv, SeatType, Asked, Elements, seatVars
<1> QED
  BY <1>1, <1>2, Zenon

(* The invariant gives what is promised of the objects of the seat.       *)
LEMMA SeatCorrect ==
  ASSUME SeatInv
  PROVE  Seat!NeverMissing /\ Seat!MemberReceives
<1>1. requests = <<>> => \A o : ~Asked(o)
  BY FewElements, Zenon DEF Asked
<1> QED
  BY <1>1, Zenon DEF SeatInv, Seat!NeverMissing, Seat!MemberReceives, Seat!Settled

-----------------------------------------------------------------------------
(* The input methods.                                                      *)

(* What the client will know once everything on its way has arrived.       *)
Latest == IF methodWire = <<>> THEN methodView ELSE methodWire[Len(methodWire)]

Fixed(n) == Method!wl_fixed_from_int(n)
WindowOf(n) == Method!WindowAt(Fixed(n))

Began == grab = <<WindowOf(began)>>
PutDown == Began /\ Latest = Method!On(WindowOf(began), Fixed(last))
Raised ==
    /\ grab = Method!Up
    /\ method = "pointer" => Latest = Method!On(WindowOf(last), Fixed(last))
    /\ method = "touch" => Latest = Method!Nowhere

(* Between two calls the server is where the device is; during one, its    *)
(* hooks are those of the call, in order.                                  *)
MethodPhases ==
    \/ /\ hooks = <<>> /\ at = Fixed(last)
       /\ is_down = TRUE => PutDown
       /\ is_down = FALSE => Raised
    \/ /\ hooks = Method!Pointer_down_at(last) /\ method = "pointer" /\ is_down = TRUE
       /\ began = last
       /\ grab = Method!Up
    \/ /\ hooks = << Method!left_button_down >> /\ method = "pointer" /\ is_down = TRUE
       /\ began = last
       /\ at = Fixed(last) /\ Latest = Method!On(WindowOf(last), Fixed(last))
    \/ /\ hooks = Method!Pointer_move_to(last) /\ method = "pointer" /\ is_down = TRUE /\ Began
    \/ /\ hooks = Method!Pointer_up /\ method = "pointer" /\ is_down = FALSE /\ at = Fixed(last)
    \/ /\ hooks = Method!Touch_down_at(last) /\ method = "touch" /\ is_down = TRUE /\ began = last
    \/ /\ hooks = Method!Touch_move_to(last) /\ method = "touch" /\ is_down = TRUE /\ Began
    \/ /\ hooks = Method!Touch_up /\ method = "touch" /\ is_down = FALSE /\ at = Fixed(last)

MethodViews == (Windows \cup {None}) \X Int

MethodType ==
    /\ method \in {"pointer", "touch"} /\ is_down \in BOOLEAN
    /\ last \in Int /\ began \in Int
    /\ methodWire \in Seq(MethodViews)

MethodInv == MethodType /\ MethodPhases

(* A fixed-point coordinate is an integer.                                *)
LEMMA FixedIsInt == \A n \in Int : Fixed(n) \in Int
BY DEF Fixed, Method!wl_fixed_from_int

(* A point is over a window or over none.                                 *)
LEMMA WindowAtType == \A f : Method!WindowAt(f) \in Windows \cup {None}
<1> SUFFICES ASSUME NEW f PROVE Method!WindowAt(f) \in Windows \cup {None}
  BY Zenon
<1> DEFINE found == {w \in Windows : (f \div 256) \in w .. w + Width - 1}
<1>1. Method!WindowAt(f) = IF found = {} THEN None ELSE CHOOSE w \in found : TRUE
  BY Zenon DEF Method!WindowAt
<1>2. found # {} => (CHOOSE w \in found : TRUE) \in found
  BY Zenon
<1>3. found \subseteq Windows
  BY Zenon
<1> HIDE DEF found
<1> QED
  BY <1>1, <1>2, <1>3, Zenon

(* What a client is told of a place is a window, or none, with a local    *)
(* coordinate.                                                            *)
LEMMA OnType ==
  ASSUME NEW w \in Windows \cup {None}, NEW f \in Int
  PROVE  Method!On(w, f) \in MethodViews
<1>1. (IF w = None THEN 0 ELSE f - Method!wl_fixed_from_int(w)) \in Int
  BY WindowsAssumption DEF Method!wl_fixed_from_int
<1> QED
  BY <1>1, Zenon DEF Method!On, MethodViews

(* After a view is told, it is the latest.                                 *)
LEMMA ToldIsLatest ==
  ASSUME MethodType, NEW v \in MethodViews, methodWire' = Append(methodWire, v)
  PROVE  methodWire' \in Seq(MethodViews) /\ Latest' = v
<1>1. methodWire \in Seq(MethodViews)
  BY Zenon DEF MethodType
<1>2. /\ Append(methodWire, v) \in Seq(MethodViews) /\ Append(methodWire, v) # <<>>
      /\ Append(methodWire, v)[Len(Append(methodWire, v))] = v
  BY <1>1
<1> QED
  BY <1>2, Zenon DEF Latest

(* Before the first call both methods agree.                              *)
LEMMA MethodInit == Method!Init => MethodInv
<1> SUFFICES ASSUME Method!Init PROVE MethodInv
  BY Zenon
<1>1. /\ method \in {"pointer", "touch"} /\ is_down = FALSE /\ hooks = <<>>
      /\ at = Method!wl_fixed_from_int(-1) /\ grab = Method!Up /\ methodWire = <<>>
      /\ methodView = Method!Nowhere /\ began = -1 /\ last = -1
  BY Zenon DEF Method!Init
<1>2. MethodType
  <2>1. is_down \in BOOLEAN
    BY <1>1, Zenon
  <2> QED
    BY <1>1, <2>1 DEF MethodType
<1>3. WindowOf(-1) = None
  BY WindowsAssumption, Zenon DEF WindowOf, Fixed
<1>4. Method!On(None, Fixed(-1)) = Method!Nowhere
  BY Zenon DEF Method!On, Method!Nowhere
<1>5. at = Fixed(last) /\ Latest = Method!Nowhere
  BY <1>1, Zenon DEF Fixed, Latest
<1>6. Raised
  BY <1>1, <1>3, <1>4, <1>5, Zenon DEF Raised
<1> QED
  BY <1>1, <1>2, <1>5, <1>6, Zenon DEF MethodInv, MethodPhases

(* The hooks of a call, taken one by one.                                  *)
OneHook(h, name, x) == h # <<>> /\ Head(h)[1] = name /\ Head(h)[2] = x /\ Tail(h) = <<>>

(* The hooks of the server that each call of a method makes.              *)
LEMMA HooksOfCalls ==
  \A x : /\ Method!Pointer_down_at(x) # <<>>
         /\ Head(Method!Pointer_down_at(x))[1] = "move_absolute"
         /\ Head(Method!Pointer_down_at(x))[2] = Fixed(x)
         /\ Tail(Method!Pointer_down_at(x)) = << Method!left_button_down >>
         /\ OneHook(<< Method!left_button_down >>, "button_down", 0)
         /\ OneHook(Method!Pointer_move_to(x), "move_absolute", Fixed(x))
         /\ OneHook(Method!Pointer_up, "button_up", 0)
         /\ OneHook(Method!Touch_down_at(x), "touch_down", x)
         /\ OneHook(Method!Touch_move_to(x), "touch_move", x)
         /\ OneHook(Method!Touch_up, "touch_up", 0)
<1>1. \A h : << h >> # <<>> /\ Head(<< h >>) = h /\ Tail(<< h >>) = <<>>
  OBVIOUS
<1>2. \A h, g : << h, g >> # <<>> /\ Head(<< h, g >>) = h /\ Tail(<< h, g >>) = << g >>
  OBVIOUS
<1>3. /\ Method!left_button_down[1] = "button_down" /\ Method!left_button_down[2] = 0
      /\ Method!left_button_up[1] = "button_up" /\ Method!left_button_up[2] = 0
      /\ \A x : Method!move_to(x)[1] = "move_absolute" /\ Method!move_to(x)[2] = Fixed(x)
  BY Zenon DEF Method!left_button_down, Method!left_button_up, Method!move_to, Fixed
<1>5. \A x : /\ Method!Pointer_down_at(x) = << Method!move_to(x), Method!left_button_down >>
             /\ Method!Pointer_move_to(x) = << Method!move_to(x) >>
                /\ Method!Pointer_up = << Method!left_button_up >>
             /\ Method!Touch_down_at(x) = << <<"touch_down", x>> >>
             /\ Method!Touch_move_to(x) = << <<"touch_move", x>> >>
             /\ Method!Touch_up = << <<"touch_up", 0>> >>
  BY Zenon DEF Method!Pointer_down_at, Method!Pointer_move_to, Method!Pointer_up,
     Method!Touch_down_at,
     Method!Touch_move_to, Method!Touch_up
<1>6. ASSUME NEW x
      PROVE  /\ Method!Pointer_down_at(x) # <<>>
             /\ Head(Method!Pointer_down_at(x))[1] = "move_absolute"
             /\ Head(Method!Pointer_down_at(x))[2] = Fixed(x)
             /\ Tail(Method!Pointer_down_at(x)) = << Method!left_button_down >>
  BY <1>2, <1>3, <1>5, Zenon
<1>7. ASSUME NEW x
      PROVE  /\ OneHook(<< Method!left_button_down >>, "button_down", 0)
             /\ OneHook(Method!Pointer_move_to(x), "move_absolute", Fixed(x))
             /\ OneHook(Method!Pointer_up, "button_up", 0)
  BY <1>1, <1>3, <1>5, Zenon DEF OneHook
<1>8. ASSUME NEW x
      PROVE  /\ OneHook(Method!Touch_down_at(x), "touch_down", x)
             /\ OneHook(Method!Touch_move_to(x), "touch_move", x)
             /\ OneHook(Method!Touch_up, "touch_up", 0)
  <2>1. \A name, y : OneHook(<< <<name, y>> >>, name, y)
    <3> SUFFICES ASSUME NEW name, NEW y PROVE OneHook(<< <<name, y>> >>, name, y)
      BY Zenon
    <3>0. <<name, y>>[1] = name /\ <<name, y>>[2] = y
      BY Zenon
    <3>1. PICK h : h = <<name, y>> /\ h[1] = name /\ h[2] = y
      BY <3>0, Zenon
    <3>2. OneHook(<< h >>, name, y)
      BY <3>1, <1>1, Zenon DEF OneHook
    <3> QED
      BY <3>1, <3>2, Zenon
  <2> QED
    BY <2>1, <1>5, Zenon
<1> QED
  BY <1>6, <1>7, <1>8, Zenon

(* Between two calls, no hook is left.                                     *)
LEMMA MethodIdle ==
  ASSUME MethodPhases, hooks = <<>>
  PROVE  at = Fixed(last) /\ (is_down = TRUE => PutDown) /\ (is_down = FALSE => Raised)
BY HooksOfCalls, Zenon DEF MethodPhases, OneHook

(* What a call of the test leaves alone, refused or not.                  *)
LEMMA CallUnchanged ==
  ASSUME NEW when, NEW pointer, NEW touch, NEW after, Method!Call(when, pointer, touch, after)
  PROVE  /\ hooks = <<>> /\ UNCHANGED <<method, at, grab, methodWire, methodView>>
         /\ Latest' = Latest /\ Method!Up' = Method!Up
         /\ is_down # when => UNCHANGED <<is_down, hooks>>
         /\ is_down = when => /\ is_down' = after
                              /\ method = "pointer" => hooks' = pointer
                              /\ method = "touch" => hooks' = touch
<1>1. /\ hooks = <<>> /\ UNCHANGED <<method, at, grab, methodWire, methodView>>
      /\ IF is_down # when THEN UNCHANGED <<is_down, hooks>>
         ELSE hooks' = (IF method = "pointer" THEN pointer ELSE touch) /\ is_down' = after
  BY Zenon DEF Method!Call
<1>2. Latest' = Latest
  BY <1>1, Zenon DEF Latest
<1> QED
  BY <1>1, <1>2, Zenon

(* down: the pointer and the touch go down at the same place.             *)
LEMMA MethodDown ==
  ASSUME MethodInv, NEW x \in Positions, Method!down_at(x)
  PROVE  MethodInv'
<1>1. /\ Method!Call(FALSE, Method!Pointer_down_at(x), Method!Touch_down_at(x), TRUE)
      /\ last' = IF is_down THEN last ELSE x
      /\ began' = IF is_down THEN began ELSE x
  BY Zenon DEF Method!down_at
<1>2. /\ hooks = <<>> /\ UNCHANGED <<method, at, grab, methodWire>> /\ Latest' = Latest
      /\ is_down # FALSE => UNCHANGED <<is_down, hooks>>
      /\ is_down = FALSE => /\ is_down' = TRUE
                            /\ method = "pointer" => hooks' = Method!Pointer_down_at(x)
                            /\ method = "touch" => hooks' = Method!Touch_down_at(x)
  BY <1>1, CallUnchanged, Zenon
<1>3. at = Fixed(last) /\ (is_down = TRUE => PutDown) /\ (is_down = FALSE => Raised)
  BY <1>2, MethodIdle, Zenon DEF MethodInv
<1>4. x \in Int
  BY WindowsAssumption, Zenon
<1>5. CASE is_down = TRUE
  <2>1. UNCHANGED <<is_down, hooks, last, began>>
    BY <1>1, <1>2, <1>5, Zenon
  <2>2. PutDown' /\ at' = Fixed(last')
    BY <1>2, <1>3, <1>5, <2>1, Zenon DEF PutDown, Began
  <2> QED
    BY <1>2, <1>5, <2>1, <2>2, Zenon DEF MethodInv, MethodType, MethodPhases
<1>6. CASE is_down = FALSE
  <2>1. is_down' = TRUE /\ last' = x /\ began' = x
    BY <1>1, <1>2, <1>6, Zenon
  <2>2. MethodType'
    <3>1. is_down' \in BOOLEAN
      BY <2>1, Zenon
    <3> QED
      BY <1>2, <1>4, <2>1, <3>1, Zenon DEF MethodInv, MethodType
  <2>3. grab' = Method!Up
    BY <1>2, <1>3, <1>6, Zenon DEF Raised
  <2>4. MethodPhases'
    BY <1>2, <1>6, <2>1, <2>3, Zenon DEF MethodInv, MethodType, MethodPhases
  <2> QED
    BY <2>2, <2>4, Zenon DEF MethodInv
<1> QED
  BY <1>5, <1>6, Zenon DEF MethodInv, MethodType

(* move: the pointer and the touch go to the same place.                  *)
LEMMA MethodMoves ==
  ASSUME MethodInv, NEW x \in Positions, Method!DeviceMoveTo(x)
  PROVE  MethodInv'
<1>1. /\ Method!Call(TRUE, Method!Pointer_move_to(x), Method!Touch_move_to(x), TRUE)
      /\ last' = (IF is_down THEN x ELSE last) /\ began' = began
  BY Zenon DEF Method!DeviceMoveTo
<1>2. /\ hooks = <<>> /\ UNCHANGED <<method, at, grab, methodWire>> /\ Latest' = Latest
      /\ is_down # TRUE => UNCHANGED <<is_down, hooks>>
      /\ is_down = TRUE => /\ is_down' = TRUE
                           /\ method = "pointer" => hooks' = Method!Pointer_move_to(x)
                           /\ method = "touch" => hooks' = Method!Touch_move_to(x)
  BY <1>1, CallUnchanged, Zenon
<1>3. at = Fixed(last) /\ (is_down = TRUE => PutDown) /\ (is_down = FALSE => Raised)
  BY <1>2, MethodIdle, Zenon DEF MethodInv
<1>4. x \in Int
  BY WindowsAssumption, Zenon
<1>5. CASE is_down = FALSE
  <2>1. UNCHANGED <<is_down, hooks, last, began>>
    BY <1>1, <1>2, <1>5, Zenon
  <2>2. Raised' /\ at' = Fixed(last')
    BY <1>2, <1>3, <1>5, <2>1, Zenon DEF Raised
  <2> QED
    BY <1>2, <1>5, <2>1, <2>2, Zenon DEF MethodInv, MethodType, MethodPhases
<1>6. CASE is_down = TRUE
  <2>1. is_down' = TRUE /\ last' = x /\ began' = began
    BY <1>1, <1>2, <1>6, Zenon
  <2>2. MethodType'
    <3>1. is_down' \in BOOLEAN
      BY <2>1, Zenon
    <3> QED
      BY <1>2, <1>4, <2>1, <3>1, Zenon DEF MethodInv, MethodType
  <2>3. Began'
    BY <1>2, <1>3, <1>6, <2>1, Zenon DEF PutDown, Began
  <2>4. MethodPhases'
    BY <1>2, <1>6, <2>1, <2>3, Zenon DEF MethodInv, MethodType, MethodPhases
  <2> QED
    BY <2>2, <2>4, Zenon DEF MethodInv
<1> QED
  BY <1>5, <1>6, Zenon DEF MethodInv, MethodType

(* up: both methods end the press.                                        *)
LEMMA MethodUp ==
  ASSUME MethodInv, Method!up
  PROVE  MethodInv'
<1>1. Method!Call(TRUE, Method!Pointer_up, Method!Touch_up, FALSE) /\ UNCHANGED <<began, last>>
  BY Zenon DEF Method!up
<1>2. /\ hooks = <<>> /\ UNCHANGED <<method, at, grab, methodWire>> /\ Latest' = Latest
      /\ is_down # TRUE => UNCHANGED <<is_down, hooks>>
      /\ is_down = TRUE => /\ is_down' = FALSE
                           /\ method = "pointer" => hooks' = Method!Pointer_up
                           /\ method = "touch" => hooks' = Method!Touch_up
  BY <1>1, CallUnchanged, Zenon
<1>3. at = Fixed(last) /\ (is_down = TRUE => PutDown) /\ (is_down = FALSE => Raised)
  BY <1>2, MethodIdle, Zenon DEF MethodInv
<1>5. CASE is_down = FALSE
  <2>1. UNCHANGED <<is_down, hooks, last, began>>
    BY <1>1, <1>2, <1>5, Zenon
  <2>2. Raised' /\ at' = Fixed(last')
    BY <1>2, <1>3, <1>5, <2>1, Zenon DEF Raised
  <2> QED
    BY <1>2, <1>5, <2>1, <2>2, Zenon DEF MethodInv, MethodType, MethodPhases
<1>6. CASE is_down = TRUE
  <2>1. is_down' = FALSE /\ at' = Fixed(last')
    BY <1>1, <1>2, <1>3, <1>6, Zenon
  <2>2. MethodType'
    <3>1. is_down' \in BOOLEAN
      BY <2>1, Zenon
    <3> QED
      BY <1>1, <1>2, <2>1, <3>1, Zenon DEF MethodInv, MethodType
  <2>4. MethodPhases'
    BY <1>2, <1>6, <2>1, Zenon DEF MethodInv, MethodType, MethodPhases
  <2> QED
    BY <2>2, <2>4, Zenon DEF MethodInv
<1> QED
  BY <1>5, <1>6, Zenon DEF MethodInv, MethodType

(* The server acts on the next hook, and what it does is what the hook     *)
(* says.                                                                   *)
LEMMA HookActs ==
  ASSUME Method!Hook, NEW name, NEW x, Head(hooks)[1] = name, Head(hooks)[2] = x
  PROVE  /\ hooks' = Tail(hooks) /\ UNCHANGED <<method, is_down, methodView, began, last>>
         /\ name = "move_absolute" =>
              /\ at' = x /\ UNCHANGED grab
              /\ methodWire' = Append(methodWire,
                     Method!On(IF grab = Method!Up THEN Method!WindowAt(x) ELSE grab[1], x))
         /\ name = "button_down" => grab' = <<Method!WindowAt(at)>> /\ UNCHANGED <<at, methodWire>>
         /\ name = "button_up" =>
              /\ grab' = Method!Up /\ UNCHANGED at
              /\ methodWire' = Append(methodWire, Method!On(Method!WindowAt(at), at))
         /\ name = "touch_down" =>
              /\ at' = Fixed(x) /\ grab' = <<WindowOf(x)>>
              /\ methodWire' = Append(methodWire, Method!On(WindowOf(x), Fixed(x)))
         /\ name = "touch_move" =>
              /\ at' = Fixed(x) /\ UNCHANGED grab
              /\ methodWire' = Append(methodWire, Method!On(grab[1], Fixed(x)))
         /\ name = "touch_up" =>
              /\ grab' = Method!Up /\ UNCHANGED at
                 /\ methodWire' = Append(methodWire, Method!Nowhere)
<1>1. hooks' = Tail(hooks) /\ UNCHANGED <<method, is_down, methodView, began, last>>
  BY Zenon DEF Method!Hook
<1>2. \/ /\ name = "move_absolute" /\ at' = x
         /\ Method!Tell(Method!On(IF grab = Method!Up THEN Method!WindowAt(x) ELSE grab[1], x))
         /\ UNCHANGED grab
      \/ /\ name = "button_down" /\ grab' = <<Method!WindowAt(at)>>
         /\ UNCHANGED <<at, methodWire>>
      \/ /\ name = "button_up" /\ grab' = Method!Up
         /\ Method!Tell(Method!On(Method!WindowAt(at), at)) /\ UNCHANGED at
      \/ /\ name = "touch_down" /\ at' = Method!wl_fixed_from_int(x)
         /\ grab' = <<Method!WindowAt(at')>> /\ Method!Tell(Method!On(Method!WindowAt(at'), at'))
      \/ /\ name = "touch_move" /\ at' = Method!wl_fixed_from_int(x)
         /\ Method!Tell(Method!On(grab[1], at')) /\ UNCHANGED grab
      \/ /\ name = "touch_up" /\ grab' = Method!Up
         /\ Method!Tell(Method!Nowhere) /\ UNCHANGED at
  BY Zenon DEF Method!Hook
<1>3. \A v : Method!Tell(v) <=> methodWire' = Append(methodWire, v)
  BY Zenon DEF Method!Tell
<1> QED
  BY <1>1, <1>2, <1>3, Zenon DEF Fixed, WindowOf

(* The server acts on a hook and tells the client where it is.            *)
LEMMA MethodHook ==
  ASSUME MethodInv, Method!Hook
  PROVE  MethodInv'
<1>0. hooks # <<>> /\ MethodType /\ last \in Int /\ began \in Int /\ Fixed(last) \in Int
  BY FixedIsInt, Zenon DEF Method!Hook, MethodInv, MethodType
<1>1. hooks' = Tail(hooks) /\ UNCHANGED <<method, is_down, methodView, began, last>>
  BY HookActs, Zenon
<1>2. ASSUME NEW v \in MethodViews, methodWire' = Append(methodWire, v)
      PROVE  MethodType' /\ Latest' = v
  BY <1>0, <1>1, <1>2, ToldIsLatest, Zenon DEF MethodType
<1>3. \A n : WindowOf(n) \in Windows \cup {None} /\ <<WindowOf(n)>>[1] = WindowOf(n)
      /\ <<WindowOf(n)>> # Method!Up
  BY WindowAtType, Zenon DEF WindowOf, Method!Up
<1>4. ASSUME NEW n PROVE Method!On(WindowOf(n), Fixed(last)) \in MethodViews
  BY <1>0, <1>3, OnType, Zenon
<1>5. Method!Nowhere \in MethodViews
  BY OnType DEF Method!Nowhere
<1>6. CASE hooks = Method!Pointer_down_at(last) /\ method = "pointer" /\ is_down = TRUE
           /\ began = last
           /\ grab = Method!Up
  <2>1. Head(hooks)[1] = "move_absolute" /\ Head(hooks)[2] = Fixed(last)
        /\ Tail(hooks) = << Method!left_button_down >>
    BY <1>6, HooksOfCalls, Zenon
  <2>2. at' = Fixed(last)
        /\ methodWire' = Append(methodWire, Method!On(WindowOf(last), Fixed(last)))
    BY <1>6, <2>1, HookActs, Zenon DEF WindowOf
  <2>3. MethodType' /\ Latest' = Method!On(WindowOf(last), Fixed(last))
    BY <1>2, <1>4, <2>2, Zenon
  <2> QED
    BY <1>1, <1>6, <2>1, <2>2, <2>3, Zenon DEF MethodInv, MethodPhases
<1>7. CASE /\ hooks = << Method!left_button_down >> /\ method = "pointer" /\ is_down = TRUE
              /\ began = last
           /\ at = Fixed(last) /\ Latest = Method!On(WindowOf(last), Fixed(last))
  <2>1. Head(hooks)[1] = "button_down" /\ Head(hooks)[2] = 0 /\ Tail(hooks) = <<>>
    BY <1>7, HooksOfCalls, Zenon DEF OneHook
  <2>2. grab' = <<WindowOf(last)>> /\ UNCHANGED <<at, methodWire>>
    BY <1>7, <2>1, HookActs, Zenon DEF WindowOf
  <2>3. MethodType' /\ Latest' = Latest
    BY <1>0, <1>1, <2>2, Zenon DEF MethodType, Latest
  <2>4. PutDown'
    BY <1>1, <1>7, <2>2, <2>3, Zenon DEF PutDown, Began
  <2> QED
    BY <1>1, <1>7, <2>1, <2>2, <2>3, <2>4, Zenon DEF MethodInv, MethodPhases
<1>8. CASE hooks = Method!Pointer_move_to(last) /\ method = "pointer" /\ is_down = TRUE /\ Began
  <2>1. Head(hooks)[1] = "move_absolute" /\ Head(hooks)[2] = Fixed(last) /\ Tail(hooks) = <<>>
    BY <1>8, HooksOfCalls, Zenon DEF OneHook
  <2>2. grab # Method!Up /\ grab[1] = WindowOf(began)
    BY <1>3, <1>8, Zenon DEF Began
  <2>3. at' = Fixed(last) /\ UNCHANGED grab
        /\ methodWire' = Append(methodWire, Method!On(WindowOf(began), Fixed(last)))
    BY <2>1, <2>2, HookActs, Zenon
  <2>4. MethodType' /\ Latest' = Method!On(WindowOf(began), Fixed(last))
    BY <1>2, <1>4, <2>3, Zenon
  <2>5. PutDown'
    BY <1>1, <1>8, <2>3, <2>4, Zenon DEF PutDown, Began
  <2> QED
    BY <1>1, <1>8, <2>1, <2>3, <2>4, <2>5, Zenon DEF MethodInv, MethodPhases
<1>9. CASE hooks = Method!Pointer_up /\ method = "pointer" /\ is_down = FALSE /\ at = Fixed(last)
  <2>1. Head(hooks)[1] = "button_up" /\ Head(hooks)[2] = 0 /\ Tail(hooks) = <<>>
    BY <1>9, HooksOfCalls, Zenon DEF OneHook
  <2>2. grab' = Method!Up /\ at' = at
        /\ methodWire' = Append(methodWire, Method!On(WindowOf(last), Fixed(last)))
    BY <1>9, <2>1, HookActs, Zenon DEF WindowOf
  <2>3. MethodType' /\ Latest' = Method!On(WindowOf(last), Fixed(last))
    BY <1>2, <1>4, <2>2, Zenon
  <2>4. Raised'
    BY <1>1, <1>9, <2>2, <2>3, Zenon DEF Raised
  <2> QED
    BY <1>1, <1>9, <2>1, <2>2, <2>3, <2>4, Zenon DEF MethodInv, MethodPhases
<1>10. CASE hooks = Method!Touch_down_at(last) /\ method = "touch" /\ is_down = TRUE /\ began = last
  <2>1. Head(hooks)[1] = "touch_down" /\ Head(hooks)[2] = last /\ Tail(hooks) = <<>>
    BY <1>10, HooksOfCalls, Zenon DEF OneHook
  <2>2. at' = Fixed(last) /\ grab' = <<WindowOf(last)>>
        /\ methodWire' = Append(methodWire, Method!On(WindowOf(last), Fixed(last)))
    BY <2>1, HookActs, Zenon
  <2>3. MethodType' /\ Latest' = Method!On(WindowOf(last), Fixed(last))
    BY <1>2, <1>4, <2>2, Zenon
  <2>4. PutDown'
    BY <1>1, <1>10, <2>2, <2>3, Zenon DEF PutDown, Began
  <2> QED
    BY <1>1, <1>10, <2>1, <2>2, <2>3, <2>4, Zenon DEF MethodInv, MethodPhases
<1>11. CASE hooks = Method!Touch_move_to(last) /\ method = "touch" /\ is_down = TRUE /\ Began
  <2>1. Head(hooks)[1] = "touch_move" /\ Head(hooks)[2] = last /\ Tail(hooks) = <<>>
    BY <1>11, HooksOfCalls, Zenon DEF OneHook
  <2>2. grab[1] = WindowOf(began)
    BY <1>3, <1>11, Zenon DEF Began
  <2>3. at' = Fixed(last) /\ UNCHANGED grab
        /\ methodWire' = Append(methodWire, Method!On(WindowOf(began), Fixed(last)))
    BY <2>1, <2>2, HookActs, Zenon
  <2>4. MethodType' /\ Latest' = Method!On(WindowOf(began), Fixed(last))
    BY <1>2, <1>4, <2>3, Zenon
  <2>5. PutDown'
    BY <1>1, <1>11, <2>3, <2>4, Zenon DEF PutDown, Began
  <2> QED
    BY <1>1, <1>11, <2>1, <2>3, <2>4, <2>5, Zenon DEF MethodInv, MethodPhases
<1>12. CASE hooks = Method!Touch_up /\ method = "touch" /\ is_down = FALSE /\ at = Fixed(last)
  <2>1. Head(hooks)[1] = "touch_up" /\ Head(hooks)[2] = 0 /\ Tail(hooks) = <<>>
    BY <1>12, HooksOfCalls, Zenon DEF OneHook
  <2>2. grab' = Method!Up /\ at' = at /\ methodWire' = Append(methodWire, Method!Nowhere)
    BY <2>1, HookActs, Zenon
  <2>3. MethodType' /\ Latest' = Method!Nowhere
    BY <1>2, <1>5, <2>2, Zenon
  <2>4. Raised'
    BY <1>1, <1>12, <2>2, <2>3, Zenon DEF Raised
  <2> QED
    BY <1>1, <1>12, <2>1, <2>2, <2>3, <2>4, Zenon DEF MethodInv, MethodPhases
<1> QED
  BY <1>0, <1>6, <1>7, <1>8, <1>9, <1>10, <1>11, <1>12, Zenon DEF MethodInv, MethodPhases

(* A view is dispatched between two calls, and the latest stays the latest. *)
LEMMA MethodDispatch ==
  ASSUME MethodInv, Method!Dispatch
  PROVE  MethodInv'
<1>1. /\ hooks = <<>> /\ methodWire # <<>> /\ methodView' = Head(methodWire)
         /\ methodWire' = Tail(methodWire)
      /\ UNCHANGED <<method, is_down, hooks, at, grab, began, last>>
  BY Zenon DEF Method!Dispatch
<1>2. methodWire \in Seq(MethodViews)
  BY Zenon DEF MethodInv, MethodType
<1>3. /\ Head(methodWire) = methodWire[1] /\ Len(methodWire) \in Nat \ {0}
      /\ Len(Tail(methodWire)) = Len(methodWire) - 1 /\ Tail(methodWire) \in Seq(MethodViews)
      /\ \A i \in 1 .. Len(methodWire) - 1 : Tail(methodWire)[i] = methodWire[i + 1]
  BY <1>1, <1>2
<1>4. Tail(methodWire) = <<>> <=> Len(Tail(methodWire)) = 0
  BY <1>3
<1>5. Latest' = Latest
  BY <1>1, <1>3, <1>4 DEF Latest
<1>6. MethodType'
  BY <1>1, <1>3, Zenon DEF MethodInv, MethodType
<1>7. at = Fixed(last) /\ (is_down = TRUE => PutDown) /\ (is_down = FALSE => Raised)
  BY <1>1, MethodIdle, Zenon DEF MethodInv
<1>8. at' = Fixed(last') /\ (is_down' = TRUE => PutDown') /\ (is_down' = FALSE => Raised')
  BY <1>1, <1>5, <1>7, Zenon DEF PutDown, Began, Raised
<1> QED
  BY <1>1, <1>6, <1>8, Zenon DEF MethodInv, MethodPhases

(* Every call and every hook keeps the invariant.                         *)
LEMMA MethodNext == MethodInv /\ [Method!Next]_methodVars => MethodInv'
<1> SUFFICES ASSUME MethodInv, [Method!Next]_methodVars PROVE MethodInv'
  BY Zenon
<1>1. CASE Method!Next
  BY <1>1, MethodDown, MethodMoves, MethodUp, MethodHook, MethodDispatch, Zenon DEF Method!Next
<1>2. CASE UNCHANGED methodVars
  <2>1. UNCHANGED <<method, is_down, hooks, at, grab, methodWire, methodView, began, last>>
    BY <1>2, Zenon DEF methodVars
  <2>2. Latest' = Latest
    BY <2>1, Zenon DEF Latest
  <2>3. MethodPhases'
    BY <2>1, <2>2, Zenon DEF MethodInv, MethodPhases, PutDown, Began, Raised
  <2> QED
    BY <2>1, <2>3, Zenon DEF MethodInv, MethodType
<1> QED
  BY <1>1, <1>2, Zenon

(* wl_fixed_to_int() takes back what wl_fixed_from_int() made.             *)
LEMMA FixedRoundTrip == \A n \in Int : Method!wl_fixed_to_int(256 * n) = n
BY DEF Method!wl_fixed_to_int

(* The invariant gives what is promised of the methods.                   *)
LEMMA MethodCorrect ==
  ASSUME MethodInv
  PROVE  Method!MethodsAgree
<1> SUFFICES ASSUME hooks = <<>>, methodWire = <<>>
             PROVE  LET put == Method!wl_fixed_from_int(IF is_down THEN began ELSE last)
                        on == IF is_down \/ method = "pointer" THEN Method!WindowAt(put) ELSE None
                    IN /\ is_down = (grab # Method!Up)
                       /\ Method!current_surface = on
                       /\ on # None => Method!position_on_surface = last - on
  BY Zenon DEF Method!MethodsAgree
<1> DEFINE from == IF is_down THEN began ELSE last
           on == IF is_down \/ method = "pointer" THEN WindowOf(from) ELSE None
<1>1. (is_down = TRUE => PutDown) /\ (is_down = FALSE => Raised) /\ is_down \in BOOLEAN
      /\ last \in Int
      /\ method \in {"pointer", "touch"}
  BY MethodIdle, Zenon DEF MethodInv, MethodType
<1>2. Latest = methodView
  BY Zenon DEF Latest
<1>3. \A n : <<WindowOf(n)>> # Method!Up
  BY Zenon DEF Method!Up
<1>4. is_down = TRUE <=> grab # Method!Up
  BY <1>1, <1>3, Zenon DEF PutDown, Began, Raised
<1>5. is_down = (grab # Method!Up)
  BY <1>1, <1>4, Zenon
<1>6. \E w : on = w /\ w \in Windows \cup {None} /\ (methodView = Method!On(w, Fixed(last))
      \/ (w = None /\ methodView = Method!Nowhere))
  <2>1. \A n : WindowOf(n) \in Windows \cup {None}
    BY WindowAtType, Zenon DEF WindowOf
  <2>2. CASE is_down = TRUE
    <3>1. on = WindowOf(began)
      BY <2>2, Zenon
    <3> HIDE DEF on
    <3> QED
      BY <2>1, <2>2, <3>1, <1>1, <1>2, Zenon DEF PutDown
  <2>3. CASE is_down = FALSE /\ method = "pointer"
    <3>1. on = WindowOf(last)
      BY <2>3, Zenon
    <3> HIDE DEF on
    <3> QED
      BY <2>1, <2>3, <3>1, <1>1, <1>2, Zenon DEF Raised
  <2>4. CASE is_down = FALSE /\ method = "touch"
    <3>1. on = None
      BY <2>4, Zenon
    <3> HIDE DEF on
    <3> QED
      BY <2>4, <3>1, <1>1, <1>2, Zenon DEF Raised
  <2> QED
    BY <2>2, <2>3, <2>4, <1>1, Zenon
<1>7. PICK w : on = w /\ w \in Windows \cup {None} /\ (methodView = Method!On(w, Fixed(last))
           \/ (w = None /\ methodView = Method!Nowhere))
  BY <1>6, Zenon
<1>8. methodView[1] = w
  BY <1>7 DEF Method!On, Method!Nowhere
<1>9. w # None => Method!wl_fixed_to_int(methodView[2]) = last - w
  <2>1. ASSUME w # None PROVE Method!wl_fixed_to_int(methodView[2]) = last - w
    <3>1. w \in Int
      BY <1>7, <2>1, WindowsAssumption, Zenon
    <3>2. methodView[2] = 256 * (last - w)
      BY <1>1, <1>7, <2>1, <3>1 DEF Method!On, Fixed, Method!wl_fixed_from_int
    <3>3. last - w \in Int
      BY <1>1, <3>1
    <3> QED
      BY <3>2, <3>3, FixedRoundTrip, Zenon
  <2> QED
    BY <2>1, Zenon
<1>10. on = IF is_down
       \/ method = "pointer" THEN Method!WindowAt(Method!wl_fixed_from_int(from)) ELSE None
  BY Zenon DEF WindowOf, Fixed
<1> QED
  BY <1>5, <1>7, <1>8, <1>9, <1>10, Zenon DEF Method!current_surface, Method!position_on_surface

-----------------------------------------------------------------------------
(* What each listener keeps, of itself and of the events on their way.     *)
InputInv ==
    /\ PointerWatch /\ (PointerPlain => PointerInv)
    /\ touchCrossed \in Nat /\ (TouchPlain => TouchInv)
    /\ KeyboardInv /\ SeatInv /\ MethodInv

(* The invariants of the five listeners hold together in the composition. *)
LEMMA InputInvariant == InputSpec => []InputInv
<1>1. InputInit => InputInv
  <2> SUFFICES ASSUME InputInit PROVE InputInv
    BY Zenon
  <2>1. touchCrossed \in Nat
    BY DEF InputInit, Touch!Init
  <2> QED
    BY <2>1, PointerInit, WatchInit, TouchInit, KeyboardInit, SeatInit, MethodInit, Zenon
       DEF InputInit, InputInv
<1>2. InputInv /\ [InputNext]_inputVars => InputInv'
  <2> SUFFICES ASSUME InputInv, [InputNext]_inputVars PROVE InputInv'
    BY Zenon
  <2>1. /\ [Pointer!Next]_pointerVars /\ [Touch!Next]_touchVars /\ [Keyboard!Next]_keyboardVars
        /\ [Seat!Next]_seatVars /\ [Method!Next]_methodVars
    BY Zenon DEF InputNext, inputVars
  <2>2. PointerWatch' /\ (PointerPlain' => PointerInv')
    BY <2>1, WatchNext, PointerNext, Zenon DEF InputInv
  <2>3. touchCrossed' \in Nat /\ (TouchPlain' => TouchInv')
    BY <2>1, TouchStaysPlain, TouchNext, Zenon DEF InputInv
  <2> QED
    BY <2>1, <2>2, <2>3, KeyboardNext, SeatNext, MethodNext, Zenon DEF InputInv
<1> QED
  BY <1>1, <1>2, PTL DEF InputSpec

(* Whatever events a compositor sends and whatever surfaces the test       *)
(* destroys while they are on their way: a pointer or touch handler FAILs  *)
(* the test only once a capabilities event gave the client a second object *)
(* of the kind, or one frame moved the pointer on after an enter or had    *)
(* several kinds of events for a touch point.  No object is asked for of a *)
(* capability the seat never had.                                          *)
THEOREM HandlersNeverFail == InputSpec => []NoSpuriousFailure
<1>1. InputInv => NoSpuriousFailure
  <2> SUFFICES ASSUME InputInv PROVE NoSpuriousFailure
    BY Zenon
  <2>1. failed => ~PointerPlain
    BY PointerCorrect, Zenon DEF InputInv
  <2>2. touchFailed => ~TouchPlain
    BY TouchCorrect, Zenon DEF InputInv
  <2>3. Pointer!NoSpuriousFailure
    BY <2>1 DEF Pointer!NoSpuriousFailure, PointerPlain, InputInv, PointerWatch, PointerSent
  <2>4. Touch!NoSpuriousFailure
    BY <2>2 DEF Touch!NoSpuriousFailure, TouchPlain, InputInv
  <2> QED
    BY <2>3, <2>4, SeatCorrect, Zenon DEF InputInv, NoSpuriousFailure
<1> QED
  BY <1>1, InputInvariant, PTL

(* With one wl_pointer and one wl_touch: once everything was dispatched    *)
(* and no frame is open, the client's pointer, buttons and touches are the *)
(* seat's, unless one frame moved the pointer on after an enter or had     *)
(* several kinds of events for a touch point.  The keyboard focus is the   *)
(* seat's with one wl_keyboard or two.                                     *)
THEOREM ClientFollowsSeat ==
  InputSpec => [](/\ doubled = "no" /\ touchDoubled = "no" => FollowsSeat
                  /\ Keyboard!FocusIsCurrent)
<1>1. ASSUME InputInv
      PROVE  /\ doubled = "no" /\ touchDoubled = "no" => FollowsSeat
             /\ Keyboard!FocusIsCurrent
  <2>1. doubled = "no" => Pointer!FollowsSeat
    BY <1>1, PointerCorrect, Zenon DEF InputInv, PointerPlain, Pointer!FollowsSeat
  <2>2. touchDoubled = "no" => Touch!FollowsSeat
    BY <1>1, TouchCorrect, Zenon DEF InputInv, TouchPlain, Touch!FollowsSeat
  <2>3. Keyboard!FocusIsCurrent
    BY <1>1, KeyboardCorrect, Zenon DEF InputInv
  <2> QED
    BY <2>1, <2>2, <2>3, Zenon DEF FollowsSeat
<1> QED
  BY <1>1, InputInvariant, PTL

(* Notifiers told of enters, leaves and motions, whenever they were added, *)
(* know where window_under_cursor() and pointer_position() say it is, for  *)
(* any frames, sent once or twice.                                         *)
THEOREM WatchersAgree == InputSpec => []NotificationsAgree
<1>1. InputInv => NotificationsAgree
  BY Zenon DEF InputInv, PointerWatch, PointerTold, NotificationsAgree
<1> QED
  BY <1>1, InputInvariant, PTL

(* However often capabilities come and go, once everything has arrived the *)
(* client holds an object that receives for each the seat has.             *)
THEOREM MembersReceive == InputSpec => []MemberReceives
<1>1. InputInv => MemberReceives
  BY SeatCorrect, Zenon DEF InputInv, MemberReceives
<1> QED
  BY <1>1, InputInvariant, PTL

(* For any surfaces and any calls of a test, refused ones included, the    *)
(* pointer and the touch method leave the client on the same surface and   *)
(* at the same place of it.                                                *)
THEOREM MethodsInterchange == InputSpec => []MethodsAgree
<1>1. InputInv => MethodsAgree
  BY MethodCorrect, Zenon DEF InputInv, MethodsAgree
<1> QED
  BY <1>1, InputInvariant, PTL
=============================================================================
