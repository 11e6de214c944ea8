--------------------------- MODULE HelperObjects ---------------------------
(***************************************************************************)
(* What a test uses of the client library beside the life of its surfaces  *)
(* and what they are told: buffers with their release notifiers, the       *)
(* listeners of data devices and selections, and what the surface builders *)
(* and the geometry types compute.                                         *)
(***************************************************************************)
EXTENDS ObjectKinds, Integers, Sequences

CONSTANTS Proxies, ClassOf, Addresses, Free,
          Listeners,
          Positions, Sizes, Rectangles,
          MaxAttached, MaxOperand, MaxValue   \* bounds

(* No object has a class of its own.                                       *)
ASSUME FreeAssumption == Free \notin {"offer"} \cup { ClassOf[p] : p \in Proxies }

(* Coordinates are integers, sizes are not negative.                       *)
ASSUME PlaneAssumption ==
    /\ Positions \subseteq [x : Int, y : Int]
    /\ Sizes \subseteq [width : Nat, height : Nat]
    /\ Rectangles \subseteq [top_left : [x : Int, y : Int], size : [width : Nat, height : Nat]]

Plane == INSTANCE Geometry

VARIABLES memory, active_listeners, data, destroyed, called, fd,
          buffer, fds, names, mappings, refused, attached, events, release_notifiers, added,
          finished, together, recalled, undefined,
          builder, position, size, geometry, window, built,
          value, first, second

Selection == INSTANCE Selections

Buffer == INSTANCE ShmBuffers

Builder == INSTANCE SurfaceBuilders

Dimension == INSTANCE Dimensions

selectionVars == <<memory, active_listeners, data, destroyed, called, fd>>
bufferVars == <<buffer, fds, names, mappings, refused, attached, events, release_notifiers,
                added, finished, together, recalled, undefined>>
valueVars == <<builder, position, size, geometry, window, built, value, first, second>>
helpersVars == <<kind, selectionVars, bufferVars, valueVars>>

(* Two rectangles, again and again.                                        *)
PickRectangles ==
    /\ first = Plane!Rectangle(Plane!Point(0, 0), Plane!Size(0, 0))
    /\ first' \in Rectangles /\ second' \in Rectangles
    /\ UNCHANGED <<builder, position, size, geometry, window, built, value>>

HelpersInit ==
    /\ kind \in Kinds
    /\ Selection!Init /\ Buffer!Init /\ Builder!Init /\ Dimension!Init
    /\ first = Plane!Rectangle(Plane!Point(0, 0), Plane!Size(0, 0)) /\ second = first
    /\ kind = "built" \/ /\ builder = Builder!WlShellSurfaceBuilder
                          /\ position = (CHOOSE p \in Positions : TRUE)
                          /\ size = (CHOOSE s \in Sizes : TRUE)
    /\ kind = "value" \/ value = Dimension!Measured("x", "delta", 0)

HelpersNext ==
    /\ UNCHANGED kind
    /\ \/ kind = "selection" /\ Selection!Next
       \/ kind # "selection" /\ UNCHANGED selectionVars
    /\ \/ kind = "buffer" /\ Buffer!Next
       \/ kind # "buffer" /\ UNCHANGED bufferVars
    /\ \/ kind = "built" /\ Builder!Next /\ UNCHANGED <<value, first, second>>
       \/ kind = "value" /\ Dimension!Next
            /\ UNCHANGED <<builder, position, size, geometry, window, built, first, second>>
       \/ kind = "rectangle" /\ PickRectangles
       \/ kind \notin {"built", "value", "rectangle"} /\ UNCHANGED valueVars

HelpersSpec == HelpersInit /\ [][HelpersNext]_helpersVars

-----------------------------------------------------------------------------
(* A thunk calls a live listener of its own class, never one that was      *)
(* destroyed or that another class has put at the same address, and never  *)
(* passes over one that lives: the fd of a send stays open only when no    *)
(* listener of sources is there to close it.                               *)
CallsOwnClass == Selection!CallsOwnClass

(* Through any sequence of releases a buffer has no notifier twice; as     *)
(* long as no two have returned false on the same release it keeps exactly *)
(* those that have not returned false.  However the kernel answers, its    *)
(* constructor closes the file it opened and throws only for an error that *)
(* has no answer.                                                          *)
BuffersExact == Buffer!NotifiersExact /\ Buffer!NothingLeaks

(* A built surface has its buffer where the test asked for it, whatever    *)
(* its builder's kind and offsets.                                         *)
BuiltInPlace == kind = "built" => Builder!BuiltInPlace

(* No sequence of the operators on coordinates, deltas and extents makes a *)
(* value that depends on the origin unless it is a coordinate.             *)
FrameIndependent == kind = "value" => Dimension!FrameIndependent

(* Contains, overlaps and intersection_of are the operations on sets of    *)
(* points.                                                                 *)
RectanglesAreSets == kind = "rectangle" => Plane!RectanglesAreSets(first, second)
=============================================================================
