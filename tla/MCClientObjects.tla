-------------------------- MODULE MCClientObjects --------------------------
(***************************************************************************)
(* The objects a test makes with a client: its surfaces, those that keep   *)
(* what they are told, and the others.  Spec implies SurfacesSpec,         *)
(* ObserversSpec and HelpersSpec, which speak of the variables of their    *)
(* own parts only.                                                         *)
(***************************************************************************)
EXTENDS SurfaceObjects, ObserverObjects, HelperObjects, TLC

vars == <<surfacesVars, observersVars, helpersVars>>

Init == SurfacesInit /\ ObserversInit /\ HelpersInit

Next == SurfacesNext /\ ObserversNext /\ HelpersNext

Spec == Init /\ [][Next]_vars

-----------------------------------------------------------------------------
CONSTANTS dev, off, src, src2,
          MaxSide   \* bound

MCProxies == {dev, off, src, src2}
MCClassOf == (dev :> "device") @@ (off :> "offer") @@ (src :> "source") @@ (src2 :> "source")

MCPositions == { Plane!Point(0, 0), Plane!Point(100, 200), Plane!Point(5, 3) }
MCSizes == { Plane!Size(50, 50), Plane!Size(200, 100), Plane!Size(10, 5) }
MCRectangles == { Plane!Rectangle(Plane!Point(x, y), Plane!Size(w, h)) :
                    x, y \in -1 .. MaxSide - 1, w, h \in 0 .. MaxSide }

Symmetric == Permutations(Addresses)
=============================================================================
