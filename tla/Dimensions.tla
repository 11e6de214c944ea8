----------------------------- MODULE Dimensions -----------------------------
(***************************************************************************)
(* The arithmetic on the coordinates, deltas and extents of one axis that  *)
(* include/geometry/dimensions.h allows: X and Y, DeltaX and DeltaY, Width *)
(* and Height.  "Wraps a geometry value and prevents it from being         *)
(* accidentally used for invalid operations": which operations are         *)
(* declared is the type system of the header.  Its explicit conversions    *)
(* (as_x, as_delta, ...) get around it by intent and are left out.         *)
(*                                                                         *)
(* A value is computed in two frames, whose origins differ by Origin.      *)
(***************************************************************************)
EXTENDS Integers

CONSTANTS MaxOperand, MaxValue   \* bounds: of operands and results

Operands == -MaxOperand .. MaxOperand

Axes == {"x", "y"}
Origin == [x |-> 1, y |-> 3]
Sorts == {"coordinate", "delta", "extent"}

VARIABLE value

vars == <<value>>

Shift(axis, sort) == IF sort = "coordinate" THEN Origin[axis] ELSE 0

(* What a program starts with: the same thing measured in both frames.     *)
Measured(axis, sort, n) ==
    [axis |-> axis, sort |-> sort, here |-> n, there |-> n + Shift(axis, sort)]

-----------------------------------------------------------------------------
(* The operators: the sorts of both operands and of the result.            *)
DeltaOperators == { <<"+", "delta", "delta", "delta">>, <<"-", "delta", "delta", "delta">> }

CoordinateOperators ==
    { <<"+", "coordinate", "delta", "coordinate">>, <<"-", "coordinate", "delta", "coordinate">> }

ExtentOperators == { <<"+", "extent", "delta", "extent">>, <<"-", "extent", "delta", "extent">> }

ExtentSums == { <<"+", "extent", "extent", "extent">> }

(* Mutant: the difference of two positions is a position.                  *)
CoordinateDifferencesPlaced == { <<"-", "coordinate", "coordinate", "coordinate">> }

CoordinateDifferences == { <<"-", "coordinate", "coordinate", "delta">> }

ExtentDifferences == { <<"-", "extent", "extent", "delta">> }

Scalable == {"extent", "delta"}

Operators ==
    DeltaOperators \cup CoordinateOperators \cup ExtentOperators \cup ExtentSums
        \cup CoordinateDifferences \cup ExtentDifferences

Apply(op, m, n) == IF op = "+" THEN m + n ELSE m - n

Small(v) == v.here \in -MaxValue .. MaxValue

Init == value \in { Measured(a, s, n) : a \in Axes, s \in Sorts, n \in Operands }

Combine(o, n) ==
    /\ value.sort = o[2]
    /\ LET rhs == Measured(value.axis, o[3], n)
       IN value' = [value EXCEPT !.sort = o[4],
                                 !.here = Apply(o[1], @, rhs.here),
                                 !.there = Apply(o[1], @, rhs.there)]
    /\ Small(value')

Negate ==
    /\ value.sort = "delta"
    /\ value' = [value EXCEPT !.here = -@, !.there = -@]

Multiply(k) ==
    /\ value.sort \in Scalable
    /\ value' = [value EXCEPT !.here = k * @, !.there = k * @]
    /\ Small(value')

(* C++ division rounds towards zero.                                       *)
Quotient(n, k) == IF n < 0 THEN -((-n) \div k) ELSE n \div k

Divide(k) ==
    /\ value.sort \in Scalable /\ k > 0
    /\ value' = [value EXCEPT !.here = Quotient(@, k), !.there = Quotient(@, k)]

Next ==
    \/ \E o \in Operators, n \in Operands : Combine(o, n)
    \/ Negate
    \/ \E k \in Operands : Multiply(k) \/ Divide(k)

Spec == Init /\ [][Next]_vars

-----------------------------------------------------------------------------
(* No sequence of the declared operators makes a value that depends on     *)
(* where the origin is, unless it is a coordinate, which moves with it.    *)
FrameIndependent == value.there = value.here + Shift(value.axis, value.sort)
=============================================================================
