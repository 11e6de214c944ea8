------------------------------ MODULE Geometry ------------------------------
(***************************************************************************)
(* Points, sizes, displacements and rectangles (include/geometry).  The    *)
(* coordinates of a Rectangle<int> are integers; a rectangle is the set of *)
(* the points from its top left to its bottom right, that one excluded.    *)
(***************************************************************************)
EXTENDS Integers

Point(x, y) == [x |-> x, y |-> y]

Size(width, height) == [width |-> width, height |-> height]

Displacement(dx, dy) == [dx |-> dx, dy |-> dy]

Moved(p, d) == Point(p.x + d.dx, p.y + d.dy)

MovedBack(p, d) == Point(p.x - d.dx, p.y - d.dy)

as_displacement(size) == Displacement(size.width, size.height)

Rectangle(top_left, size) == [top_left |-> top_left, size |-> size]

bottom_right(r) == Moved(r.top_left, as_displacement(r.size))

left(r) == r.top_left.x
top(r) == r.top_left.y
right(r) == bottom_right(r).x
bottom(r) == bottom_right(r).y

Empty(r) == r.size.width = 0 \/ r.size.height = 0

contains(r, p) ==
    /\ ~Empty(r)
    /\ p.x >= left(r) /\ p.x < right(r)
    /\ p.y >= top(r) /\ p.y < bottom(r)

contains_rectangle(a, b) ==
    /\ left(b) >= left(a) /\ right(b) <= right(a)
    /\ top(b) >= top(a) /\ bottom(b) <= bottom(a)

(* Mutant: rectangles that touch overlap.                                  *)
overlaps_touching(a, b) ==
    ~ \/ left(b) > right(a) \/ right(b) < left(a)
      \/ top(b) > bottom(a) \/ bottom(b) < top(a)
      \/ Empty(a) \/ Empty(b)

overlaps(a, b) ==
    ~ \/ left(b) >= right(a) \/ right(b) <= left(a)
      \/ top(b) >= bottom(a) \/ bottom(b) <= top(a)
      \/ Empty(a) \/ Empty(b)

Larger(m, n) == IF m < n THEN n ELSE m
Smaller(m, n) == IF n < m THEN n ELSE m

intersection_of(a, b) ==
    LET max_left   == Larger(left(a), left(b))
        min_right  == Smaller(right(a), right(b))
        max_top    == Larger(top(a), top(b))
        min_bottom == Smaller(bottom(a), bottom(b))
    IN  IF max_left < min_right /\ max_top < min_bottom
        THEN Rectangle(Point(max_left, max_top),
                       Size(min_right - max_left, min_bottom - max_top))
        ELSE Rectangle(Point(0, 0), Size(0, 0))

-----------------------------------------------------------------------------
(* The reference: the points of a rectangle.                               *)
Points(r) == [x : left(r) .. right(r) - 1, y : top(r) .. bottom(r) - 1]

(* Contains, overlaps and intersection_of are membership, non-empty        *)
(* intersection and intersection of the sets of points, for sizes that are *)
(* not negative; for one that is not empty, so is contains of a rectangle. *)
RectanglesAreSets(a, b) ==
    /\ \A p \in Points(a) \cup Points(b) : contains(a, p) <=> p \in Points(a)
    /\ overlaps(a, b) <=> Points(a) \cap Points(b) # {}
    /\ Points(intersection_of(a, b)) = Points(a) \cap Points(b)
    /\ ~Empty(b) => (contains_rectangle(a, b) <=> Points(b) \subseteq Points(a))
=============================================================================
