-------------------------- MODULE SurfaceBuilders --------------------------
(***************************************************************************)
(* The surface builders of the parameterised tests                         *)
(* (src/surface_builder.cpp): each makes a surface of another kind whose   *)
(* buffer shall be at the place and of the size that the test asked for.   *)
(*                                                                         *)
(* The compositor (external) puts the top left of a window, which is that  *)
(* of its window geometry, where move_surface_to() says, and a subsurface  *)
(* relative to its parent.                                                 *)
(***************************************************************************)
EXTENDS Geometry, Sequences

CONSTANTS Positions, Sizes,   \* that tests ask for
          None

NoOffset == [left |-> 0, top |-> 0, right |-> 0, bottom |-> 0]

WlShellSurfaceBuilder == [name |-> <<"wl_shell_surface">>, type |-> "toplevel", offset |-> NoOffset]

XdgV6SurfaceBuilder == [name |-> <<"zxdg_surface_v6">>, type |-> "toplevel", offset |-> NoOffset]

XdgStableSurfaceBuilder(l, t, r, b) ==
    [name |-> <<"xdg_surface_stable">> \o IF {l, t, r, b} = {0} THEN <<>> ELSE <<l, t, r, b>>,
     type |-> "xdg",
     offset |-> [left |-> l, top |-> t, right |-> r, bottom |-> b]]

SubsurfaceBuilder(x, y) ==
    [name |-> <<"subsurface_at", x, y>>, type |-> "subsurface",
     offset |-> [NoOffset EXCEPT !.left = x, !.top = y]]

all_surface_types ==
    <<WlShellSurfaceBuilder, XdgV6SurfaceBuilder, XdgStableSurfaceBuilder(0, 0, 0, 0),
      XdgStableSurfaceBuilder(12, 5, 20, 6), SubsurfaceBuilder(0, 0), SubsurfaceBuilder(7, 12)>>

toplevel_surface_types ==
    <<WlShellSurfaceBuilder, XdgV6SurfaceBuilder, XdgStableSurfaceBuilder(0, 0, 0, 0)>>

VARIABLES builder, position, size,   \* what the test asked for
          geometry,                  \* of the window, relative to its buffer
          window,                    \* where the top left of the geometry is on screen
          built                      \* where the surface's buffer is on screen

vars == <<builder, position, size, geometry, window, built>>

Init ==
    /\ builder \in { all_surface_types[k] : k \in DOMAIN all_surface_types }
    /\ position \in Positions /\ size \in Sizes
    /\ geometry = None /\ window = None /\ built = None

(* The window's surface is made and its buffer attached; that of a         *)
(* subsurface's parent is 80 by 50.                                        *)
Make ==
    /\ geometry = None
    /\ geometry' =
         CASE builder.type = "toplevel" -> Rectangle(Point(0, 0), size)
           [] builder.type = "xdg" ->
                Rectangle(Point(builder.offset.left, builder.offset.top),
                          Size(size.width - builder.offset.left - builder.offset.right,
                               size.height - builder.offset.bottom - builder.offset.top))
           [] builder.type = "subsurface" -> Rectangle(Point(0, 0), Size(80, 50))
    /\ UNCHANGED <<builder, position, size, window, built>>

Offset == Displacement(builder.offset.left, builder.offset.top)

(* Mutant: the window is moved as if its geometry began at the buffer.     *)
TargetUnshifted == position

(* Where move_surface_to() is told to put the window.                      *)
Target ==
    CASE builder.type = "toplevel" -> position
      [] builder.type = "xdg" -> Moved(position, Offset)
      [] builder.type = "subsurface" -> MovedBack(position, Offset)

Move ==
    /\ geometry # None /\ window = None
    /\ window' = Target
    /\ UNCHANGED <<builder, position, size, geometry, built>>

(* The buffer's place follows from the window's and, for a subsurface,     *)
(* from the position it is created at.                                     *)
Return ==
    /\ window # None /\ built = None
    /\ LET buffer == MovedBack(window, Displacement(geometry.top_left.x, geometry.top_left.y))
       IN built' = Rectangle(IF builder.type = "subsurface" THEN Moved(buffer, Offset) ELSE buffer,
                             size)
    /\ UNCHANGED <<builder, position, size, geometry, window>>

Next == Make \/ Move \/ Return

Spec == Init /\ [][Next]_vars

-----------------------------------------------------------------------------
(* Whatever its kind and its offsets, a built surface has its buffer where *)
(* the test asked for it, and the window geometry lies within the buffer   *)
(* when that is at least as large as the offsets; builders that a test is  *)
(* parameterised with have different names, as gtest demands.              *)
BuiltInPlace ==
    /\ built # None => built = Rectangle(position, size)
    /\ geometry # None /\ builder.type # "subsurface" =>
          (geometry.size.width >= 0 /\ geometry.size.height >= 0 =>
              contains_rectangle(Rectangle(Point(0, 0), size), geometry))
    /\ \A i, j \in DOMAIN all_surface_types :
          all_surface_types[i].name = all_surface_types[j].name => i = j
    /\ \A i \in DOMAIN toplevel_surface_types :
          \E j \in DOMAIN all_surface_types : toplevel_surface_types[i] = all_surface_types[j]
=============================================================================
