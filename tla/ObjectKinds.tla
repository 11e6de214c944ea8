---------------------------- MODULE ObjectKinds ----------------------------
(***************************************************************************)
(* The kinds of objects a test makes with a client.  They share no state   *)
(* in the program, so steps of two of them commute and a behaviour is one  *)
(* of a single kind; the parts that do not move keep one of their initial  *)
(* values.                                                                 *)
(***************************************************************************)
CONSTANT None   \* no object

VARIABLE kind

Kinds == {"surface", "configure", "built", "value", "rectangle",
          "output", "selection", "buffer", "owner", "shown"}
=============================================================================
