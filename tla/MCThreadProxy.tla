--------------------------- MODULE MCThreadProxy ---------------------------
(* Instances of ThreadProxy for TLC.                                        *)
EXTENDS ThreadProxy, TLC

CONSTANTS t1, t2,     \* threads
          f, g        \* callables

FRegistered == <<f>>
FGRegistered == <<f, g>>
=============================================================================
