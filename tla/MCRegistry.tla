----------------------------- MODULE MCRegistry -----------------------------
(* Instances of Registry for TLC.                                           *)
EXTENDS Registry, TLC

KnownVersions == "wl_output" :> 2 @@ "wl_shell" :> 1
Descriptor == << [name |-> "wl_output", version |-> 3], [name |-> "wl_output", version |-> 1] >>
DeclaredOutput == extract_supported_extensions(Descriptor)
SymmetricIds == Permutations(Ids)
=============================================================================
