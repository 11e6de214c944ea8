------------------------------ MODULE Versions ------------------------------
(***************************************************************************)
(* Which version of a global a test binds (src/version_specifier.cpp):     *)
(* a VersionSpecifier is exactly, at least or at most a version.           *)
(***************************************************************************)
EXTENDS Integers

VersionNumbers == Nat \ {0}
Specifiers == [kind : {"exactly", "atLeast", "atMost"}, version : VersionNumbers]

ExactlyVersion(v) == [kind |-> "exactly", version |-> v]
AtLeastVersion(v) == [kind |-> "atLeast", version |-> v]
AtMostVersion(v) == [kind |-> "atMost", version |-> v]
AnyVersion == AtLeastVersion(1)

NoVersion == 0    \* an empty optional: no version of Wayland is 0
LogicError == -1  \* select_version throws std::logic_error

Lesser(m, n) == IF m <= n THEN m ELSE n

(* Mutant: the newest version the compositor has, known to WLCS or not.    *)
SelectVersionUnknown(spec, available, supported) ==
    IF spec.kind = "atMost" THEN Lesser(spec.version, available)
    ELSE IF spec.version > supported THEN LogicError
    ELSE IF spec.version > available THEN NoVersion
    ELSE IF spec.kind = "exactly" THEN spec.version ELSE available

SelectVersion(spec, available, supported) ==
    IF spec.kind = "atMost" THEN Lesser(spec.version, Lesser(available, supported))
    ELSE IF spec.version > supported THEN LogicError
    ELSE IF spec.version > available THEN NoVersion
    ELSE IF spec.kind = "exactly" THEN spec.version ELSE Lesser(available, supported)

(* What a specifier means.                                                 *)
Admits(spec, v) ==
    /\ spec.kind = "exactly" => v = spec.version
    /\ spec.kind = "atLeast" => v >= spec.version
    /\ spec.kind = "atMost" => v <= spec.version

(* Versions that the compositor offers, WLCS knows and the test accepts.   *)
Candidates(spec, available, supported) ==
    { v \in 1 .. Lesser(available, supported) : Admits(spec, v) }
=============================================================================
