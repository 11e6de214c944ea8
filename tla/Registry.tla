------------------------------ MODULE Registry ------------------------------
(***************************************************************************)
(* What a wlcs::Client knows of the compositor's globals                   *)
(* (src/in_process_server.cpp: global_handler, global_removed) and what    *)
(* bind_if_supported() makes of it: a proxy, or the exception that skips   *)
(* the test because the compositor declares that it lacks the extension,   *)
(* or one that fails the test.                                             *)
(*                                                                         *)
(* The compositor (external) adds and withdraws globals at any time; names *)
(* are not used twice, and an interface may have several globals.          *)
(* Declared is what the integration lists in supported_extensions.         *)
(***************************************************************************)
EXTENDS Versions, Sequences, FiniteSets

CONSTANTS Interfaces, Ids, MaxVersion,
          Shells,     \* the interfaces behind the_shell() and the_xdg_shell_v6()
          Known,      \* the version of each interface WLCS was compiled with
          Declares,   \* does the integration declare its extensions?
          Declared    \* the version of each declared extension, or NoVersion

ASSUME RegistryAssumption ==
    /\ Shells \subseteq Interfaces
    /\ MaxVersion \in VersionNumbers
    /\ Known \in [Interfaces -> VersionNumbers]
    /\ Declares \in BOOLEAN
    /\ Declared \in [Interfaces -> Nat]

Offers == [id : Ids, interface : Interfaces, version : 1 .. MaxVersion]
Specs == [kind : {"exactly", "atLeast", "atMost"}, version : 1 .. MaxVersion]

(* extract_supported_extensions(): the list of an integration's descriptor *)
(* as a function; an extension listed again has its last version.          *)
extract_supported_extensions(listed) ==
    [i \in Interfaces |->
        LET at == {n \in DOMAIN listed : listed[n].name = i}
        IN IF at = {} THEN NoVersion
           ELSE listed[CHOOSE n \in at : \A k \in at : k <= n].version]

VARIABLES advertised,         \* the compositor's globals
          announced,          \* history: every global it ever had
          crowded,            \* history: interfaces that had several globals at a time
          wire,               \* registry events on their way
          globals,            \* per interface, the set of its (at most one) entry
          global_type_names,  \* the names (ids) known, with their interfaces
          shells,             \* the shells bound when they were announced
          asked, outcome, bound  \* the last bind_if_supported() or the_shell()

clientVars == <<globals, global_type_names, shells>>
bindVars == <<asked, outcome, bound>>
registryVars == <<advertised, announced, crowded, wire, clientVars, bindVars>>

NoBind == [interface |-> "none", spec |-> AnyVersion]
Outcomes == {"none", "bound", "skipped", "failed", "logic_error", "shell"}

RegistryInit ==
    /\ advertised = {} /\ announced = {} /\ crowded = {} /\ wire = <<>>
    /\ globals = [i \in Interfaces |-> {}]
    /\ global_type_names = {}
    /\ shells = {}
    /\ asked = NoBind /\ outcome = "none" /\ bound = 0

-----------------------------------------------------------------------------
(* The compositor.                                                         *)

Advertise(o) ==
    /\ \A a \in announced : a.id # o.id
    /\ crowded' = crowded \cup ({o.interface} \cap { a.interface : a \in advertised })
    /\ advertised' = advertised \cup {o}
    /\ announced' = announced \cup {o}
    /\ wire' = Append(wire, [type |-> "global", offer |-> o])
    /\ UNCHANGED <<clientVars, bindVars>>

Withdraw(o) ==
    /\ o \in advertised
    /\ advertised' = advertised \ {o}
    /\ wire' = Append(wire, [type |-> "global_remove", offer |-> o])
    /\ UNCHANGED <<announced, crowded, clientVars, bindVars>>

-----------------------------------------------------------------------------
(* The client.                                                             *)

(* A global replaces an earlier one of its interface in globals; a shell   *)
(* is bound at once.                                                       *)
global_handler ==
    /\ wire # <<>> /\ Head(wire).type = "global"
    /\ LET o == Head(wire).offer
       IN /\ global_type_names' = global_type_names \cup { <<o.id, o.interface>> }
          /\ globals' = [globals EXCEPT ![o.interface] = { [id |-> o.id, version |-> o.version] }]
          /\ shells' = shells \cup ({o.interface} \cap Shells)
    /\ wire' = Tail(wire)
    /\ UNCHANGED <<advertised, announced, crowded, bindVars>>

(* Mutant: only the name is forgotten.                                     *)
global_removed_name_only ==
    /\ wire # <<>> /\ Head(wire).type = "global_remove"
    /\ global_type_names' = { n \in global_type_names : n[1] # Head(wire).offer.id }
    /\ wire' = Tail(wire)
    /\ UNCHANGED <<advertised, announced, crowded, globals, shells, bindVars>>

(* The event carries only the id; the interface it has in global_type_names *)
(* loses its entry, whichever global the entry is of.                       *)
global_removed ==
    /\ wire # <<>> /\ Head(wire).type = "global_remove"
    /\ LET names == { n \in global_type_names : n[1] = Head(wire).offer.id }
       IN /\ globals' = [i \in Interfaces |->
                            IF \E n \in names : n[2] = i THEN {} ELSE globals[i]]
          /\ global_type_names' = global_type_names \ names
    /\ wire' = Tail(wire)
    /\ UNCHANGED <<advertised, announced, crowded, shells, bindVars>>

(* expected_to_be_supported.value_or(true)                                 *)
Expected(i, spec) ==
    Declares => /\ Declared[i] # NoVersion
                /\ SelectVersion(spec, Declared[i], Known[i]) # NoVersion

(* select_version() throws for whichever of the two versions it is asked    *)
(* about first.                                                             *)
Throws(i, spec) ==
    /\ spec.kind # "atMost" /\ spec.version > Known[i]
    /\ (Declares /\ Declared[i] # NoVersion) \/ globals[i] # {}

(* Mutant: an extension that is not advertised skips the test.             *)
bind_if_supported_lenient(i, spec) ==
    /\ asked' = [interface |-> i, spec |-> spec]
    /\ LET chosen == { v \in { SelectVersion(spec, g.version, Known[i]) : g \in globals[i] } :
                         v # NoVersion }
       IN \/ /\ Throws(i, spec)
             /\ outcome' = "logic_error" /\ bound' = 0
          \/ /\ ~Throws(i, spec) /\ chosen # {}
             /\ outcome' = "bound" /\ bound' \in chosen
          \/ /\ ~Throws(i, spec) /\ chosen = {}
             /\ outcome' = "skipped"
             /\ bound' = 0
    /\ UNCHANGED <<advertised, announced, crowded, wire, clientVars>>

bind_if_supported(i, spec) ==
    /\ asked' = [interface |-> i, spec |-> spec]
    /\ LET chosen == { v \in { SelectVersion(spec, g.version, Known[i]) : g \in globals[i] } :
                         v # NoVersion }
       IN \/ /\ Throws(i, spec)
             /\ outcome' = "logic_error" /\ bound' = 0
          \/ /\ ~Throws(i, spec) /\ chosen # {}
             /\ outcome' = "bound" /\ bound' \in chosen
          \/ /\ ~Throws(i, spec) /\ chosen = {}
             /\ outcome' = IF Expected(i, spec) THEN "failed" ELSE "skipped"
             /\ bound' = 0
    /\ UNCHANGED <<advertised, announced, crowded, wire, clientVars>>

(* the_shell() and the_xdg_shell_v6(): without a declared list the test is *)
(* skipped.                                                                *)
the_shell(i) ==
    /\ asked' = [interface |-> i, spec |-> AnyVersion]
    /\ outcome' = IF i \in shells THEN "shell"
                  ELSE IF ~Declares \/ Declared[i] = NoVersion THEN "skipped" ELSE "failed"
    /\ bound' = 0
    /\ UNCHANGED <<advertised, announced, crowded, wire, clientVars>>

RegistryNext ==
    \/ \E o \in Offers : Advertise(o)
    \/ \E o \in advertised : Withdraw(o)
    \/ global_handler \/ global_removed
    \/ \E i \in Interfaces \ Shells, s \in Specs : bind_if_supported(i, s)
    \/ \E i \in Shells : the_shell(i)

RegistrySpec == RegistryInit /\ [][RegistryNext]_registryVars

-----------------------------------------------------------------------------
Settled == wire = <<>>
Offered(i) == { a.version : a \in { b \in advertised : b.interface = i } }

(* Type invariant of the client's tables: globals has one entry per        *)
(* interface, of a global the compositor has or had.                       *)
RegistryTypeOK ==
    /\ announced \subseteq Offers /\ advertised \subseteq announced
    /\ \A k \in DOMAIN wire : /\ wire[k].type \in {"global", "global_remove"}
                              /\ wire[k].offer \in announced
    /\ \A i \in Interfaces : \A g \in globals[i] :
           [id |-> g.id, interface |-> i, version |-> g.version] \in announced
    /\ shells \subseteq Shells
    /\ outcome \in Outcomes

(* A proxy is bound with a version some global of that interface offered,  *)
(* that WLCS knows, and that the test asked for.                           *)
BoundVersionFits ==
    outcome = "bound" =>
        /\ Admits(asked.spec, bound)
        /\ bound \in 1 .. Known[asked.interface]
        /\ \E a \in announced : a.interface = asked.interface /\ bound <= a.version

(* A test is skipped only for an extension the integration does not        *)
(* declare, or not in a version the test can use.                          *)
SkipIsDeclared ==
    outcome = "skipped" =>
        /\ Declares => Candidates(asked.spec, Declared[asked.interface],
                                  Known[asked.interface]) = {}
        /\ ~Declares => asked.interface \in Shells

(* Once all registry events were handled, no entry of globals is of a      *)
(* global that was withdrawn; and an interface the compositor advertises   *)
(* can be bound, unless it has had several globals at a time: then the     *)
(* withdrawal of one may have forgotten the entry of another.              *)
GlobalsAreCurrent ==
    Settled => \A i \in Interfaces :
                   /\ \A g \in globals[i] :
                         [id |-> g.id, interface |-> i, version |-> g.version] \in advertised
                   /\ Offered(i) # {} /\ i \notin crowded => globals[i] # {}
=============================================================================
