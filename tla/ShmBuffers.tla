----------------------------- MODULE ShmBuffers -----------------------------
(***************************************************************************)
(* A wlcs::ShmBuffer and its release notifiers (src/in_process_server.cpp: *)
(* ShmBuffer::Impl, Client::Impl::create_buffer) and the anonymous file it *)
(* maps (src/helpers.cpp, create_anonymous_file).                          *)
(*                                                                         *)
(* The kernel (external) may refuse any call: the file is then asked for   *)
(* in another way, or the constructor throws.                              *)
(*                                                                         *)
(* The compositor releases the buffer whenever it has done with an         *)
(* attached one; on_release() then calls every notifier and forgets those  *)
(* that return false.                                                      *)
(*                                                                         *)
(* It remembers the positions of the ones to forget and erases them after  *)
(* the loop, front to back.  Each erase moves the rest of the vector down, *)
(* so a later position names the element after the one that was meant, or  *)
(* the end of the vector, where erase() is undefined.                      *)
(***************************************************************************)
EXTENDS Integers, Sequences

CONSTANTS Listeners,
          MaxAttached    \* bound: commits of the buffer whose release is still to be handled

VARIABLES buffer,             \* the constructor's next call, "mapped", "threw" or "destroyed"
          fds, names, mappings,   \* how many of them this process holds
          refused,            \* history: the errors of the calls made for the buffer
          attached,           \* commits of the buffer not yet released
          events,             \* release events not yet dispatched
          release_notifiers,
          added, finished,    \* history: notifiers added, and those that returned false
          together,           \* history: have several returned false on the same release?
          recalled,           \* history: was a notifier called after it had returned false?
          undefined           \* was erase() called at the end of the vector?

vars == <<buffer, fds, names, mappings, refused, attached, events, release_notifiers, added,
          finished, together, recalled, undefined>>
fileVars == <<fds, names, mappings, refused>>
notifierVars == <<release_notifiers, added, finished, together, recalled, undefined>>

Init ==
    /\ buffer = "memfd_create" /\ fds = 0 /\ names = 0 /\ mappings = 0 /\ refused = {}
    /\ attached = 0 /\ events = 0
    /\ release_notifiers = <<>> /\ added = {} /\ finished = {}
    /\ together = FALSE /\ recalled = FALSE /\ undefined = FALSE

-----------------------------------------------------------------------------
(* The constructor: create_anonymous_file(), then mmap().                  *)

(* What the kernel may say: "ok" is success.                               *)
Errors == [memfd_create |-> {"ok", "EINVAL", "ENOSYS", "EMFILE"},
           memfd_create_plain |-> {"ok", "EINVAL", "ENOSYS", "EMFILE"},
           open |-> {"ok", "EISDIR", "ENOENT", "EOPNOTSUPP", "EINVAL", "EMFILE"},
           mkostemp |-> {"ok", "EMFILE"},
           unlink |-> {"ok", "EPERM"},
           ftruncate |-> {"ok", "EFBIG"},
           mmap |-> {"ok", "ENOMEM"}]

error_indicates_tmpfile_not_supported(e) == e \in {"EISDIR", "ENOENT", "EOPNOTSUPP", "EINVAL"}

(* The call that follows one which had the result e.                       *)
After(call, e) ==
    IF call = "memfd_create" /\ e = "EINVAL" THEN "memfd_create_plain"
    ELSE IF call \in {"memfd_create", "memfd_create_plain"} /\ e = "ENOSYS" THEN "open"
    ELSE IF call = "open" /\ error_indicates_tmpfile_not_supported(e) THEN "mkostemp"
    ELSE IF e # "ok" THEN "threw"
    ELSE CASE call = "mkostemp" -> "unlink"
           [] call = "ftruncate" -> "mmap"
           [] call = "mmap" -> "mapped"
           [] OTHER -> "ftruncate"

(* Mutant: nobody closes the file that could not be resized or unlinked.   *)
FilesLeaked(call, e) ==
    /\ fds' = CASE call \in {"memfd_create", "memfd_create_plain", "open", "mkostemp"} ->
                     IF e = "ok" THEN fds + 1 ELSE fds
                [] call = "mmap" -> fds - 1
                [] OTHER -> fds
    /\ names' = IF e = "ok" THEN CASE call = "mkostemp" -> names + 1
                                  [] call = "unlink" -> names - 1
                                  [] OTHER -> names
                ELSE names
    /\ mappings' = IF call = "mmap" /\ e = "ok" THEN mappings + 1 ELSE mappings

(* A call opens a file, names or unlinks it, maps it; after a failure of   *)
(* the later ones, and when the compositor has been sent it, it is closed. *)
Files(call, e) ==
    /\ fds' = CASE call \in {"memfd_create", "memfd_create_plain", "open", "mkostemp"} ->
                     IF e = "ok" THEN fds + 1 ELSE fds
                [] call = "mmap" -> fds - 1
                [] OTHER -> IF e = "ok" THEN fds ELSE fds - 1
    /\ names' = IF e = "ok" THEN CASE call = "mkostemp" -> names + 1
                                  [] call = "unlink" -> names - 1
                                  [] OTHER -> names
                ELSE names
    /\ mappings' = IF call = "mmap" /\ e = "ok" THEN mappings + 1 ELSE mappings

CreateBuffer ==
    /\ buffer \in DOMAIN Errors
    /\ \E e \in Errors[buffer] :
         /\ Files(buffer, e)
         /\ buffer' = After(buffer, e)
         /\ refused' = refused \cup ({ <<buffer, e>> } \ { <<buffer, "ok">> })
    /\ UNCHANGED <<attached, events, notifierVars>>

-----------------------------------------------------------------------------
add_release_listener(n) ==
    /\ buffer = "mapped" /\ n \notin added
    /\ release_notifiers' = Append(release_notifiers, n)
    /\ added' = added \cup {n}
    /\ UNCHANGED <<buffer, fileVars, attached, events, finished, together, recalled,
                   undefined>>

(* A surface attaches and commits the buffer; the compositor releases it.  *)
Attach ==
    /\ buffer = "mapped" /\ attached + events < MaxAttached
    /\ attached' = attached + 1
    /\ UNCHANGED <<buffer, fileVars, events, notifierVars>>

Release ==
    /\ attached > 0
    /\ attached' = attached - 1
    /\ events' = events + 1
    /\ UNCHANGED <<buffer, fileVars, notifierVars>>

Called(s) == { s[k] : k \in DOMAIN s }

(* The positions a loop over the notifiers remembers, of those that        *)
(* returned false.                                                         *)
expired_notifiers ==
    { E \in UNION { [1 .. n -> DOMAIN release_notifiers] : n \in 0 .. Len(release_notifiers) } :
        \A i, j \in DOMAIN E : i < j => E[i] < E[j] }

(* The places that the n elements left had before the erasures at E: each  *)
(* erasure at or before a place moves the rest down, to that place.        *)
Moved(E, n) ==
    { U \in [1 .. n -> 1 .. n + Len(E)] :
        \A k \in 1 .. n : /\ U[k] \in k .. k + Len(E)
                          /\ \A j \in DOMAIN E : U[k] >= k + j <=> E[j] <= k }

(* The notifiers at E return false.  The j-th erasure finds j - 1 fewer.    *)
on_release(E) ==
    /\ events > 0 /\ buffer = "mapped"
    /\ events' = events - 1
    /\ recalled' = (recalled \/ Called(release_notifiers) \cap finished # {})
    /\ finished' = finished \cup { release_notifiers[E[j]] : j \in DOMAIN E }
    /\ together' = (together \/ Len(E) > 1)
    /\ \E U \in Moved(E, Len(release_notifiers) - Len(E)) :
          release_notifiers' = [k \in DOMAIN U |-> release_notifiers[U[k]]]
    /\ undefined' = (undefined \/ \E j \in DOMAIN E : E[j] > Len(release_notifiers) - (j - 1))
    /\ UNCHANGED <<buffer, fileVars, attached, added>>

(* The client's destruction callbacks drop the buffer; events that come    *)
(* later find no proxy.                                                    *)
DestroyBuffer ==
    /\ buffer = "mapped"
    /\ buffer' = "destroyed"
    /\ mappings' = mappings - 1
    /\ release_notifiers' = <<>>
    /\ events' = 0
    /\ UNCHANGED <<fds, names, refused, attached, added, finished, together, recalled, undefined>>

Next ==
    \/ CreateBuffer \/ Attach \/ Release \/ DestroyBuffer
    \/ \E n \in Listeners : add_release_listener(n)
    \/ \E E \in expired_notifiers : on_release(E)

Spec == Init /\ [][Next]_vars

-----------------------------------------------------------------------------
(* Through any sequence of releases the buffer has only notifiers that     *)
(* were added, once each; and as long as no two have returned false on the *)
(* same release, exactly those that have not returned false: none is lost, *)
(* and none that has is called again.  Two on one release are erased in    *)
(* the wrong places.                                                       *)
NotifiersExact ==
    /\ Called(release_notifiers) \subseteq added
    /\ \A i, j \in DOMAIN release_notifiers :
          release_notifiers[i] = release_notifiers[j] => i = j
    /\ ~together => /\ ~recalled /\ ~undefined
                    /\ buffer = "mapped" => added \ finished = Called(release_notifiers)

(* However the kernel answers, a constructor that returns or throws has    *)
(* closed the file it opened, and left no name in /dev/shm unless unlink   *)
(* was refused; a buffer has one mapping until it is destroyed; and it is  *)
(* only refused by an error that no other way of making a file answers.    *)
NothingLeaks ==
    buffer \notin DOMAIN Errors =>
        /\ fds = 0
        /\ names = IF <<"unlink", "EPERM">> \in refused THEN 1 ELSE 0
        /\ mappings = IF buffer = "mapped" THEN 1 ELSE 0
        /\ (buffer = "threw") <=>
              \E r \in refused :
                  \/ r[2] \in {"EMFILE", "EPERM", "EFBIG", "ENOMEM"}
                  \/ r = <<"memfd_create_plain", "EINVAL">>
=============================================================================
