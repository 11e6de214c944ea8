------------------------ MODULE HelperObjectsProofs ------------------------
(***************************************************************************)
(* The invariants of the other objects a test makes with a client, for all *)
(* sets of objects and all bounds.  The kinds of object share no state, so *)
(* each has an inductive invariant of its own, and a step of the           *)
(* composition is a step of one kind or leaves it alone.                   *)
(***************************************************************************)
EXTENDS HelperObjects, TLAPS

-----------------------------------------------------------------------------
(* Buffers and their notifiers.                                            *)

(* Any step is one of a buffer or leaves it alone.                         *)
LEMMA BufferStep == [HelpersNext]_helpersVars => Buffer!Next \/ UNCHANGED bufferVars
  BY Zenon DEF HelpersNext, helpersVars

(* Erasing never puts an element twice into what is left: the elements     *)
(* left had places before, in the same order.                              *)
LEMMA MovedIncreases ==
  ASSUME NEW n \in Int, NEW E, Len(E) \in Nat, DOMAIN E = 1 .. Len(E),
         \A j \in DOMAIN E : E[j] \in Nat,
         NEW U \in Buffer!Moved(E, n)
  PROVE  /\ DOMAIN U = 1 .. n
         /\ \A k \in 1 .. n : U[k] \in 1 .. n + Len(E)
         /\ \A a, b \in 1 .. n : U[a] = U[b] => a = b
<1>1. /\ DOMAIN U = 1 .. n
      /\ \A k \in 1 .. n : /\ U[k] \in 1 .. n + Len(E)
                           /\ U[k] \in k .. k + Len(E)
                           /\ \A j \in DOMAIN E : U[k] >= k + j <=> E[j] <= k
  BY Zenon DEF Buffer!Moved
<1>2. ASSUME NEW a \in 1 .. n, NEW b \in 1 .. n, a < b PROVE U[a] < U[b]
  <2>1. /\ U[a] \in a .. a + Len(E) /\ U[b] \in b .. b + Len(E)
    BY <1>1
  <2>2. CASE U[a] = a
    BY <1>2, <2>1, <2>2
  <2>3. CASE U[a] # a
    <3> DEFINE j == U[a] - a
    <3>1. j \in DOMAIN E /\ U[a] >= a + j /\ U[a] = a + j
      BY <2>1, <2>3
    <3>2. E[j] <= a
      BY <1>1, <3>1, Zenon
    <3>3. E[j] <= b
      BY <1>2, <3>1, <3>2
    <3>4. U[b] >= b + j
      BY <1>1, <3>1, <3>3, Zenon
    <3> QED
      BY <1>2, <2>1, <3>1, <3>4
  <2> QED
    BY <2>2, <2>3
<1>3. ASSUME NEW a \in 1 .. n, NEW b \in 1 .. n, U[a] = U[b] PROVE a = b
  <2>1. U[a] \in Int /\ U[b] \in Int
    BY <1>1
  <2>2. a < b \/ b < a \/ a = b
    OBVIOUS
  <2> QED
    BY <1>2, <1>3, <2>1, <2>2
<1> QED
  BY <1>1, <1>3, Zenon

(* One position: the notifier there is erased, the later ones move up.     *)
LEMMA MovedOne ==
  ASSUME NEW n \in Int, NEW E, Len(E) = 1, DOMAIN E = 1 .. 1, E[1] \in Nat,
         NEW U \in Buffer!Moved(E, n), NEW k \in 1 .. n
  PROVE  U[k] = IF k < E[1] THEN k ELSE k + 1
<1>1. /\ U[k] \in k .. k + 1
      /\ U[k] >= k + 1 <=> E[1] <= k
  BY DEF Buffer!Moved
<1> QED
  BY <1>1

(* The notifiers of a vector are the elements at its places.               *)
LEMMA CalledPlaces ==
  ASSUME NEW s
  PROVE  /\ \A k \in DOMAIN s : s[k] \in Buffer!Called(s)
         /\ \A x \in Buffer!Called(s) : \E k \in DOMAIN s : x = s[k]
  BY Zenon DEF Buffer!Called

(* Those of t are among those of s if each of them has a place in s.       *)
LEMMA CalledAmong ==
  ASSUME NEW s, NEW t, \A k \in DOMAIN t : \E i \in DOMAIN s : t[k] = s[i]
  PROVE  Buffer!Called(t) \subseteq Buffer!Called(s)
  BY Zenon DEF Buffer!Called

(* What t is, left of s after the m erasures at E: elements of s, each     *)
(* once, and all but the one meant when there is at most one erasure.      *)
Leaves(L, s, m, E, t) ==
    /\ t \in Seq(L)
    /\ \A i, j \in DOMAIN t : t[i] = t[j] => i = j
    /\ Buffer!Called(t) \subseteq Buffer!Called(s)
    /\ m = 0 => Buffer!Called(t) = Buffer!Called(s)
    /\ m = 1 => Buffer!Called(t) = Buffer!Called(s) \ {s[E[1]]}

(* The erasures leave that, wherever they are made.                        *)
LEMMA ErasedLeaves ==
  ASSUME NEW L, NEW s \in Seq(L), \A i, j \in DOMAIN s : s[i] = s[j] => i = j,
         NEW m \in 0 .. Len(s), NEW E \in [1 .. m -> DOMAIN s],
         NEW n, n = Len(s) - Len(E), NEW U \in Buffer!Moved(E, n),
         NEW T, NEW t \in [DOMAIN U -> T], \A k \in DOMAIN U : t[k] = s[U[k]]
  PROVE  Leaves(L, s, m, E, t)
<1>1. Len(s) \in Nat /\ DOMAIN s = 1 .. Len(s) /\ \A k \in DOMAIN s : s[k] \in L
  OBVIOUS
<1>2. /\ Len(E) = m /\ DOMAIN E = 1 .. Len(E) /\ Len(E) \in Nat
      /\ \A j \in DOMAIN E : E[j] \in DOMAIN s /\ E[j] \in Nat
  BY <1>1
<1>3. n \in Int /\ n \in Nat /\ n + Len(E) = Len(s)
  BY <1>1, <1>2
<1>4. /\ DOMAIN U = 1 .. n
      /\ \A k \in 1 .. n : U[k] \in 1 .. n + Len(E)
      /\ \A a, b \in 1 .. n : U[a] = U[b] => a = b
  BY <1>2, <1>3, MovedIncreases
<1>5. \A k \in 1 .. n : U[k] \in DOMAIN s
  BY <1>1, <1>3, <1>4
<1>6. DOMAIN t = 1 .. n /\ \A k \in 1 .. n : t[k] = s[U[k]]
  BY <1>4, Zenon
<1>7. t \in Seq(L)
  <2>1. \A k \in 1 .. n : s[U[k]] \in L
    BY <1>1, <1>5, Zenon
  <2>2. t \in [1 .. n -> T] /\ \A k \in 1 .. n : t[k] \in L
    BY <1>4, <1>6, <2>1, Zenon
  <2> QED
    BY <1>3, <2>2
<1>8. \A i, j \in DOMAIN t : t[i] = t[j] => i = j
  <2> SUFFICES ASSUME NEW i \in 1 .. n, NEW j \in 1 .. n, t[i] = t[j] PROVE i = j
    BY <1>6, Zenon
  <2>1. s[U[i]] = s[U[j]] /\ U[i] \in DOMAIN s /\ U[j] \in DOMAIN s
    BY <1>5, <1>6, Zenon
  <2>2. U[i] = U[j]
    BY <2>1, Zenon
  <2> QED
    BY <1>4, <2>2, Zenon
<1>9. Buffer!Called(t) \subseteq Buffer!Called(s)
  <2>1. \A k \in DOMAIN t : \E i \in DOMAIN s : t[k] = s[i]
    <3> SUFFICES ASSUME NEW k \in 1 .. n PROVE \E i \in DOMAIN s : t[k] = s[i]
      BY <1>6, Zenon
    <3>1. t[k] = s[U[k]] /\ U[k] \in DOMAIN s
      BY <1>5, <1>6, Zenon
    <3> QED
      BY <3>1, Zenon
  <2> QED
    BY <2>1, CalledAmong, Zenon
<1>10. ASSUME m = 0 PROVE Buffer!Called(t) = Buffer!Called(s)
  <2>1. n = Len(s)
    BY <1>1, <1>2, <1>3, <1>10
  <2>2. ASSUME NEW k \in 1 .. n PROVE U[k] = k
    <3>1. U[k] \in k .. k + Len(E)
      BY Zenon DEF Buffer!Moved
    <3> QED
      BY <1>2, <1>10, <3>1
  <2>3. \A k \in DOMAIN s : k \in DOMAIN t /\ t[k] = s[k]
    BY <1>1, <1>6, <2>1, <2>2, Zenon
  <2>4. \A k \in DOMAIN s : \E i \in DOMAIN t : s[k] = t[i]
    BY <2>3, Zenon
  <2>5. Buffer!Called(s) \subseteq Buffer!Called(t)
    BY <2>4, CalledAmong, Zenon
  <2> QED
    BY <1>9, <2>5, Zenon
<1>11. ASSUME m = 1 PROVE Buffer!Called(t) = Buffer!Called(s) \ {s[E[1]]}
  <2>1. Len(E) = 1 /\ DOMAIN E = 1 .. 1 /\ E[1] \in Nat /\ E[1] \in DOMAIN s
    BY <1>2, <1>11
  <2>e. PICK e \in DOMAIN s : e = E[1]
    BY <2>1, Zenon
  <2>2. \A k \in 1 .. n : U[k] = IF k < e THEN k ELSE k + 1
    BY <1>3, <2>1, <2>e, MovedOne
  <2>3. n = Len(s) - 1 /\ e \in 1 .. Len(s)
    BY <1>1, <1>2, <1>11
  <2>4. ASSUME NEW k \in 1 .. n PROVE t[k] \in Buffer!Called(s) /\ t[k] # s[e]
    <3>1. U[k] # e
      BY <2>2, <2>3
    <3>2. s[U[k]] # s[e]
      BY <1>5, <3>1, Zenon
    <3>3. k \in DOMAIN t /\ t[k] = s[U[k]]
      BY <1>6, Zenon
    <3>4. t[k] \in Buffer!Called(t)
      BY <3>3, CalledPlaces, Zenon
    <3> QED
      BY <1>9, <3>2, <3>3, <3>4, Zenon
  <2>5. ASSUME NEW k \in DOMAIN s, k # e PROVE \E i \in 1 .. n : U[i] = k
    <3>1. CASE k < e
      <4>1. k \in 1 .. n /\ U[k] = k
        BY <1>1, <2>2, <2>3, <3>1
      <4> QED
        BY <4>1, Zenon
    <3>2. CASE k > e
      <4>1. k - 1 \in 1 .. n /\ ~(k - 1 < e) /\ (k - 1) + 1 = k
        BY <1>1, <2>3, <3>2
      <4>2. U[k - 1] = k
        BY <2>2, <4>1, Zenon
      <4> QED
        BY <4>1, <4>2, Zenon
    <3> QED
      BY <1>1, <2>5, <3>1, <3>2
  <2>6. ASSUME NEW x \in Buffer!Called(s), x # s[e] PROVE x \in Buffer!Called(t)
    <3>1. PICK k \in DOMAIN s : x = s[k]
      BY Zenon DEF Buffer!Called
    <3>2. PICK i \in 1 .. n : U[i] = k
      BY <2>5, <2>6, <3>1, Zenon
    <3> QED
      <4>1. i \in DOMAIN t /\ t[i] = x
        BY <1>6, <3>1, <3>2, Zenon
      <4> QED
        BY <4>1, CalledPlaces
  <2>7. ASSUME NEW x \in Buffer!Called(t) PROVE x \in Buffer!Called(s) /\ x # s[e]
    <3>1. PICK k \in DOMAIN t : x = t[k]
      BY CalledPlaces
    <3>2. k \in 1 .. n
      BY <1>6, Zenon
    <3> QED
      BY <2>4, <3>1, <3>2, Zenon
  <2> QED
    BY <2>e, <2>6, <2>7, Zenon
<1> QED
  BY <1>7, <1>8, <1>9, <1>10, <1>11, Zenon DEF Leaves

(* What the process holds before each call of the constructor, and after   *)
(* the last; the errors so far are fatal when the constructor threw.       *)
Fatal ==
    \E r \in refused : \/ r[2] \in {"EMFILE", "EPERM", "EFBIG", "ENOMEM"}
                       \/ r = <<"memfd_create_plain", "EINVAL">>

(* The process holds f descriptors, n names and m mappings.                *)
Holds(f, n, m) == fds = f /\ names = n /\ mappings = m

(* What it holds, by where the constructor is.                             *)
FileInv ==
    /\ Fatal <=> buffer = "threw"
    /\ \/ /\ buffer \in {"memfd_create", "memfd_create_plain", "open", "mkostemp", "destroyed"}
          /\ Holds(0, 0, 0)
       \/ buffer = "unlink" /\ Holds(1, 1, 0)
       \/ buffer \in {"ftruncate", "mmap"} /\ Holds(1, 0, 0)
       \/ buffer = "mapped" /\ Holds(0, 0, 1)
       \/ buffer = "threw" /\ Holds(0, IF <<"unlink", "EPERM">> \in refused THEN 1 ELSE 0, 0)

(* The process starts with nothing.                                        *)
LEMMA FileInit == Buffer!Init => FileInv
  BY Zenon DEF Buffer!Init, FileInv, Holds, Fatal

(* Every step keeps the account of what the process holds.                 *)
LEMMA FileNext == FileInv /\ (Buffer!Next \/ UNCHANGED bufferVars) => FileInv'
<1> SUFFICES ASSUME FileInv, Buffer!Next \/ UNCHANGED bufferVars PROVE FileInv'
  BY Zenon
<1>1. CASE Buffer!CreateBuffer
  <2>1. PICK e \in Buffer!Errors[buffer] :
           /\ Buffer!Files(buffer, e)
           /\ buffer' = Buffer!After(buffer, e)
           /\ refused' = refused \cup ({ <<buffer, e>> } \ { <<buffer, "ok">> })
    BY <1>1, Zenon DEF Buffer!CreateBuffer
  <2>2. buffer \in {"memfd_create", "memfd_create_plain", "open", "mkostemp", "unlink",
                    "ftruncate", "mmap"}
    BY <1>1, Zenon DEF Buffer!CreateBuffer, Buffer!Errors
  <2>3. ~Fatal
    BY <2>2, Zenon DEF FileInv
  <2>4. \A r : r \in refused' <=> r \in refused \/ (r = <<buffer, e>> /\ e # "ok")
    BY <2>1
  <2>5. /\ Fatal' <=> \/ e \in {"EMFILE", "EPERM", "EFBIG", "ENOMEM"}
                      \/ buffer = "memfd_create_plain" /\ e = "EINVAL"
        /\ <<"unlink", "EPERM">> \in refused' <=> buffer = "unlink" /\ e = "EPERM"
    <3>1. ASSUME Fatal'
          PROVE  \/ e \in {"EMFILE", "EPERM", "EFBIG", "ENOMEM"}
                 \/ buffer = "memfd_create_plain" /\ e = "EINVAL"
      <4>1. PICK r \in refused' : \/ r[2] \in {"EMFILE", "EPERM", "EFBIG", "ENOMEM"}
                                  \/ r = <<"memfd_create_plain", "EINVAL">>
        BY <3>1, Zenon DEF Fatal
      <4>2. r \notin refused
        BY <2>3, <4>1, Zenon DEF Fatal
      <4>3. r = <<buffer, e>>
        BY <2>4, <4>2, Zenon
      <4>4. r[2] = e
        BY <4>3, Zenon
      <4>5. r = <<"memfd_create_plain", "EINVAL">> => buffer = "memfd_create_plain" /\ e = "EINVAL"
        BY <4>3, Zenon
      <4> QED
        BY <4>1, <4>4, <4>5, Zenon
    <3>2. ASSUME \/ e \in {"EMFILE", "EPERM", "EFBIG", "ENOMEM"}
                 \/ buffer = "memfd_create_plain" /\ e = "EINVAL"
          PROVE  Fatal'
      <4>1. <<buffer, e>> \in refused'
        BY <2>4, <3>2, Zenon
      <4> QED
        BY <3>2, <4>1, Zenon DEF Fatal
    <3>3. <<"unlink", "EPERM">> \in refused' <=> buffer = "unlink" /\ e = "EPERM"
      BY <2>3, <2>4 DEF Fatal
    <3> QED
      BY <3>1, <3>2, <3>3, Zenon
  <2>6. CASE buffer = "memfd_create"
    <3>1. e \in {"ok", "EINVAL", "ENOSYS", "EMFILE"}
      BY <2>1, <2>6, Zenon DEF Buffer!Errors
    <3>2. buffer' = IF e = "ok" THEN "ftruncate" ELSE IF e = "EINVAL" THEN "memfd_create_plain"
                      ELSE IF e = "ENOSYS" THEN "open" ELSE "threw"
      BY <2>1, <2>6, <3>1, Zenon DEF Buffer!After, Buffer!error_indicates_tmpfile_not_supported
    <3>3. fds' = IF e = "ok" THEN 1 ELSE 0
      BY <2>1, <2>6 DEF FileInv, Holds, Buffer!Files
    <3>4. names' = 0
      BY <2>1, <2>6, Zenon DEF FileInv, Holds, Buffer!Files
    <3>5. mappings' = 0
      BY <2>1, <2>6, Zenon DEF FileInv, Holds, Buffer!Files
    <3> QED
      BY <2>5, <2>6, <3>1, <3>2, <3>3, <3>4, <3>5, Zenon DEF FileInv, Holds
  <2>7. CASE buffer = "memfd_create_plain"
    <3>1. e \in {"ok", "EINVAL", "ENOSYS", "EMFILE"}
      BY <2>1, <2>7, Zenon DEF Buffer!Errors
    <3>2. buffer' = IF e = "ok" THEN "ftruncate" ELSE IF e = "ENOSYS" THEN "open" ELSE "threw"
      BY <2>1, <2>7, <3>1, Zenon DEF Buffer!After, Buffer!error_indicates_tmpfile_not_supported
    <3>3. fds' = IF e = "ok" THEN 1 ELSE 0
      BY <2>1, <2>7 DEF FileInv, Holds, Buffer!Files
    <3>4. names' = 0
      BY <2>1, <2>7, Zenon DEF FileInv, Holds, Buffer!Files
    <3>5. mappings' = 0
      BY <2>1, <2>7, Zenon DEF FileInv, Holds, Buffer!Files
    <3> QED
      BY <2>5, <2>7, <3>1, <3>2, <3>3, <3>4, <3>5, Zenon DEF FileInv, Holds
  <2>8. CASE buffer = "open"
    <3>1. e \in {"ok", "EISDIR", "ENOENT", "EOPNOTSUPP", "EINVAL", "EMFILE"}
      BY <2>1, <2>8, Zenon DEF Buffer!Errors
    <3>2. buffer' = IF e = "ok" THEN "ftruncate" ELSE IF e = "EMFILE" THEN "threw" ELSE "mkostemp"
      BY <2>1, <2>8, <3>1, Zenon DEF Buffer!After, Buffer!error_indicates_tmpfile_not_supported
    <3>3. fds' = IF e = "ok" THEN 1 ELSE 0
      BY <2>1, <2>8 DEF FileInv, Holds, Buffer!Files
    <3>4. names' = 0
      BY <2>1, <2>8, Zenon DEF FileInv, Holds, Buffer!Files
    <3>5. mappings' = 0
      BY <2>1, <2>8, Zenon DEF FileInv, Holds, Buffer!Files
    <3> QED
      BY <2>5, <2>8, <3>1, <3>2, <3>3, <3>4, <3>5, Zenon DEF FileInv, Holds
  <2>9. CASE buffer = "mkostemp"
    <3>1. e \in {"ok", "EMFILE"}
      BY <2>1, <2>9, Zenon DEF Buffer!Errors
    <3>2. buffer' = IF e = "ok" THEN "unlink" ELSE "threw"
      BY <2>1, <2>9, <3>1, Zenon DEF Buffer!After, Buffer!error_indicates_tmpfile_not_supported
    <3>3. fds' = IF e = "ok" THEN 1 ELSE 0
      BY <2>1, <2>9 DEF FileInv, Holds, Buffer!Files
    <3>4. names' = IF e = "ok" THEN 1 ELSE 0
      BY <2>1, <2>9 DEF FileInv, Holds, Buffer!Files
    <3>5. mappings' = 0
      BY <2>1, <2>9, Zenon DEF FileInv, Holds, Buffer!Files
    <3> QED
      BY <2>5, <2>9, <3>1, <3>2, <3>3, <3>4, <3>5, Zenon DEF FileInv, Holds
  <2>10. CASE buffer = "unlink"
    <3>1. e \in {"ok", "EPERM"}
      BY <2>1, <2>10, Zenon DEF Buffer!Errors
    <3>2. buffer' = IF e = "ok" THEN "ftruncate" ELSE "threw"
      BY <2>1, <2>10, <3>1, Zenon DEF Buffer!After, Buffer!error_indicates_tmpfile_not_supported
    <3>3. fds' = IF e = "ok" THEN 1 ELSE 0
      BY <2>1, <2>10 DEF FileInv, Holds, Buffer!Files
    <3>4. names' = IF e = "ok" THEN 0 ELSE 1
      BY <2>1, <2>10 DEF FileInv, Holds, Buffer!Files
    <3>5. mappings' = 0
      BY <2>1, <2>10, Zenon DEF FileInv, Holds, Buffer!Files
    <3> QED
      BY <2>5, <2>10, <3>1, <3>2, <3>3, <3>4, <3>5, Zenon DEF FileInv, Holds
  <2>11. CASE buffer = "ftruncate"
    <3>1. e \in {"ok", "EFBIG"}
      BY <2>1, <2>11, Zenon DEF Buffer!Errors
    <3>2. buffer' = IF e = "ok" THEN "mmap" ELSE "threw"
      BY <2>1, <2>11, <3>1, Zenon DEF Buffer!After, Buffer!error_indicates_tmpfile_not_supported
    <3>3. fds' = IF e = "ok" THEN 1 ELSE 0
      BY <2>1, <2>11 DEF FileInv, Holds, Buffer!Files
    <3>4. names' = 0
      BY <2>1, <2>11, Zenon DEF FileInv, Holds, Buffer!Files
    <3>5. mappings' = 0
      BY <2>1, <2>11, Zenon DEF FileInv, Holds, Buffer!Files
    <3> QED
      BY <2>5, <2>11, <3>1, <3>2, <3>3, <3>4, <3>5, Zenon DEF FileInv, Holds
  <2>12. CASE buffer = "mmap"
    <3>1. e \in {"ok", "ENOMEM"}
      BY <2>1, <2>12, Zenon DEF Buffer!Errors
    <3>2. buffer' = IF e = "ok" THEN "mapped" ELSE "threw"
      BY <2>1, <2>12, <3>1, Zenon DEF Buffer!After, Buffer!error_indicates_tmpfile_not_supported
    <3>3. fds' = 0
      BY <2>1, <2>12 DEF FileInv, Holds, Buffer!Files
    <3>4. names' = 0
      BY <2>1, <2>12, Zenon DEF FileInv, Holds, Buffer!Files
    <3>5. mappings' = IF e = "ok" THEN 1 ELSE 0
      BY <2>1, <2>12 DEF FileInv, Holds, Buffer!Files
    <3> QED
      BY <2>5, <2>12, <3>1, <3>2, <3>3, <3>4, <3>5, Zenon DEF FileInv, Holds
  <2> QED
    BY <2>2, <2>6, <2>7, <2>8, <2>9, <2>10, <2>11, <2>12, Zenon
<1>2. CASE Buffer!DestroyBuffer
  BY <1>2 DEF Buffer!DestroyBuffer, FileInv, Holds, Fatal
<1>3. CASE UNCHANGED <<buffer, fds, names, mappings, refused>>
  BY <1>3, Zenon DEF FileInv, Holds, Fatal
<1> QED
  BY <1>1, <1>2, <1>3, Zenon DEF Buffer!Next, bufferVars, Buffer!Attach, Buffer!Release,
     Buffer!add_release_listener, Buffer!on_release, Buffer!fileVars

(* The vector has notifiers that were added, once each; before several     *)
(* have returned false together, each one that did not return false.       *)
NotifierInv ==
    /\ release_notifiers \in Seq(Listeners)
    /\ \A i, j \in DOMAIN release_notifiers : release_notifiers[i] = release_notifiers[j] => i = j
    /\ Buffer!Called(release_notifiers) \subseteq added
    /\ finished \subseteq added
    /\ together \/ /\ recalled = FALSE /\ undefined = FALSE
                   /\ buffer = "mapped" => Buffer!Called(release_notifiers) = added \ finished
    /\ buffer # "mapped" => release_notifiers = <<>>
    /\ buffer \in DOMAIN Buffer!Errors => added = {}

(* A buffer has no notifier before it is made.                             *)
LEMMA NotifierInit == Buffer!Init => NotifierInv
<1> SUFFICES ASSUME Buffer!Init PROVE NotifierInv
  OBVIOUS
<1>1. Buffer!Called(<<>>) = {}
  BY DEF Buffer!Called
<1> QED
  BY <1>1 DEF Buffer!Init, NotifierInv, Buffer!Errors

(* A release in which the notifiers at E return false: with several of     *)
(* them the release handler erases in the wrong places, after the first    *)
(* erasure has moved the others, but never makes a copy.                   *)
LEMMA NotifierRelease ==
  ASSUME NotifierInv, NEW E \in Buffer!expired_notifiers, Buffer!on_release(E)
  PROVE  NotifierInv'
<1>s. PICK s : s = release_notifiers
  OBVIOUS
<1>t. PICK t : t = release_notifiers'
  OBVIOUS
<1>1. /\ buffer = "mapped" /\ UNCHANGED <<buffer, added>>
      /\ recalled' = (recalled \/ Buffer!Called(s) \cap finished # {})
      /\ finished' = finished \cup { s[E[j]] : j \in DOMAIN E }
      /\ together' = (together \/ Len(E) > 1)
      /\ undefined' = (undefined \/ \E j \in DOMAIN E : E[j] > Len(s) - (j - 1))
  BY <1>s, Zenon DEF Buffer!on_release
<1>2. PICK U \in Buffer!Moved(E, Len(s) - Len(E)) : t = [k \in DOMAIN U |-> s[U[k]]]
  BY <1>s, <1>t, Zenon DEF Buffer!on_release
<1>3. /\ s \in Seq(Listeners) /\ \A i, j \in DOMAIN s : s[i] = s[j] => i = j
      /\ Buffer!Called(s) \subseteq added /\ finished \subseteq added
      /\ together \/ /\ recalled = FALSE /\ undefined = FALSE
                     /\ Buffer!Called(s) = added \ finished
  BY <1>s, <1>1, Zenon DEF NotifierInv
<1>4. PICK m \in 0 .. Len(s) : E \in [1 .. m -> DOMAIN s]
  BY <1>s, Zenon DEF Buffer!expired_notifiers
<1>5. Len(E) = m /\ DOMAIN E = 1 .. m /\ \A j \in DOMAIN E : E[j] \in DOMAIN s
  BY <1>3, <1>4
<1>6. /\ t \in Seq(Listeners)
      /\ \A i, j \in DOMAIN t : t[i] = t[j] => i = j
      /\ Buffer!Called(t) \subseteq Buffer!Called(s)
      /\ m = 0 => Buffer!Called(t) = Buffer!Called(s)
      /\ m = 1 => Buffer!Called(t) = Buffer!Called(s) \ {s[E[1]]}
  <2>n. PICK n : n = Len(s) - Len(E)
    OBVIOUS
  <2>1. U \in Buffer!Moved(E, n)
    BY <2>n, Zenon
  <2>2. t \in [DOMAIN U -> {s[U[k]] : k \in DOMAIN U}] /\ \A k \in DOMAIN U : t[k] = s[U[k]]
    BY <1>2, Zenon
  <2>T. PICK T : T = {s[U[k]] : k \in DOMAIN U}
    OBVIOUS
  <2>3. t \in [DOMAIN U -> T]
    BY <2>2, <2>T, Zenon
  <2> QED
    <3>1. /\ s \in Seq(Listeners) /\ \A i, j \in DOMAIN s : s[i] = s[j] => i = j
          /\ E \in [1 .. m -> DOMAIN s] /\ m \in 0 .. Len(s)
      BY <1>3, <1>4, Zenon
    <3>2. Leaves(Listeners, s, m, E, t)
      BY <3>1, <2>n, <2>1, <2>2, <2>3, ErasedLeaves, ZenonT(30)
    <3> QED
      BY <3>2, Zenon DEF Leaves
<1>7. \A j \in DOMAIN E : s[E[j]] \in Buffer!Called(s)
  BY <1>5, Zenon DEF Buffer!Called
<1>8. finished' \subseteq added'
  BY <1>1, <1>3, <1>7, Zenon
<1>9. buffer' \notin DOMAIN Buffer!Errors /\ buffer' = "mapped"
  BY <1>1, Zenon DEF Buffer!Errors
<1>10. ASSUME ~together'
       PROVE  recalled' = FALSE /\ undefined' = FALSE /\ Buffer!Called(t) = added \ finished'
  <2>1. /\ ~(Len(E) > 1) /\ recalled' = FALSE /\ undefined = FALSE
        /\ Buffer!Called(s) = added \ finished
    BY <1>1, <1>3, <1>10, Zenon
  <2>2. m = 0 \/ m = 1
    <3>1. Len(s) \in Nat
      BY <1>3
    <3> QED
      BY <1>4, <1>5, <2>1, <3>1
  <2>3. CASE m = 0
    <3>1. DOMAIN E = {}
      BY <1>5, <2>3
    <3>2. undefined' = FALSE /\ finished' = finished
      BY <1>1, <2>1, <3>1, Zenon
    <3> QED
      BY <1>6, <2>1, <2>3, <3>2, Zenon
  <2>4. CASE m = 1
    <3>1. DOMAIN E = {1} /\ E[1] \in DOMAIN s
      BY <1>5, <2>4
    <3>2. ~(E[1] > Len(s) - (1 - 1))
      BY <1>3, <3>1
    <3>3. undefined' = FALSE
      BY <1>1, <2>1, <3>1, <3>2, Zenon
    <3>4. finished' = finished \cup {s[E[1]]}
      BY <1>1, <3>1, Zenon
    <3> QED
      BY <1>6, <2>1, <2>4, <3>3, <3>4, Zenon
  <2> QED
    BY <2>2, <2>3, <2>4, Zenon
<1>11. Buffer!Called(t) \subseteq added'
  BY <1>1, <1>3, <1>6, Zenon
<1>12. UNCHANGED added
  BY <1>1, Zenon
<1> QED
  BY <1>t, <1>6, <1>8, <1>9, <1>10, <1>11, <1>12, Zenon DEF NotifierInv

(* Every step keeps the notifiers.                                         *)
LEMMA NotifierNext ==
  ASSUME NotifierInv, Buffer!Next \/ UNCHANGED bufferVars
  PROVE  NotifierInv'
<1> USE DEF NotifierInv
<1>1. CASE Buffer!CreateBuffer
  <2>1. added = {} /\ finished = {} /\ release_notifiers = <<>>
    BY <1>1, Zenon DEF Buffer!CreateBuffer, Buffer!Errors
  <2>2. UNCHANGED <<release_notifiers, added, finished, together, recalled, undefined>>
    BY <1>1, Zenon DEF Buffer!CreateBuffer, Buffer!notifierVars
  <2>3. Buffer!Called(<<>>) = {}
    BY DEF Buffer!Called
  <2> QED
    BY <2>1, <2>2, <2>3, Zenon
<1>2. ASSUME NEW n \in Listeners, Buffer!add_release_listener(n) PROVE NotifierInv'
  <2>1. /\ buffer = "mapped" /\ n \notin Buffer!Called(release_notifiers) /\ n \notin finished
        /\ release_notifiers' = Append(release_notifiers, n) /\ added' = added \cup {n}
        /\ UNCHANGED <<buffer, finished, together, recalled, undefined>>
    BY <1>2, Zenon DEF Buffer!add_release_listener
  <2>2. buffer \notin DOMAIN Buffer!Errors
    BY <2>1, Zenon DEF Buffer!Errors
  <2>3. Buffer!Called(release_notifiers') = Buffer!Called(release_notifiers) \cup {n}
    BY <2>1 DEF Buffer!Called
  <2>4. \A i, j \in DOMAIN release_notifiers' :
           release_notifiers'[i] = release_notifiers'[j] => i = j
    BY <2>1 DEF Buffer!Called
  <2>5. release_notifiers' \in Seq(Listeners)
    BY <2>1
  <2>6. together' \/ /\ recalled' = FALSE /\ undefined' = FALSE
                     /\ Buffer!Called(release_notifiers') = added' \ finished'
    <3>1. together \/ /\ recalled = FALSE /\ undefined = FALSE
                      /\ Buffer!Called(release_notifiers) = added \ finished
      BY <2>1, Zenon
    <3>2. (added \ finished) \cup {n} = (added \cup {n}) \ finished
      BY <2>1
    <3> HIDE DEF NotifierInv
    <3> QED
      BY <2>1, <2>3, <3>1, <3>2
  <2>7. Buffer!Called(release_notifiers') \subseteq added' /\ finished' \subseteq added'
    BY <2>1, <2>3, Zenon
  <2>8. buffer' \notin DOMAIN Buffer!Errors /\ buffer' = "mapped"
    BY <2>1, <2>2, Zenon DEF Buffer!Errors
  <2> QED
    BY <2>4, <2>5, <2>6, <2>7, <2>8, Zenon
<1>3. ASSUME NEW E \in Buffer!expired_notifiers, Buffer!on_release(E) PROVE NotifierInv'
  BY <1>3, NotifierRelease, Zenon
<1>4. CASE Buffer!DestroyBuffer
  <2>1. /\ release_notifiers' = <<>> /\ buffer' = "destroyed"
        /\ UNCHANGED <<added, finished, together, recalled, undefined>>
    BY <1>4, Zenon DEF Buffer!DestroyBuffer
  <2>2. buffer' \notin DOMAIN Buffer!Errors /\ buffer' # "mapped"
    BY <2>1, Zenon DEF Buffer!Errors
  <2>3. /\ Buffer!Called(<<>>) = {} /\ <<>> \in Seq(Listeners)
        /\ \A i \in DOMAIN <<>> : FALSE
    BY DEF Buffer!Called
  <2> QED
    BY <2>1, <2>2, <2>3, Zenon
<1>5. CASE UNCHANGED <<buffer, release_notifiers, added, finished, together, recalled, undefined>>
  BY <1>5, Zenon
<1> QED
  BY <1>1, <1>2, <1>3, <1>4, <1>5, Zenon
     DEF Buffer!Next, bufferVars, Buffer!Attach, Buffer!Release, Buffer!notifierVars

(* The buffer's constructor leaks nothing it could release and reports the *)
(* call that failed.  A release calls no notifier twice, whichever of them *)
(* return false; and until several return false on one release it calls    *)
(* every notifier that has not returned false, and no other: BuffersExact  *)
(* for any number of notifiers.                                            *)
THEOREM BuffersCorrect == HelpersSpec => []BuffersExact
<1>1. HelpersInit => FileInv /\ NotifierInv
  BY FileInit, NotifierInit, Zenon DEF HelpersInit
<1>2. FileInv /\ NotifierInv /\ [HelpersNext]_helpersVars => (FileInv /\ NotifierInv)'
  BY BufferStep, FileNext, NotifierNext, Zenon
<1>3. FileInv => Buffer!NothingLeaks
  BY Zenon DEF FileInv, Fatal, Holds, Buffer!NothingLeaks, Buffer!Errors
<1>4. NotifierInv => Buffer!NotifiersExact
  BY Zenon DEF NotifierInv, Buffer!NotifiersExact
<1> QED
  BY <1>1, <1>2, <1>3, <1>4, PTL DEF HelpersSpec, BuffersExact

-----------------------------------------------------------------------------
(* Surface builders.                                                       *)

(* The builders of all_surface_types, and what their build() functions do. *)
LEMMA BuilderTypes ==
  ASSUME NEW k \in DOMAIN Builder!all_surface_types
  PROVE  LET b == Builder!all_surface_types[k]
         IN  /\ b.type \in {"toplevel", "xdg", "subsurface"}
             /\ b.offset \in [left : Nat, top : Nat, right : Nat, bottom : Nat]
<1> USE DEF Builder!all_surface_types, Builder!WlShellSurfaceBuilder, Builder!XdgV6SurfaceBuilder,
      Builder!XdgStableSurfaceBuilder, Builder!SubsurfaceBuilder, Builder!NoOffset
<1>1. k \in 1 .. 6
  OBVIOUS
<1>2. CASE k = 1 BY <1>2
<1>3. CASE k = 2 BY <1>3
<1>4. CASE k = 3 BY <1>4
<1>5. CASE k = 4 BY <1>5
<1>6. CASE k = 5 BY <1>6, ZenonT(30)
<1>7. CASE k = 6 BY <1>7, ZenonT(30)
<1> QED BY <1>1, <1>2, <1>3, <1>4, <1>5, <1>6, <1>7

(* Builders that a test is parameterised with have different names.        *)
LEMMA NamesDiffer ==
  ASSUME NEW i \in DOMAIN Builder!all_surface_types, NEW j \in DOMAIN Builder!all_surface_types,
         Builder!all_surface_types[i].name = Builder!all_surface_types[j].name
  PROVE  i = j
<1> DEFINE name == [k \in 1 .. 6 |-> Builder!all_surface_types[k].name]
<1> USE DEF Builder!all_surface_types, Builder!WlShellSurfaceBuilder, Builder!XdgV6SurfaceBuilder,
      Builder!XdgStableSurfaceBuilder, Builder!SubsurfaceBuilder, Builder!NoOffset
<1>1. i \in 1 .. 6 /\ j \in 1 .. 6
  OBVIOUS
<1>2. /\ name[1] = <<"wl_shell_surface">> /\ name[2] = <<"zxdg_surface_v6">>
      /\ name[5] = <<"subsurface_at", 0, 0>> /\ name[6] = <<"subsurface_at", 7, 12>>
  BY SMTT(30)
<1>3. {0, 0, 0, 0} = {0} /\ {12, 5, 20, 6} # {0}
  <2>1. 12 \in {12, 5, 20, 6} /\ 12 \notin {0}
    OBVIOUS
  <2> QED
    BY <2>1, Zenon
<1>4. name[3] = <<"xdg_surface_stable">> \o <<>>
  BY <1>3
<1>5. name[4] = <<"xdg_surface_stable">> \o <<12, 5, 20, 6>>
  BY <1>3
<1>6. name[i] = name[j]
  BY <1>1, Zenon
<1> HIDE DEF name
<1>7. /\ Len(name[1]) = 1 /\ name[1][1] = "wl_shell_surface"
      /\ Len(name[2]) = 1 /\ name[2][1] = "zxdg_surface_v6"
      /\ Len(name[3]) = 1 /\ name[3][1] = "xdg_surface_stable"
      /\ Len(name[4]) = 5
      /\ Len(name[5]) = 3 /\ name[5][2] = 0
      /\ Len(name[6]) = 3 /\ name[6][2] = 7
  BY <1>2, <1>4, <1>5
<1> QED
  BY <1>1, <1>6, <1>7

(* The window geometry of a surface of the builder's type.                 *)
Made ==
    IF builder.type = "toplevel" THEN Builder!Rectangle(Builder!Point(0, 0), size)
    ELSE IF builder.type = "xdg"
    THEN Builder!Rectangle(Builder!Point(builder.offset.left, builder.offset.top),
                           Builder!Size(size.width - builder.offset.left - builder.offset.right,
                                size.height - builder.offset.bottom - builder.offset.top))
    ELSE Builder!Rectangle(Builder!Point(0, 0), Builder!Size(80, 50))

(* Offsets and sizes are not negative.                                     *)
BuilderType ==
    /\ builder.type \in {"toplevel", "xdg", "subsurface"}
    /\ builder.offset \in [left : Nat, top : Nat, right : Nat, bottom : Nat]
    /\ position \in [x : Int, y : Int] /\ size \in [width : Nat, height : Nat]

(* The geometry, the window and the visible rectangle are what the request *)
(* was.                                                                    *)
BuildInv ==
    /\ BuilderType
    /\ geometry # None => geometry = Made
    /\ window # None => geometry # None /\ window = Builder!Target
    /\ built # None => built = Builder!Rectangle(position, size)

(* A builder starts with nothing built.                                    *)
LEMMA BuildInit == Builder!Init => BuildInv
  BY BuilderTypes, PlaneAssumption, Zenon DEF Builder!Init, BuildInv, BuilderType

(* Every step of a builder keeps that.                                     *)
LEMMA BuildNext ==
  BuildInv /\ (Builder!Next \/ UNCHANGED <<builder, position, size, geometry, window, built>>)
    => BuildInv'
<1> SUFFICES ASSUME BuildInv,
                    Builder!Next \/ UNCHANGED <<builder, position, size, geometry, window, built>>
             PROVE  BuildInv'
  BY Zenon
<1>0. UNCHANGED <<builder, position, size>>
  BY Zenon DEF Builder!Next, Builder!Make, Builder!Move, Builder!Return
<1>1. BuilderType' /\ Made' = Made /\ Builder!Target' = Builder!Target
  BY <1>0, Zenon DEF BuildInv, BuilderType, Made, Builder!Target, Builder!Offset
<1>2. CASE Builder!Make
  <2>1. geometry = None /\ UNCHANGED <<window, built>>
    BY <1>2, Zenon DEF Builder!Make
  <2>2. geometry' = Made
    BY <1>2, Zenon DEF Builder!Make, Made, BuildInv, BuilderType
  <2> QED
    BY <1>0, <1>1, <2>1, <2>2, Zenon DEF BuildInv
<1>3. CASE Builder!Move
  BY <1>0, <1>1, <1>3, Zenon DEF Builder!Move, BuildInv
<1>4. CASE Builder!Return
  <2>1. /\ window # None /\ UNCHANGED <<geometry, window>>
        /\ geometry = Made /\ window = Builder!Target /\ BuilderType
    BY <1>4, Zenon DEF Builder!Return, BuildInv
  <2> DEFINE corner == Builder!MovedBack(window, Builder!Displacement(geometry.top_left.x,
                                                                      geometry.top_left.y))
  <2>2. built' = Builder!Rectangle(IF builder.type = "subsurface"
                                   THEN Builder!Moved(corner, Builder!Offset) ELSE corner, size)
    BY <1>4, Zenon DEF Builder!Return
  <2>3. /\ position = Builder!Point(position.x, position.y)
        /\ position.x \in Int /\ position.y \in Int
        /\ builder.offset.left \in Int /\ builder.offset.top \in Int
    BY <2>1 DEF BuilderType, Builder!Point
  <2> DEFINE P(x, y) == Builder!Point(x, y)
  <2>4. /\ corner = P(window.x - geometry.top_left.x, window.y - geometry.top_left.y)
        /\ Builder!Moved(corner, Builder!Offset)
             = P(corner.x + builder.offset.left, corner.y + builder.offset.top)
    BY Zenon DEF Builder!MovedBack, Builder!Moved, Builder!Offset, Builder!Displacement
  <2>5. \A x, y : P(x, y).x = x /\ P(x, y).y = y
    BY Zenon DEF Builder!Point
  <2>6. ASSUME builder.type = "toplevel" PROVE built' = Builder!Rectangle(position, size)
    <3>1. window = position /\ geometry.top_left = P(0, 0)
      BY <2>1, <2>6, Zenon DEF Builder!Target, Made, Builder!Rectangle
    <3> HIDE DEF P, corner
    <3>2. corner = P(position.x - 0, position.y - 0)
      BY <2>4, <2>5, <3>1
    <3>3. corner = P(position.x, position.y)
      BY <2>3, <3>2
    <3> QED
      BY <2>2, <2>3, <2>6, <3>3, Zenon DEF P, corner
  <2>7. ASSUME builder.type = "xdg" PROVE built' = Builder!Rectangle(position, size)
    <3>1. /\ window = P(position.x + builder.offset.left, position.y + builder.offset.top)
          /\ geometry.top_left = P(builder.offset.left, builder.offset.top)
      BY <2>1, <2>7, Zenon DEF Builder!Target, Made, Builder!Rectangle, Builder!Moved, Builder!Offset,
         Builder!Displacement
    <3> HIDE DEF P, corner
    <3>2. /\ window.x = position.x + builder.offset.left
          /\ window.y = position.y + builder.offset.top
          /\ geometry.top_left.x = builder.offset.left /\ geometry.top_left.y = builder.offset.top
      BY <2>5, <3>1
    <3>3. window.x - geometry.top_left.x = position.x /\ window.y - geometry.top_left.y = position.y
      BY <2>3, <3>2
    <3>4. corner = P(position.x, position.y)
      BY <2>4, <3>3, Zenon
    <3> QED
      BY <2>2, <2>3, <2>7, <3>4, Zenon DEF P, corner
  <2>8. ASSUME builder.type = "subsurface" PROVE built' = Builder!Rectangle(position, size)
    <3>1. /\ window = P(position.x - builder.offset.left, position.y - builder.offset.top)
          /\ geometry.top_left = P(0, 0)
      BY <2>1, <2>8, Zenon DEF Builder!Target, Made, Builder!Rectangle, Builder!MovedBack,
         Builder!Offset, Builder!Displacement
    <3> HIDE DEF P, corner
    <3>2. Builder!Moved(corner, Builder!Offset)
            = P(position.x - builder.offset.left - 0 + builder.offset.left,
                position.y - builder.offset.top - 0 + builder.offset.top)
      BY <2>4, <2>5, <3>1
    <3>3. Builder!Moved(corner, Builder!Offset) = P(position.x, position.y)
      BY <2>3, <3>2
    <3> QED
      BY <2>2, <2>3, <2>8, <3>3, Zenon DEF P, corner
  <2>9. built' = Builder!Rectangle(position, size)
    BY <2>1, <2>6, <2>7, <2>8, Zenon DEF BuilderType
  <2>10. built' = Builder!Rectangle(position, size)'
    BY <1>0, <2>9, Zenon
  <2> QED
    BY <1>1, <2>1, <2>10, Zenon DEF BuildInv
<1>5. CASE UNCHANGED <<builder, position, size, geometry, window, built>>
  <2>1. Builder!Rectangle(position, size)' = Builder!Rectangle(position, size)
    BY <1>0, Zenon
  <2> QED
    BY <1>1, <1>5, <2>1, Zenon DEF BuildInv
<1> QED
  BY <1>2, <1>3, <1>4, <1>5, Zenon DEF Builder!Next

(* That is what BuiltInPlace asks for.                                     *)
LEMMA BuildCorrect == BuildInv => Builder!BuiltInPlace
<1> SUFFICES ASSUME BuildInv PROVE Builder!BuiltInPlace
  BY Zenon
<1>1. ASSUME geometry # None, builder.type # "subsurface",
             geometry.size.width >= 0, geometry.size.height >= 0
      PROVE  Builder!contains_rectangle(Builder!Rectangle(Builder!Point(0, 0), size), geometry)
  <2>1. geometry = Made /\ BuilderType
    BY <1>1, Zenon DEF BuildInv
  <2> USE DEF Builder!contains_rectangle, Builder!Rectangle, Builder!Point, Builder!Size,
        Builder!left, Builder!right, Builder!top, Builder!bottom, Builder!bottom_right,
        Builder!Moved, Builder!as_displacement, Builder!Displacement
  <2>2. CASE builder.type = "toplevel"
    BY <2>1, <2>2, SMTT(30) DEF Made, BuilderType
  <2>3. CASE builder.type = "xdg"
    BY <2>1, <2>3 DEF Made, BuilderType
  <2> QED
    BY <1>1, <2>1, <2>2, <2>3, Zenon DEF BuilderType
<1>2. ASSUME NEW i \in DOMAIN Builder!toplevel_surface_types
      PROVE  \E j \in DOMAIN Builder!all_surface_types :
                Builder!toplevel_surface_types[i] = Builder!all_surface_types[j]
  <2>1. i \in 1 .. 3 /\ i \in DOMAIN Builder!all_surface_types
    BY DEF Builder!toplevel_surface_types, Builder!all_surface_types
  <2>2. Builder!toplevel_surface_types[i] = Builder!all_surface_types[i]
    BY <2>1 DEF Builder!toplevel_surface_types, Builder!all_surface_types
  <2> QED
    BY <2>1, <2>2, Zenon
<1> QED
  BY <1>1, <1>2, NamesDiffer, Zenon DEF BuildInv, Builder!BuiltInPlace

(* Every builder puts the visible part of its surface where the test asks  *)
(* for it: BuiltInPlace for all positions and sizes.                       *)
THEOREM BuildersCorrect == HelpersSpec => []BuiltInPlace
<1>1. HelpersInit => BuildInv
  BY BuildInit, Zenon DEF HelpersInit
<1>2. BuildInv /\ [HelpersNext]_helpersVars => BuildInv'
  <2>1. [HelpersNext]_helpersVars =>
           Builder!Next \/ UNCHANGED <<builder, position, size, geometry, window, built>>
    BY Zenon DEF HelpersNext, PickRectangles, helpersVars, valueVars
  <2> QED
    BY <2>1, BuildNext, Zenon
<1>3. BuildInv => BuiltInPlace
  BY BuildCorrect, Zenon DEF BuiltInPlace
<1> QED
  BY <1>1, <1>2, <1>3, PTL DEF HelpersSpec

-----------------------------------------------------------------------------
(* Rectangles.                                                             *)

(* Rectangles with integer coordinates and sizes that are not negative.    *)
RectangleType == [top_left : [x : Int, y : Int], size : [width : Nat, height : Nat]]

(* The sides of a rectangle.                                               *)
LEMMA Sides ==
  ASSUME NEW r \in RectangleType
  PROVE  /\ Plane!left(r) \in Int /\ Plane!top(r) \in Int /\ Plane!right(r) \in Int
         /\ Plane!bottom(r) \in Int
         /\ Plane!left(r) <= Plane!right(r) /\ Plane!top(r) <= Plane!bottom(r)
         /\ Plane!Empty(r) <=> Plane!left(r) = Plane!right(r) \/ Plane!top(r) = Plane!bottom(r)
BY DEF RectangleType, Plane!left, Plane!top, Plane!right, Plane!bottom, Plane!bottom_right,
       Plane!Moved, Plane!as_displacement, Plane!Point,
       Plane!Displacement, Plane!Empty

(* The points between its sides.                                           *)
LEMMA InPoints ==
  ASSUME NEW r \in RectangleType, NEW p
  PROVE  p \in Plane!Points(r) <=>
            /\ p \in [x : Int, y : Int]
            /\ Plane!left(r) <= p.x /\ p.x < Plane!right(r) /\ Plane!top(r) <= p.y
            /\ p.y < Plane!bottom(r)
BY Sides DEF Plane!Points

(* contains() is membership of the point.                                  *)
LEMMA ContainsIsMembership ==
  ASSUME NEW r \in RectangleType, NEW p \in [x : Int, y : Int]
  PROVE  Plane!contains(r, p) <=> p \in Plane!Points(r)
BY Sides, InPoints, SMTT(30) DEF Plane!contains

(* The sides of an intersection that is not empty.                         *)
LEMMA IntersectionSides ==
  ASSUME NEW a \in RectangleType, NEW b \in RectangleType,
         Plane!Larger(Plane!left(a), Plane!left(b)) < Plane!Smaller(Plane!right(a), Plane!right(b)),
         Plane!Larger(Plane!top(a), Plane!top(b)) < Plane!Smaller(Plane!bottom(a), Plane!bottom(b))
  PROVE  /\ Plane!intersection_of(a, b) \in RectangleType
         /\ Plane!left(Plane!intersection_of(a, b)) = Plane!Larger(Plane!left(a), Plane!left(b))
         /\ Plane!top(Plane!intersection_of(a, b)) = Plane!Larger(Plane!top(a), Plane!top(b))
         /\ Plane!right(Plane!intersection_of(a, b)) = Plane!Smaller(Plane!right(a), Plane!right(b))
         /\ Plane!bottom(Plane!intersection_of(a, b)) =
               Plane!Smaller(Plane!bottom(a), Plane!bottom(b))
<1> DEFINE l == Plane!Larger(Plane!left(a), Plane!left(b))
           t == Plane!Larger(Plane!top(a), Plane!top(b))
           r == Plane!Smaller(Plane!right(a), Plane!right(b))
           m == Plane!Smaller(Plane!bottom(a), Plane!bottom(b))
           i == Plane!Rectangle(Plane!Point(l, t), Plane!Size(r - l, m - t))
<1>1. l \in Int /\ t \in Int /\ r \in Int /\ m \in Int
  BY Sides, Zenon DEF Plane!Larger, Plane!Smaller
<1>2. Plane!intersection_of(a, b) = i
  BY Zenon DEF Plane!intersection_of
<1>3. r - l \in Nat /\ m - t \in Nat
  <2> HIDE DEF l, t, r, m
  <2>1. l < r /\ t < m
    BY Zenon DEF l, t, r, m
  <2> QED BY <1>1, <2>1
<1>4. i \in RectangleType
  <2> HIDE DEF l, t, r, m
  <2> QED BY <1>1, <1>3, SMTT(30) DEF RectangleType, Plane!Rectangle, Plane!Point, Plane!Size
<1>5. Plane!left(i) = l /\ Plane!top(i) = t /\ Plane!right(i) = r /\ Plane!bottom(i) = m
  <2> HIDE DEF l, t, r, m
  <2> QED BY <1>1, SMTT(30) DEF Plane!left, Plane!top, Plane!right, Plane!bottom, Plane!bottom_right,
                      Plane!Moved, Plane!as_displacement, Plane!Point,
                      Plane!Displacement, Plane!Rectangle, Plane!Size
<1> QED BY <1>2, <1>4, <1>5

(* A point is in both rectangles iff it is between the larger of the left  *)
(* and top sides and the smaller of the right and bottom ones.             *)
LEMMA InBoth ==
  ASSUME NEW a \in RectangleType, NEW b \in RectangleType, NEW p
  PROVE  p \in Plane!Points(a) \cap Plane!Points(b) <=>
            /\ p \in [x : Int, y : Int]
            /\ Plane!Larger(Plane!left(a), Plane!left(b)) <= p.x
            /\ p.x < Plane!Smaller(Plane!right(a), Plane!right(b))
            /\ Plane!Larger(Plane!top(a), Plane!top(b)) <= p.y
            /\ p.y < Plane!Smaller(Plane!bottom(a), Plane!bottom(b))
<1>1. /\ Plane!left(a) \in Int /\ Plane!left(b) \in Int /\ Plane!right(a) \in Int
      /\ Plane!right(b) \in Int
      /\ Plane!top(a) \in Int /\ Plane!top(b) \in Int /\ Plane!bottom(a) \in Int
      /\ Plane!bottom(b) \in Int
  BY Sides, Zenon
<1>2. p \in Plane!Points(a) \cap Plane!Points(b) <=>
         /\ p \in [x : Int, y : Int]
         /\ Plane!left(a) <= p.x /\ p.x < Plane!right(a) /\ Plane!top(a) <= p.y
         /\ p.y < Plane!bottom(a)
         /\ Plane!left(b) <= p.x /\ p.x < Plane!right(b) /\ Plane!top(b) <= p.y
         /\ p.y < Plane!bottom(b)
  BY InPoints, Zenon
<1>3. CASE p \in [x : Int, y : Int]
  BY <1>1, <1>2, <1>3 DEF Plane!Larger, Plane!Smaller
<1>4. CASE p \notin [x : Int, y : Int]
  BY <1>2, <1>4, Zenon
<1> QED BY <1>3, <1>4

(* intersection_of() is the intersection of the sets of points.            *)
LEMMA IntersectionOf ==
  ASSUME NEW a \in RectangleType, NEW b \in RectangleType
  PROVE  Plane!Points(Plane!intersection_of(a, b)) = Plane!Points(a) \cap Plane!Points(b)
<1> DEFINE wide == Plane!Larger(Plane!left(a), Plane!left(b))
                     < Plane!Smaller(Plane!right(a), Plane!right(b))
           tall == Plane!Larger(Plane!top(a), Plane!top(b))
                     < Plane!Smaller(Plane!bottom(a), Plane!bottom(b))
<1>0. /\ Plane!Larger(Plane!left(a), Plane!left(b)) \in Int
      /\ Plane!Smaller(Plane!right(a), Plane!right(b)) \in Int
      /\ Plane!Larger(Plane!top(a), Plane!top(b)) \in Int
      /\ Plane!Smaller(Plane!bottom(a), Plane!bottom(b)) \in Int
  BY Sides, Zenon DEF Plane!Larger, Plane!Smaller
<1>1. CASE wide /\ tall
  <2>1. ASSUME NEW p
        PROVE  p \in Plane!Points(Plane!intersection_of(a, b)) <=> p \in Plane!Points(a) \cap Plane!Points(b)
    BY <1>1, InBoth, IntersectionSides, InPoints
  <2> QED BY <2>1, SMTT(30)
<1>2. CASE ~(wide /\ tall)
  <2> DEFINE e == Plane!Rectangle(Plane!Point(0, 0), Plane!Size(0, 0))
  <2>1. Plane!intersection_of(a, b) = e
    BY <1>2, Zenon DEF Plane!intersection_of
  <2>2. e \in RectangleType /\ Plane!left(e) = 0 /\ Plane!right(e) = 0
    BY DEF RectangleType, Plane!Rectangle, Plane!Point, Plane!Size, Plane!left, Plane!right,
           Plane!bottom_right, Plane!Moved,
           Plane!as_displacement, Plane!Displacement
  <2>3. ASSUME NEW p PROVE p \notin Plane!Points(e)
    <3> HIDE DEF e
    <3> SUFFICES ASSUME p \in Plane!Points(e) PROVE FALSE
      BY Zenon
    <3> QED BY <2>2, InPoints
  <2>4. ASSUME NEW p \in Plane!Points(a) \cap Plane!Points(b) PROVE FALSE
    BY <1>0, <1>2, <2>4, InBoth
  <2> QED BY <2>1, <2>3, <2>4
<1> QED BY <1>1, <1>2

(* overlaps() tells whether they meet.                                     *)
LEMMA OverlapsIsIntersection ==
  ASSUME NEW a \in RectangleType, NEW b \in RectangleType
  PROVE  Plane!overlaps(a, b) <=> Plane!Points(a) \cap Plane!Points(b) # {}
<1>0. /\ Plane!left(a) \in Int /\ Plane!left(b) \in Int /\ Plane!right(a) \in Int
      /\ Plane!right(b) \in Int
      /\ Plane!top(a) \in Int /\ Plane!top(b) \in Int /\ Plane!bottom(a) \in Int
      /\ Plane!bottom(b) \in Int
      /\ Plane!left(a) <= Plane!right(a) /\ Plane!left(b) <= Plane!right(b)
      /\ Plane!top(a) <= Plane!bottom(a) /\ Plane!top(b) <= Plane!bottom(b)
  BY Sides, Zenon
<1>1. Plane!overlaps(a, b) <=>
         /\ Plane!Larger(Plane!left(a), Plane!left(b))
              < Plane!Smaller(Plane!right(a), Plane!right(b))
         /\ Plane!Larger(Plane!top(a), Plane!top(b))
              < Plane!Smaller(Plane!bottom(a), Plane!bottom(b))
  BY <1>0, Sides DEF Plane!overlaps, Plane!Larger, Plane!Smaller
<1>2. ASSUME Plane!overlaps(a, b) PROVE Plane!Points(a) \cap Plane!Points(b) # {}
  <2> DEFINE p == [x |-> Plane!Larger(Plane!left(a), Plane!left(b)),
                   y |-> Plane!Larger(Plane!top(a), Plane!top(b))]
  <2>1. /\ p \in [x : Int, y : Int]
        /\ p.x = Plane!Larger(Plane!left(a), Plane!left(b))
        /\ p.y = Plane!Larger(Plane!top(a), Plane!top(b))
    BY <1>0, Zenon DEF Plane!Larger
  <2>2. p.x <= p.x /\ p.y <= p.y
    BY <2>1, SMTT(30)
  <2>3. p \in Plane!Points(a) \cap Plane!Points(b)
    <3> HIDE DEF p
    <3> QED BY <1>1, <1>2, <2>1, <2>2, InBoth, SMTT(30)
  <2> QED BY <2>3
<1>3. ASSUME NEW p \in Plane!Points(a) \cap Plane!Points(b) PROVE Plane!overlaps(a, b)
  <2>1. /\ Plane!Larger(Plane!left(a), Plane!left(b)) \in Int
        /\ Plane!Smaller(Plane!right(a), Plane!right(b)) \in Int
        /\ Plane!Larger(Plane!top(a), Plane!top(b)) \in Int
        /\ Plane!Smaller(Plane!bottom(a), Plane!bottom(b)) \in Int
    BY <1>0, Zenon DEF Plane!Larger, Plane!Smaller
  <2> QED BY <1>1, <1>3, <2>1, InBoth
<1> QED BY <1>2, <1>3

(* contains() of a rectangle is inclusion, if that one has a point.        *)
LEMMA ContainsRectangle ==
  ASSUME NEW a \in RectangleType, NEW b \in RectangleType, ~Plane!Empty(b)
  PROVE  Plane!contains_rectangle(a, b) <=> Plane!Points(b) \subseteq Plane!Points(a)
<1>0. /\ Plane!left(a) \in Int /\ Plane!left(b) \in Int /\ Plane!right(a) \in Int
      /\ Plane!right(b) \in Int
      /\ Plane!top(a) \in Int /\ Plane!top(b) \in Int /\ Plane!bottom(a) \in Int
      /\ Plane!bottom(b) \in Int
      /\ Plane!left(b) < Plane!right(b) /\ Plane!top(b) < Plane!bottom(b)
  BY Sides
<1>1. ASSUME Plane!contains_rectangle(a, b), NEW p \in Plane!Points(b) PROVE p \in Plane!Points(a)
  <2>1. /\ p \in [x : Int, y : Int]
        /\ Plane!left(b) <= p.x /\ p.x < Plane!right(b) /\ Plane!top(b) <= p.y
        /\ p.y < Plane!bottom(b)
    BY InPoints, Zenon
  <2>2. Plane!left(a) <= p.x /\ p.x < Plane!right(a) /\ Plane!top(a) <= p.y /\ p.y < Plane!bottom(a)
    BY <1>0, <1>1, <2>1, SMTT(30) DEF Plane!contains_rectangle
  <2> QED BY <2>1, <2>2, InPoints
<1>2. ASSUME Plane!Points(b) \subseteq Plane!Points(a) PROVE Plane!contains_rectangle(a, b)
  <2> DEFINE p == [x |-> Plane!left(b), y |-> Plane!top(b)]
             q == [x |-> Plane!right(b) - 1, y |-> Plane!bottom(b) - 1]
  <2>1. p \in Plane!Points(b) /\ q \in Plane!Points(b)
    BY <1>0 DEF Plane!Points
  <2>2. p \in Plane!Points(a) /\ q \in Plane!Points(a)
    BY <1>2, <2>1, Zenon
  <2>3. Plane!left(a) <= Plane!left(b) /\ Plane!top(a) <= Plane!top(b)
    BY <1>0, <2>2, InPoints, SMTT(30)
  <2>4. Plane!right(b) - 1 < Plane!right(a) /\ Plane!bottom(b) - 1 < Plane!bottom(a)
    BY <1>0, <2>2, InPoints, SMTT(30)
  <2> QED BY <1>0, <2>3, <2>4, SMTT(30) DEF Plane!contains_rectangle
<1> QED BY <1>1, <1>2

(* The three together.                                                     *)
LEMMA RectanglesSets ==
  ASSUME NEW a \in RectangleType, NEW b \in RectangleType
  PROVE  Plane!RectanglesAreSets(a, b)
<1>1. ASSUME NEW p \in Plane!Points(a) \cup Plane!Points(b)
      PROVE  Plane!contains(a, p) <=> p \in Plane!Points(a)
  <2>1. p \in [x : Int, y : Int]
    BY InPoints, Zenon
  <2> QED BY <2>1, ContainsIsMembership
<1> QED BY <1>1, OverlapsIsIntersection, IntersectionOf, ContainsRectangle
        DEF Plane!RectanglesAreSets

(* The operations of Rectangle are those of sets of points:                *)
(* RectanglesAreSets for all rectangles.                                   *)
THEOREM RectanglesCorrect == HelpersSpec => []RectanglesAreSets
<1> DEFINE Inv == first \in RectangleType /\ second \in RectangleType
<1>1. HelpersInit => Inv
  BY DEF HelpersInit, RectangleType, Plane!Rectangle, Plane!Point, Plane!Size
<1>2. Inv /\ [HelpersNext]_helpersVars => Inv'
  BY PlaneAssumption, Zenon DEF HelpersNext, helpersVars, valueVars, PickRectangles, RectangleType
<1>3. Inv => RectanglesAreSets
  BY RectanglesSets, Zenon DEF RectanglesAreSets
<1> QED
  BY <1>1, <1>2, <1>3, PTL DEF HelpersSpec

-----------------------------------------------------------------------------
(* Dimensions.                                                             *)

(* The value a test computes has the dimension its operators declare, and  *)
(* follows the origin as that dimension does.                              *)
DimensionInv ==
    /\ value \in [axis : Dimension!Axes, sort : Dimension!Sorts, here : Int, there : Int]
    /\ Dimension!FrameIndependent

(* An axis has an integral origin, a value a shift along it.               *)
LEMMA Shifts ==
  ASSUME NEW a \in Dimension!Axes, NEW s \in Dimension!Sorts
  PROVE  /\ Dimension!Shift(a, s) \in Int
         /\ s # "coordinate" => Dimension!Shift(a, s) = 0
         /\ s = "coordinate" => Dimension!Shift(a, s) = Dimension!Shift(a, "coordinate")
BY SMTT(30) DEF Dimension!Shift, Dimension!Origin, Dimension!Axes, Dimension!Sorts

(* A value a test starts from does.                                        *)
LEMMA DimensionInit == Dimension!Init => DimensionInv
<1> SUFFICES ASSUME Dimension!Init PROVE DimensionInv
  BY Zenon
<1>1. PICK a \in Dimension!Axes, s \in Dimension!Sorts, n \in Dimension!Operands :
         value = Dimension!Measured(a, s, n)
  BY DEF Dimension!Init
<1>2. n \in Int /\ Dimension!Shift(a, s) \in Int
  BY Shifts DEF Dimension!Operands
<1> QED
  BY <1>1, <1>2 DEF DimensionInv, Dimension!FrameIndependent, Dimension!Measured

(* Each operator of the dimension types gives one that does, if its        *)
(* operands do.                                                            *)
LEMMA DimensionNext == DimensionInv /\ (Dimension!Next \/ UNCHANGED value) => DimensionInv'
<1> SUFFICES ASSUME DimensionInv, Dimension!Next \/ UNCHANGED value PROVE DimensionInv'
  BY Zenon
<1> USE DEF DimensionInv, Dimension!FrameIndependent
<1>0. ASSUME NEW s \in Dimension!Sorts, NEW h \in Int, NEW t \in Int,
             \/ value' = [value EXCEPT !.sort = s, !.here = h, !.there = t]
             \/ value' = [value EXCEPT !.here = h, !.there = t] /\ s = value.sort,
             t = h + Dimension!Shift(value.axis, s)
      PROVE  DimensionInv'
  <2>1. value' = [axis |-> value.axis, sort |-> s, here |-> h, there |-> t]
    BY <1>0, Zenon
  <2> QED
    BY <1>0, <2>1, Zenon
<1>1. ASSUME NEW o \in Dimension!Operators, NEW n \in Dimension!Operands, Dimension!Combine(o, n)
      PROVE  DimensionInv'
  <2>1. n \in Int
    BY DEF Dimension!Operands
  <2>2. /\ o[1] \in {"+", "-"}
        /\ <<o[2], o[3], o[4]>> \in
             { <<"delta", "delta", "delta">>, <<"coordinate", "delta", "coordinate">>,
               <<"extent", "delta", "extent">>, <<"extent", "extent", "extent">>,
               <<"coordinate", "coordinate", "delta">>, <<"extent", "extent", "delta">> }
        /\ o[3] = "coordinate" => o[1] = "-"
    BY DEF Dimension!Operators, Dimension!DeltaOperators, Dimension!CoordinateOperators,
           Dimension!ExtentOperators, Dimension!ExtentSums, Dimension!CoordinateDifferences,
           Dimension!ExtentDifferences
  <2>3. /\ value.sort = o[2]
        /\ value' = [value EXCEPT !.sort = o[4],
                        !.here = Dimension!Apply(o[1], value.here, n),
                        !.there = Dimension!Apply(o[1], value.there,
                                                  n + Dimension!Shift(value.axis, o[3]))]
    BY <1>1, Zenon DEF Dimension!Combine, Dimension!Measured
  <2>4. /\ o[2] \in Dimension!Sorts /\ o[3] \in Dimension!Sorts /\ o[4] \in Dimension!Sorts
        /\ o[4] = "coordinate" <=> o[2] = "coordinate" /\ o[3] # "coordinate"
        /\ o[3] = "coordinate" => o[2] = "coordinate"
    BY <2>2, Zenon DEF Dimension!Sorts
  <2> DEFINE h == Dimension!Apply(o[1], value.here, n)
             t == Dimension!Apply(o[1], value.there, n + Dimension!Shift(value.axis, o[3]))
  <2>5. /\ Dimension!Shift(value.axis, o[2]) \in Int
        /\ Dimension!Shift(value.axis, o[3]) \in Int
        /\ o[2] # "coordinate" => Dimension!Shift(value.axis, o[2]) = 0
        /\ o[3] # "coordinate" => Dimension!Shift(value.axis, o[3]) = 0
        /\ o[4] # "coordinate" => Dimension!Shift(value.axis, o[4]) = 0
        /\ o[2] = "coordinate" /\ o[3] = "coordinate" =>
              Dimension!Shift(value.axis, o[2]) = Dimension!Shift(value.axis, o[3])
        /\ o[2] = "coordinate" /\ o[4] = "coordinate" =>
              Dimension!Shift(value.axis, o[2]) = Dimension!Shift(value.axis, o[4])
    BY <2>4, Shifts, Zenon
  <2>6. h \in Int /\ t \in Int /\ t = h + Dimension!Shift(value.axis, o[4])
    <3>1. value.here \in Int /\ value.there = value.here + Dimension!Shift(value.axis, o[2])
      BY <2>3, Zenon
    <3> QED
      BY <2>1, <2>2, <2>4, <2>5, <3>1 DEF Dimension!Apply
  <2> QED
    BY <1>0, <2>3, <2>4, <2>6, Zenon
<1>2. CASE Dimension!Negate
  <2>1. value.sort = "delta" /\ value.here = value.there
    BY <1>2, Shifts, SMTT(30) DEF Dimension!Negate, Dimension!Sorts
  <2> DEFINE n == -value.here
  <2>2. n \in Int /\ n = n + Dimension!Shift(value.axis, value.sort)
    BY <2>1, Shifts
  <2>3. value' = [value EXCEPT !.here = n, !.there = n]
    BY <1>2, <2>1, Zenon DEF Dimension!Negate
  <2> HIDE DEF n
  <2> QED
    BY <1>0, <2>1, <2>2, <2>3, Zenon
<1>3. ASSUME NEW k \in Dimension!Operands, Dimension!Multiply(k) PROVE DimensionInv'
  <2>1. k \in Int /\ value.here = value.there /\ Dimension!Shift(value.axis, value.sort) = 0
    BY <1>3, Shifts DEF Dimension!Multiply, Dimension!Scalable, Dimension!Operands, Dimension!Sorts
  <2>2. k * value.here \in Int /\ k * value.here = k * value.here + 0
    BY <2>1
  <2> QED
    BY <1>0, <1>3, <2>1, <2>2, Zenon DEF Dimension!Multiply
<1>4. ASSUME NEW k \in Dimension!Operands, Dimension!Divide(k) PROVE DimensionInv'
  <2>1. /\ k \in Int /\ k > 0 /\ value.here = value.there
        /\ Dimension!Shift(value.axis, value.sort) = 0
    BY <1>4, Shifts DEF Dimension!Divide, Dimension!Scalable, Dimension!Operands, Dimension!Sorts
  <2>2. /\ Dimension!Quotient(value.here, k) \in Int
        /\ Dimension!Quotient(value.here, k) = Dimension!Quotient(value.here, k) + 0
    BY <2>1 DEF Dimension!Quotient
  <2> QED
    BY <1>0, <1>4, <2>1, <2>2, Zenon DEF Dimension!Divide
<1>5. CASE UNCHANGED value
  BY <1>5, Zenon
<1> QED
  BY <1>1, <1>2, <1>3, <1>4, <1>5, Zenon DEF Dimension!Next

(* What a test computes with points, sizes and displacements does not      *)
(* depend on where the origin is, except as a coordinate: FrameIndependent *)
(* for all values.                                                         *)
THEOREM DimensionsCorrect == HelpersSpec => []FrameIndependent
<1>1. HelpersInit => DimensionInv
  BY DimensionInit, Zenon DEF HelpersInit
<1>2. [HelpersNext]_helpersVars => Dimension!Next \/ UNCHANGED value
  BY Zenon DEF HelpersNext, helpersVars, valueVars, PickRectangles
<1>3. DimensionInv => FrameIndependent
  BY Zenon DEF DimensionInv, FrameIndependent
<1> QED
  BY <1>1, <1>2, <1>3, DimensionNext, PTL DEF HelpersSpec

-----------------------------------------------------------------------------
(* Data devices and selections.                                            *)

(* Any step is one of the selection listeners or leaves them alone.        *)
LEMMA SelectionStep == [HelpersNext]_helpersVars => Selection!Next \/ UNCHANGED selectionVars
  BY Zenon DEF HelpersNext, helpersVars

(* Each class's set of active listeners is the set of the living listeners *)
(* of that class: what active_listeners.find(me) decides by.               *)
SelectionInv ==
    /\ memory \in [Addresses -> {Free, "offer"} \cup Selection!Classes]
    /\ active_listeners = [c \in Selection!Classes |-> { a \in Addresses : memory[a] = c }]
    /\ data \in [Proxies -> Addresses \cup {Free}]
    /\ Selection!CallsOwnClass

(* No listener is made at the start.                                       *)
LEMMA SelectionInit == Selection!Init => SelectionInv
  BY FreeAssumption DEF Selection!Init, SelectionInv, Selection!CallsOwnClass, Selection!Classes

(* Every step of the selection objects keeps that.                         *)
LEMMA SelectionNext == SelectionInv /\ [Selection!Next]_selectionVars => SelectionInv'
<1> SUFFICES ASSUME SelectionInv, [Selection!Next]_selectionVars PROVE SelectionInv'
  BY Zenon
<1> USE DEF SelectionInv, Selection!CallsOwnClass
<1>0. ASSUME NEW a \in Addresses, NEW c \in {"offer"} \cup Selection!Classes,
             memory[a] = Free, memory' = [memory EXCEPT ![a] = c],
             active_listeners' = [active_listeners EXCEPT ![c] = @ \cup {a}]
      PROVE  /\ memory' \in [Addresses -> {Free, "offer"} \cup Selection!Classes]
             /\ active_listeners' = [d \in Selection!Classes |->
                                      { b \in Addresses : memory'[b] = d }]
  <2>1. ASSUME NEW d \in Selection!Classes
        PROVE  active_listeners'[d] = { b \in Addresses : memory'[b] = d }
    BY <1>0, FreeAssumption, Zenon DEF Selection!Classes
  <2>2. active_listeners' = [d \in Selection!Classes |-> active_listeners'[d]]
    BY <1>0, Zenon
  <2>3. memory' \in [Addresses -> {Free, "offer"} \cup Selection!Classes]
    BY <1>0, Zenon
  <2> HIDE DEF SelectionInv
  <2> QED
    BY <2>1, <2>2, <2>3, Zenon
<1>1. ASSUME NEW a \in Addresses, Selection!NewOfferListener(a) PROVE SelectionInv'
  BY <1>0, <1>1, Zenon DEF Selection!NewOfferListener, Selection!Classes
<1>2. ASSUME NEW a \in Addresses, Selection!DeleteListener(a) PROVE SelectionInv'
  BY <1>2, FreeAssumption, ZenonT(30) DEF Selection!DeleteListener, Selection!Classes
<1>3. ASSUME NEW p \in Proxies, NEW a \in Addresses, Selection!NewListener(p, a)
      PROVE  SelectionInv'
  <2>1. ClassOf[p] \in Selection!Classes
    BY Zenon DEF Selection!Classes
  <2>2. data' \in [Proxies -> Addresses \cup {Free}]
    BY <1>3, Zenon DEF Selection!NewListener, Selection!AddListener
  <2> QED
    BY <1>0, <1>3, <2>1, <2>2, Zenon DEF Selection!NewListener, Selection!Classes
<1>4. ASSUME NEW p \in Proxies, NEW a \in Addresses, Selection!listen_to(a, p)
      PROVE  SelectionInv'
  BY <1>4, Zenon DEF Selection!listen_to, Selection!AddListener
<1>5. ASSUME NEW p \in Proxies,
             Selection!ResetSource(p) \/ Selection!ResetDevice(p) \/ Selection!DestroyOffer(p)
      PROVE  SelectionInv'
  BY <1>5 DEF Selection!ResetSource, Selection!ResetDevice, Selection!DestroyOffer,
              Selection!DestroyProxy
<1>6. ASSUME NEW p \in Proxies, Selection!CallIfActive(p)
      PROVE  /\ UNCHANGED <<memory, active_listeners, data, destroyed>>
             /\ called'[3] <=> called'[1] = called'[2]
             /\ called'[1] = ClassOf[p]
  BY <1>6, Zenon DEF Selection!CallIfActive, Selection!includes, Selection!Classes
<1>7. ASSUME NEW p \in Proxies,
             Selection!DeviceThunk(p) \/ Selection!OfferThunk(p) \/ Selection!SourceThunk(p)
      PROVE  SelectionInv'
  BY <1>6, <1>7, SMTT(30) DEF Selection!DeviceThunk, Selection!OfferThunk, Selection!SourceThunk
<1>8. ASSUME NEW p \in Proxies, Selection!SendThunk(p) PROVE SelectionInv'
  BY <1>6, <1>8 DEF Selection!SendThunk
<1>9. CASE UNCHANGED selectionVars
  BY <1>9, Zenon DEF selectionVars
<1> QED
  BY <1>1, <1>2, <1>3, <1>4, <1>5, <1>7, <1>8, <1>9, Zenon DEF Selection!Next

(* A selection event reaches only a living listener of the class of its    *)
(* proxy: CallsOwnClass holds for all proxies, listeners and addresses,    *)
(* however often an address is used again.                                 *)
THEOREM SelectionsCorrect == HelpersSpec => []CallsOwnClass
<1>1. HelpersInit => SelectionInv
  BY SelectionInit, Zenon DEF HelpersInit
<1>2. SelectionInv /\ [HelpersNext]_helpersVars => SelectionInv'
  BY SelectionNext, SelectionStep, Zenon
<1>3. SelectionInv => CallsOwnClass
  BY Zenon DEF SelectionInv, CallsOwnClass
<1> QED
  BY <1>1, <1>2, <1>3, PTL DEF HelpersSpec

=============================================================================
