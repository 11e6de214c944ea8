----------------------- MODULE SurfaceObjectsProofs ------------------------
(***************************************************************************)
(* The invariants of surfaces and of their configures, for all sets of     *)
(* surfaces and callbacks and all bounds.  The two share no state, so each *)
(* has an inductive invariant of its own, and a step of the composition is *)
(* a step of one of them or leaves it alone.                               *)
(***************************************************************************)
EXTENDS SurfaceObjects, TLAPS

-----------------------------------------------------------------------------
(* Configures.                                                             *)

(* What a client sends, and the events it gets.                            *)
ToConfigure == [type : {"commit", "ack"}, number : Nat \ {0}, buffer : BOOLEAN]
ConfigureEvent == [serial : Nat \ {0}, size : Nat]

(* Requests on the wire: is one an acknowledgement; is one sent before     *)
(* each buffer; is none of them a commit, or only one, the n-th.           *)
HasAck(q) == \E k \in 1 .. Len(q) : q[k].type = "ack"
Led(q) == \A k \in 1 .. Len(q) : q[k].buffer = TRUE => \E j \in 1 .. k - 1 : q[j].type = "ack"
NoCommit(q) == \A k \in 1 .. Len(q) : q[k].type # "commit"
OneCommit(q, n) ==
    \E k \in 1 .. Len(q) : /\ q[k].type = "commit" /\ q[k].number = n
                           /\ \A j \in 1 .. Len(q) : q[j].type = "commit" => j = k

(* A request is sent.                                                      *)
LEMMA ConfigureSent ==
  ASSUME NEW q \in Seq(ToConfigure), NEW r \in ToConfigure, NEW p, p = Append(q, r)
  PROVE  /\ p \in Seq(ToConfigure)
         /\ HasAck(p) <=> HasAck(q) \/ r.type = "ack"
         /\ Led(q) /\ (r.buffer = TRUE => HasAck(q)) => Led(p)
         /\ r.type = "ack" => /\ NoCommit(q) => NoCommit(p)
                              /\ \A n : OneCommit(q, n) => OneCommit(p, n)
         /\ r.type = "commit" /\ NoCommit(q) => OneCommit(p, r.number)
<1>1. /\ p \in Seq(ToConfigure) /\ Len(p) = Len(q) + 1 /\ Len(q) \in Nat
      /\ p[Len(q) + 1] = r
      /\ \A k \in 1 .. Len(q) : p[k] = q[k] /\ k \in 1 .. Len(p)
      /\ \A k \in 1 .. Len(p) : k \in 1 .. Len(q) \/ k = Len(q) + 1
      /\ Len(q) + 1 \in 1 .. Len(p)
  OBVIOUS
<1>2. HasAck(p) <=> HasAck(q) \/ r.type = "ack"
  BY <1>1, Zenon DEF HasAck
<1>3. ASSUME Led(q), r.buffer = TRUE => HasAck(q) PROVE Led(p)
  <2> SUFFICES ASSUME NEW k \in 1 .. Len(p), p[k].buffer = TRUE
               PROVE  \E j \in 1 .. k - 1 : p[j].type = "ack"
    BY Zenon DEF Led
  <2>1. CASE k \in 1 .. Len(q)
    <3>1. PICK j \in 1 .. k - 1 : q[j].type = "ack"
      BY <1>1, <1>3, <2>1, Zenon DEF Led
    <3>2. j \in 1 .. Len(q)
      BY <1>1, <2>1
    <3> QED
      BY <1>1, <3>1, <3>2, Zenon
  <2>2. CASE k = Len(q) + 1
    <3>1. PICK j \in 1 .. Len(q) : q[j].type = "ack"
      BY <1>1, <1>3, <2>2, Zenon DEF HasAck
    <3>2. j \in 1 .. k - 1
      BY <1>1, <2>2
    <3> QED
      BY <1>1, <3>1, <3>2, Zenon
  <2> QED
    BY <1>1, <2>1, <2>2, Zenon
<1>4. ASSUME r.type = "ack", NoCommit(q) PROVE NoCommit(p)
  BY <1>1, <1>4, Zenon DEF NoCommit
<1>5. ASSUME r.type = "ack", NEW n, OneCommit(q, n) PROVE OneCommit(p, n)
  <2>1. PICK k \in 1 .. Len(q) : /\ q[k].type = "commit" /\ q[k].number = n
                                 /\ \A j \in 1 .. Len(q) : q[j].type = "commit" => j = k
    BY <1>5, Zenon DEF OneCommit
  <2>2. k \in 1 .. Len(p) /\ p[k].type = "commit" /\ p[k].number = n
    BY <1>1, <2>1, Zenon
  <2>3. \A j \in 1 .. Len(p) : p[j].type = "commit" => j = k
    BY <1>1, <1>5, <2>1, Zenon
  <2> QED
    BY <2>2, <2>3, Zenon DEF OneCommit
<1>6. ASSUME r.type = "commit", NoCommit(q) PROVE OneCommit(p, r.number)
  <2>1. \A j \in 1 .. Len(p) : p[j].type = "commit" => j = Len(q) + 1
    BY <1>1, <1>6, Zenon DEF NoCommit
  <2>2. Len(q) + 1 \in 1 .. Len(p) /\ p[Len(q) + 1] = r
    BY <1>1, Zenon
  <2> QED
    BY <1>6, <2>1, <2>2, Zenon DEF OneCommit
<1> QED
  BY <1>1, <1>2, <1>3, <1>4, <1>5, <1>6, Zenon

(* The compositor takes a request.                                         *)
LEMMA ConfigureTaken ==
  ASSUME NEW q \in Seq(ToConfigure), q # <<>>, NEW p, p = Tail(q)
  PROVE  /\ p \in Seq(ToConfigure) /\ Head(q) \in ToConfigure
         /\ HasAck(p) => HasAck(q)
         /\ Head(q).type = "commit" => (HasAck(q) => HasAck(p))
         /\ Head(q).type = "commit" => (Led(q) => Led(p))
         /\ Led(q) => Head(q).buffer = FALSE
         /\ NoCommit(q) => NoCommit(p) /\ Head(q).type # "commit"
         /\ \A n : OneCommit(q, n) =>
               IF Head(q).type = "commit" THEN NoCommit(p) /\ Head(q).number = n
               ELSE OneCommit(p, n)
<1>1. /\ p \in Seq(ToConfigure) /\ Len(p) = Len(q) - 1 /\ Len(q) \in Nat \ {0}
      /\ Head(q) = q[1] /\ q[1] \in ToConfigure
      /\ \A k \in 1 .. Len(p) : p[k] = q[k + 1] /\ k + 1 \in 1 .. Len(q)
  OBVIOUS
<1>2. ASSUME NEW k \in 1 .. Len(q), k # 1
      PROVE  \E i \in 1 .. Len(p) : k = i + 1 /\ p[i] = q[k]
  <2>1. k - 1 \in 1 .. Len(p) /\ k = (k - 1) + 1
    BY <1>1, <1>2
  <2> QED
    BY <1>1, <2>1, Zenon
<1>3. HasAck(p) => HasAck(q)
  BY <1>1, Zenon DEF HasAck
<1>4. ASSUME Head(q).type = "commit", HasAck(q) PROVE HasAck(p)
  <2>1. PICK k \in 1 .. Len(q) : q[k].type = "ack"
    BY <1>4, Zenon DEF HasAck
  <2>2. k # 1
    BY <1>1, <1>4, <2>1, Zenon
  <2> QED
    BY <1>2, <2>1, <2>2, Zenon DEF HasAck
<1>5. ASSUME Head(q).type = "commit", Led(q) PROVE Led(p)
  <2> SUFFICES ASSUME NEW k \in 1 .. Len(p), p[k].buffer = TRUE
               PROVE  \E j \in 1 .. k - 1 : p[j].type = "ack"
    BY Zenon DEF Led
  <2>1. k + 1 \in 1 .. Len(q) /\ q[k + 1].buffer = TRUE
    BY <1>1, Zenon
  <2>2. PICK j \in 1 .. (k + 1) - 1 : q[j].type = "ack"
    BY <1>5, <2>1, Zenon DEF Led
  <2>3. j \in 1 .. Len(q) /\ j # 1
    BY <1>1, <1>5, <2>2
  <2>4. PICK i \in 1 .. Len(p) : j = i + 1 /\ p[i] = q[j]
    BY <1>2, <2>3, Zenon
  <2>5. i \in 1 .. k - 1
    BY <1>1, <2>2, <2>4
  <2> QED
    BY <2>2, <2>4, <2>5, Zenon
<1>6. ASSUME Led(q) PROVE Head(q).buffer = FALSE
  <2>1. 1 \in 1 .. Len(q) /\ ~ \E j \in 1 .. 1 - 1 : q[j].type = "ack"
    BY <1>1
  <2>2. q[1].buffer # TRUE
    BY <1>6, <2>1, Zenon DEF Led
  <2> QED
    BY <1>1, <2>2, Zenon DEF ToConfigure
<1>7. NoCommit(q) => NoCommit(p) /\ Head(q).type # "commit"
  BY <1>1 DEF NoCommit
<1>8. ASSUME NEW n, OneCommit(q, n)
      PROVE  IF Head(q).type = "commit" THEN NoCommit(p) /\ Head(q).number = n
             ELSE OneCommit(p, n)
  <2>1. PICK k \in 1 .. Len(q) : /\ q[k].type = "commit" /\ q[k].number = n
                                 /\ \A j \in 1 .. Len(q) : q[j].type = "commit" => j = k
    BY <1>8, Zenon DEF OneCommit
  <2>2. CASE Head(q).type = "commit"
    <3>1. k = 1
      BY <1>1, <2>1, <2>2
    <3>2. NoCommit(p)
      BY <1>1, <2>1, <3>1 DEF NoCommit
    <3> QED
      BY <1>1, <2>1, <2>2, <3>1, <3>2, Zenon
  <2>3. CASE Head(q).type # "commit"
    <3>1. k # 1
      BY <1>1, <2>1, <2>3, Zenon
    <3>2. PICK i \in 1 .. Len(p) : k = i + 1 /\ p[i] = q[k]
      BY <1>2, <3>1, Zenon
    <3>3. \A j \in 1 .. Len(p) : p[j].type = "commit" => j = i
      BY <1>1, <2>1, <3>2
    <3> QED
      BY <2>1, <2>3, <3>2, <3>3, Zenon DEF OneCommit
  <2> QED
    BY <2>2, <2>3, Zenon
<1> QED
  BY <1>1, <1>3, <1>4, <1>5, <1>6, <1>7, <1>8, Zenon

(* Types.                                                                  *)
ConfigureType ==
    /\ caller \in {"idle", "committed", "waiting", "gone"}
    /\ expectation \in {"once", "met", "default"}
    /\ commits \in Nat /\ prev_config_count \in Nat /\ configure_count \in Nat
    /\ last_size_ \in Nat /\ handled \in Nat /\ serial \in Nat /\ acked \in Nat /\ strays \in Nat
    /\ configureRequests \in Seq(ToConfigure)
    /\ configures \in Seq(ConfigureEvent) /\ batch \in Seq(ConfigureEvent)
    /\ failed \in BOOLEAN /\ crowded \in BOOLEAN /\ unconfigured \in BOOLEAN /\ inStep \in BOOLEAN

(* Sequences of events: one is sent, one is dispatched.                    *)
LEMMA ConfigureEvents ==
  ASSUME NEW s \in Seq(ConfigureEvent)
  PROVE  /\ \A e \in ConfigureEvent : /\ Append(s, e) \in Seq(ConfigureEvent)
                                      /\ Len(Append(s, e)) = Len(s) + 1
                                      /\ s = <<>> => Append(s, e)[1] = e
         /\ s # <<>> => /\ Head(s) \in ConfigureEvent /\ Tail(s) \in Seq(ConfigureEvent)
                        /\ Len(Tail(s)) = Len(s) - 1 /\ Head(s) = s[1]
         /\ Len(s) \in Nat /\ (s = <<>> <=> Len(s) = 0)
  OBVIOUS

(* Every step keeps the types.                                             *)
LEMMA ConfigureTypeNext ==
  ConfigureType /\ (Configure!Next \/ UNCHANGED configureVars) => ConfigureType'
<1> SUFFICES ASSUME ConfigureType, Configure!Next \/ UNCHANGED configureVars
             PROVE  ConfigureType'
  BY Zenon
<1> USE DEF Configure!testVars, Configure!surfaceVars, Configure!compositorVars
<1>0. ASSUME NEW e \in ConfigureEvent PROVE e.serial \in Nat \ {0} /\ e.size \in Nat
  BY Zenon DEF ConfigureEvent
<1>1. ASSUME NEW n \in Nat, Configure!Configure(n)
      PROVE  serial' \in Nat /\ configures' \in Seq(ConfigureEvent) /\ crowded' \in BOOLEAN
  <2>1. [serial |-> serial + 1, size |-> n] \in ConfigureEvent
    BY DEF ConfigureType, ConfigureEvent
  <2> QED
    BY <1>1, <2>1, ConfigureEvents DEF ConfigureType, Configure!Configure
<1>2. ASSUME NEW t \in {"commit", "ack"}, NEW n \in Nat \ {0}, Configure!Send(t, n)
      PROVE  configureRequests' \in Seq(ToConfigure)
  <2>1. Configure!Request(t, n, t = "commit" /\ n > 1) \in ToConfigure
    BY Zenon DEF Configure!Request, ToConfigure
  <2> QED
    BY <1>2, <2>1, ConfigureSent, Zenon DEF ConfigureType, Configure!Send
<1>3. ASSUME NEW answer \in BOOLEAN, Configure!HandleCommit(answer) PROVE ConfigureType'
  <2>1. /\ configureRequests # <<>> /\ configureRequests' = Tail(configureRequests)
        /\ handled' = Head(configureRequests).number
        /\ unconfigured' = (unconfigured \/ (Head(configureRequests).buffer /\ acked = 0))
        /\ UNCHANGED <<caller, commits, prev_config_count, last_size_, configure_count,
                       expectation, failed, batch, acked, strays, inStep>>
        /\ Configure!Configure(Head(configureRequests).number)
           \/ UNCHANGED <<serial, configures, crowded>>
    BY <1>3, Zenon DEF Configure!HandleCommit
  <2>2. Head(configureRequests) \in ToConfigure /\ configureRequests' \in Seq(ToConfigure)
    BY <2>1, ConfigureTaken, Zenon DEF ConfigureType
  <2>3. Head(configureRequests).number \in Nat
    BY <2>2, Zenon DEF ToConfigure
  <2>4. serial' \in Nat /\ configures' \in Seq(ConfigureEvent) /\ crowded' \in BOOLEAN
    BY <1>1, <2>1, <2>3, Zenon DEF ConfigureType
  <2>5. unconfigured' \in BOOLEAN
    BY <2>1, Zenon
  <2> QED
    BY <2>1, <2>2, <2>3, <2>4, <2>5, Zenon DEF ConfigureType
<1>4. CASE Configure!HandleAck
  <2>1. configureRequests # <<>> /\ configureRequests' = Tail(configureRequests)
        /\ acked' = Head(configureRequests).number
    BY <1>4, Zenon DEF Configure!HandleAck
  <2>2. Head(configureRequests) \in ToConfigure /\ configureRequests' \in Seq(ToConfigure)
    BY <2>1, ConfigureTaken, Zenon DEF ConfigureType
  <2>3. Head(configureRequests).number \in Nat
    BY <2>2, Zenon DEF ToConfigure
  <2> QED
    BY <1>4, <2>1, <2>2, <2>3, Zenon DEF Configure!HandleAck, ConfigureType
<1>5. CASE Configure!Stray
  <2>1. serial' \in Nat /\ configures' \in Seq(ConfigureEvent) /\ crowded' \in BOOLEAN
    BY <1>1, <1>5, Zenon DEF Configure!Stray, ConfigureType
  <2> QED
    BY <1>5, <2>1 DEF Configure!Stray, ConfigureType
<1>6. CASE Configure!Dispatch
  <2>1. /\ batch # <<>> /\ batch' = Tail(batch)
        /\ UNCHANGED <<caller, commits, prev_config_count, configures, handled, serial, acked,
                       strays, crowded, unconfigured, inStep>>
        /\ \/ Configure!LayerConfigure(Head(batch))
           \/ Configure!XdgConfigure(Head(batch))
           \/ UNCHANGED <<last_size_, configure_count, expectation, failed, configureRequests>>
    BY <1>6, Zenon DEF Configure!Dispatch
  <2>2. Head(batch) \in ConfigureEvent /\ batch' \in Seq(ConfigureEvent)
    BY <2>1, ConfigureEvents, Zenon DEF ConfigureType
  <2>3. Head(batch).serial \in Nat \ {0} /\ Head(batch).size \in Nat
    BY <1>0, <2>2, Zenon
  <2>4. /\ last_size_' \in Nat /\ configure_count' \in Nat
        /\ expectation' \in {"once", "met", "default"}
    BY <2>1, <2>3 DEF Configure!LayerConfigure, Configure!XdgConfigure, ConfigureType
  <2>6. failed' \in BOOLEAN
    BY <2>1, Zenon DEF Configure!LayerConfigure, Configure!XdgConfigure, ConfigureType
  <2>5. configureRequests' \in Seq(ToConfigure)
    BY <1>2, <2>1, <2>3, Zenon DEF Configure!LayerConfigure, Configure!XdgConfigure, ConfigureType
  <2> QED
    BY <2>1, <2>2, <2>4, <2>5, <2>6, Zenon DEF ConfigureType
<1>7. CASE Configure!Read
  BY <1>7, Zenon DEF Configure!Read, ConfigureType
<1>8. CASE Configure!Commit
  <2>1. commits + 1 \in Nat \ {0}
    BY DEF ConfigureType
  <2>2. configureRequests' \in Seq(ToConfigure)
    BY <1>2, <1>8, <2>1, Zenon DEF Configure!Commit
  <2> QED
    BY <1>8, <2>2 DEF Configure!Commit, ConfigureType
<1>9. CASE Configure!InitiallyConfigured
  <2>1. commits + 1 \in Nat \ {0}
    BY DEF ConfigureType
  <2>2. configureRequests' \in Seq(ToConfigure)
    BY <1>2, <1>9, <2>1, Zenon DEF Configure!InitiallyConfigured
  <2> QED
    BY <1>9, <2>2 DEF Configure!InitiallyConfigured, ConfigureType
<1>10. CASE Configure!create_xdg_shell_v6_surface \/ Configure!XdgStableSurfaceBuilder_build
  <2>1. /\ Configure!Request("commit", 1, FALSE) \in ToConfigure
        /\ Configure!Request("commit", 2, TRUE) \in ToConfigure
        /\ Configure!Request("commit", 1, TRUE) \in ToConfigure
    BY DEF Configure!Request, ToConfigure
  <2>2. /\ \A r, t \in ToConfigure : <<r, t>> \in Seq(ToConfigure)
        /\ \A r \in ToConfigure : <<r>> \in Seq(ToConfigure)
    OBVIOUS
  <2>3. \/ configureRequests' = <<Configure!Request("commit", 1, FALSE),
                                  Configure!Request("commit", 2, TRUE)>>
        \/ configureRequests' = <<Configure!Request("commit", 1, TRUE)>>
    BY <1>10, Zenon DEF Configure!create_xdg_shell_v6_surface,
                        Configure!XdgStableSurfaceBuilder_build
  <2>4. configureRequests' \in Seq(ToConfigure)
    BY <2>1, <2>2, <2>3, Zenon
  <2>5. commits' \in {1, 2}
        /\ UNCHANGED <<caller, prev_config_count, last_size_, configure_count, expectation,
                       failed, batch, configures, handled, serial, acked, strays, crowded,
                       unconfigured, inStep>>
    BY <1>10, Zenon DEF Configure!create_xdg_shell_v6_surface,
                        Configure!XdgStableSurfaceBuilder_build
  <2> QED
    BY <2>4, <2>5 DEF ConfigureType
<1>11. CASE Configure!dispatch_until_configure
  BY <1>11, Zenon DEF Configure!dispatch_until_configure, ConfigureType
<1>12. CASE Configure!Configured \/ Configure!TimedOut
  BY <1>12, Zenon DEF Configure!Configured, Configure!TimedOut, ConfigureType
<1>13. CASE UNCHANGED configureVars
  BY <1>13, Zenon DEF configureVars, ConfigureType
<1> QED
  BY <1>3, <1>4, <1>5, <1>6, <1>7, <1>8, <1>9, <1>10, <1>11, <1>12, <1>13, Zenon DEF Configure!Next

(* An acknowledgement precedes every buffer.                               *)
AckInv ==
    /\ (shell = "layer" /\ configure_count > 0) \/ (shell = "xdg" /\ expectation # "once") =>
          acked > 0 \/ HasAck(configureRequests)
    /\ inStep = TRUE /\ shell = "layer" /\ caller = "idle" => commits = 0 \/ configure_count > 0
    /\ inStep = TRUE /\ shell \in {"layer", "xdg"} =>
          unconfigured = FALSE /\ (acked > 0 \/ Led(configureRequests))

(* Every step keeps an acknowledgement before every buffer.                *)
LEMMA AckNext ==
  ConfigureType /\ AckInv /\ (Configure!Next \/ UNCHANGED configureVars) => AckInv'
<1> SUFFICES ASSUME ConfigureType, AckInv, Configure!Next \/ UNCHANGED configureVars
             PROVE  AckInv'
  BY Zenon
<1> USE DEF Configure!testVars, Configure!surfaceVars, Configure!compositorVars
<1>0. shell' = shell /\ (inStep' = TRUE => inStep = TRUE)
  BY Zenon DEF Configure!Next, configureVars, ConfigureType, Configure!HandleCommit,
         Configure!HandleAck, Configure!Stray,
     Configure!Dispatch, Configure!Read, Configure!Commit, Configure!dispatch_until_configure,
     Configure!create_xdg_shell_v6_surface, Configure!XdgStableSurfaceBuilder_build,
     Configure!Configured, Configure!InitiallyConfigured, Configure!TimedOut
<1>1. ASSUME NEW t \in {"commit", "ack"}, NEW n \in Nat \ {0}, Configure!Send(t, n)
      PROVE  /\ HasAck(configureRequests') <=> HasAck(configureRequests) \/ t = "ack"
             /\ Led(configureRequests) /\ (t = "commit" /\ n > 1 => HasAck(configureRequests)) =>
                   Led(configureRequests')
  <2> DEFINE r == Configure!Request(t, n, t = "commit" /\ n > 1)
  <2>1. r \in ToConfigure /\ r.type = t /\ (r.buffer = TRUE <=> t = "commit" /\ n > 1)
    BY Zenon DEF Configure!Request, ToConfigure
  <2>2. configureRequests' = Append(configureRequests, r)
    BY <1>1, Zenon DEF Configure!Send
  <2> HIDE DEF r
  <2> QED
    BY <2>1, <2>2, ConfigureSent, Zenon DEF ConfigureType
<1>2. ASSUME NEW answer \in BOOLEAN, Configure!HandleCommit(answer) PROVE AckInv'
  <2>1. /\ configureRequests # <<>> /\ Head(configureRequests).type = "commit"
        /\ configureRequests' = Tail(configureRequests)
        /\ unconfigured' = (unconfigured \/ (Head(configureRequests).buffer /\ acked = 0))
        /\ UNCHANGED <<caller, commits, configure_count, expectation, acked, inStep>>
    BY <1>2, Zenon DEF Configure!HandleCommit
  <2>2. /\ HasAck(configureRequests) => HasAck(configureRequests')
        /\ Led(configureRequests) =>
              Led(configureRequests') /\ Head(configureRequests).buffer = FALSE
    BY <2>1, ConfigureTaken, Zenon DEF ConfigureType
  <2>3. inStep = TRUE /\ shell \in {"layer", "xdg"} => unconfigured' = FALSE
    <3>1. CASE acked > 0
      <4>1. acked # 0
        BY <3>1 DEF ConfigureType
      <4> QED
        BY <2>1, <4>1, Zenon DEF AckInv
    <3>2. CASE Led(configureRequests)
      BY <2>1, <2>2, <3>2, Zenon DEF AckInv
    <3> QED
      BY <3>1, <3>2, Zenon DEF AckInv
  <2> QED
    BY <1>0, <2>1, <2>2, <2>3, Zenon DEF AckInv
<1>3. CASE Configure!HandleAck
  <2>1. configureRequests # <<>> /\ acked' = Head(configureRequests).number
        /\ UNCHANGED <<caller, commits, configure_count, expectation, unconfigured, inStep>>
    BY <1>3, Zenon DEF Configure!HandleAck
  <2>2. Head(configureRequests) \in ToConfigure
    BY <2>1, ConfigureTaken, Zenon DEF ConfigureType
  <2>3. acked' > 0
    BY <2>1, <2>2 DEF ToConfigure
  <2> QED
    BY <1>0, <2>1, <2>3, Zenon DEF AckInv
<1>4. CASE Configure!Dispatch
  <2>1. /\ batch # <<>>
        /\ UNCHANGED <<caller, commits, acked, unconfigured, inStep>>
        /\ \/ shell = "layer" /\ Configure!LayerConfigure(Head(batch))
           \/ shell = "xdg" /\ Configure!XdgConfigure(Head(batch))
           \/ shell \notin {"layer", "xdg"}
    BY <1>4, Zenon DEF Configure!Dispatch
  <2>2. Head(batch).serial \in Nat \ {0}
    BY <2>1, ConfigureEvents, Zenon DEF ConfigureType, ConfigureEvent
  <2>3. CASE shell = "layer"
    <3>1. Configure!Send("ack", Head(batch).serial) /\ configure_count' = configure_count + 1
      BY <2>1, <2>3, Zenon DEF Configure!LayerConfigure
    <3>2. HasAck(configureRequests') /\ (Led(configureRequests) => Led(configureRequests'))
      BY <1>1, <2>2, <3>1, Zenon
    <3> QED
      BY <1>0, <2>1, <2>3, <3>1, <3>2 DEF AckInv, ConfigureType
  <2>4. CASE shell = "xdg"
    <3>1. /\ expectation = "met" => configureRequests' = configureRequests
          /\ expectation # "met" => Configure!Send("ack", Head(batch).serial)
      BY <2>1, <2>4, Zenon DEF Configure!XdgConfigure
    <3>2. CASE expectation = "met"
      BY <1>0, <2>1, <2>4, <3>1, <3>2, Zenon DEF AckInv
    <3>3. CASE expectation # "met"
      <4>1. HasAck(configureRequests') /\ (Led(configureRequests) => Led(configureRequests'))
        BY <1>1, <2>2, <3>1, <3>3, Zenon
      <4> QED
        BY <1>0, <2>1, <2>4, <4>1, Zenon DEF AckInv
    <3> QED
      BY <3>2, <3>3, Zenon
  <2>5. CASE shell \notin {"layer", "xdg"}
    BY <1>0, <2>5, Zenon DEF AckInv
  <2> QED
    BY <2>3, <2>4, <2>5, Zenon
<1>5. CASE Configure!Read
  BY <1>0, <1>5, Zenon DEF Configure!Read, AckInv
<1>6. CASE Configure!Commit
  <2>1. /\ Configure!Send("commit", commits + 1) /\ commits + 1 \in Nat \ {0}
        /\ caller' \in {"committed", "waiting"} /\ (shell = "xdg" => commits = 0)
        /\ UNCHANGED <<configure_count, expectation, acked, unconfigured>>
    BY <1>6 DEF Configure!Commit, ConfigureType
  <2>4. inStep' = TRUE => caller = "idle"
    BY <1>6, Zenon DEF Configure!Commit
  <2>2. /\ HasAck(configureRequests') <=> HasAck(configureRequests)
        /\ Led(configureRequests) /\ (commits + 1 > 1 => HasAck(configureRequests)) =>
              Led(configureRequests')
    BY <1>1, <2>1, Zenon
  <2>3. ASSUME inStep' = TRUE, shell \in {"layer", "xdg"}
        PROVE  acked > 0 \/ Led(configureRequests')
    <3>1. commits + 1 > 1 => acked > 0 \/ HasAck(configureRequests)
      BY <1>0, <2>1, <2>3, <2>4 DEF AckInv, ConfigureType
    <3> QED
      BY <1>0, <2>2, <2>3, <3>1, Zenon DEF AckInv
  <2> QED
    BY <1>0, <2>1, <2>2, <2>3, Zenon DEF AckInv
<1>7. CASE Configure!InitiallyConfigured
  <2>1. /\ Configure!Send("commit", commits + 1) /\ commits + 1 \in Nat \ {0}
        /\ shell = "xdg" /\ expectation = "met"
        /\ UNCHANGED <<configure_count, acked, unconfigured, inStep>>
    BY <1>7 DEF Configure!InitiallyConfigured, Configure!Condition, ConfigureType
  <2>2. /\ HasAck(configureRequests') <=> HasAck(configureRequests)
        /\ Led(configureRequests) /\ HasAck(configureRequests) => Led(configureRequests')
    BY <1>1, <2>1, Zenon
  <2> QED
    BY <1>0, <2>1, <2>2, Zenon DEF AckInv
<1>8. CASE Configure!create_xdg_shell_v6_surface \/ Configure!XdgStableSurfaceBuilder_build
  BY <1>0, <1>8, Zenon DEF Configure!create_xdg_shell_v6_surface,
     Configure!XdgStableSurfaceBuilder_build, AckInv
<1>9. CASE Configure!dispatch_until_configure
  BY <1>0, <1>9, Zenon DEF Configure!dispatch_until_configure, AckInv
<1>10. CASE Configure!Configured
  BY <1>0, <1>10 DEF Configure!Configured, Configure!Condition, AckInv, ConfigureType
<1>11. CASE Configure!TimedOut \/ Configure!Stray
  BY <1>0, <1>11, Zenon DEF Configure!TimedOut, Configure!Stray, AckInv
<1>12. CASE UNCHANGED configureVars
  BY <1>12, Zenon DEF configureVars, AckInv
<1> QED
  BY <1>2, <1>3, <1>4, <1>5, <1>6, <1>7, <1>8, <1>9, <1>10, <1>11, <1>12, Zenon DEF Configure!Next

(* The surface of create_xdg_shell_stable_surface(): a wait starts with    *)
(* its only commit; until the first configure is dispatched nothing is     *)
(* acknowledged, so that a second one is crowded.                          *)
XdgWaits ==
    /\ caller \in {"idle", "waiting", "gone"}
    /\ commits = 0 => /\ caller = "idle" /\ handled = 0 /\ expectation = "once"
                      /\ configureRequests = <<>> /\ configures = <<>> /\ batch = <<>>
    /\ caller = "idle" => commits = 0 \/ expectation = "default"
    /\ caller = "gone" => batch = <<>>
    /\ expectation = "met" => caller = "waiting" /\ (crowded = FALSE => batch = <<>>)
    /\ expectation = "once" => acked = 0 /\ ~HasAck(configureRequests)
    /\ expectation = "once" /\ crowded = FALSE =>
          serial <= 1 /\ Len(configures) + Len(batch) <= serial

(* And its expectation fails only for a second configure at once.          *)
XdgInv ==
    /\ shell = "xdg" => XdgWaits
    /\ failed = TRUE => shell = "xdg" /\ crowded = TRUE

(* Every step keeps the only wait of create_xdg_shell_stable_surface().    *)
LEMMA XdgNext ==
  ConfigureType /\ XdgInv /\ (Configure!Next \/ UNCHANGED configureVars) => XdgInv'
<1> SUFFICES ASSUME ConfigureType, XdgInv, Configure!Next \/ UNCHANGED configureVars
             PROVE  XdgInv'
  BY Zenon
<1> USE DEF Configure!testVars, Configure!surfaceVars, Configure!compositorVars
<1>0. shell' = shell /\ (crowded = TRUE => crowded' = TRUE)
  <2>1. shell' = shell
    BY Zenon DEF Configure!Next, configureVars, Configure!HandleCommit, Configure!HandleAck,
     Configure!Stray, Configure!Dispatch, Configure!Read, Configure!Commit,
     Configure!dispatch_until_configure,
     Configure!create_xdg_shell_v6_surface, Configure!XdgStableSurfaceBuilder_build,
     Configure!Configured, Configure!InitiallyConfigured, Configure!TimedOut
  <2>2. crowded = TRUE => crowded' = TRUE
    BY Zenon DEF Configure!Next, configureVars, Configure!HandleCommit, Configure!HandleAck,
     Configure!Stray, Configure!Dispatch, Configure!Read, Configure!Commit,
     Configure!dispatch_until_configure, Configure!Configure,
     Configure!create_xdg_shell_v6_surface, Configure!XdgStableSurfaceBuilder_build,
     Configure!Configured, Configure!InitiallyConfigured, Configure!TimedOut
  <2> QED
    BY <2>1, <2>2, Zenon
<1>1. ASSUME NEW n \in Nat, Configure!Configure(n), shell = "xdg", expectation = "once",
             crowded' = FALSE
      PROVE  serial' <= 1 /\ Len(configures') + Len(batch) <= serial'
  <2>1. /\ serial' = serial + 1
        /\ configures' = Append(configures, [serial |-> serial + 1, size |-> n])
        /\ crowded' = (crowded \/ (serial > 0 /\ acked = 0))
    BY <1>1, Zenon DEF Configure!Configure
  <2>2. acked = 0 /\ (crowded = FALSE => serial <= 1 /\ Len(configures) + Len(batch) <= serial)
    BY <1>1, Zenon DEF XdgInv, XdgWaits
  <2>3. crowded = FALSE /\ ~(serial > 0)
    BY <1>1, <2>1, <2>2, Zenon DEF ConfigureType
  <2>4. serial = 0
    BY <2>3 DEF ConfigureType
  <2>5. [serial |-> serial + 1, size |-> n] \in ConfigureEvent
    BY DEF ConfigureType, ConfigureEvent
  <2>6. Len(configures') = Len(configures) + 1 /\ Len(configures) \in Nat /\ Len(batch) \in Nat
    BY <2>1, <2>5, ConfigureEvents, Zenon DEF ConfigureType
  <2> QED
    BY <2>1, <2>2, <2>3, <2>4, <2>6
<1>2. ASSUME NEW answer \in BOOLEAN, Configure!HandleCommit(answer) PROVE XdgInv'
  <2>1. /\ configureRequests # <<>> /\ Head(configureRequests).type = "commit"
        /\ configureRequests' = Tail(configureRequests)
        /\ UNCHANGED <<caller, commits, expectation, acked, batch, failed>>
        /\ Configure!Configure(Head(configureRequests).number)
           \/ UNCHANGED <<serial, configures, crowded>>
    BY <1>2, Zenon DEF Configure!HandleCommit
  <2>2. /\ HasAck(configureRequests') => HasAck(configureRequests)
        /\ Head(configureRequests) \in ToConfigure
    BY <2>1, ConfigureTaken, Zenon DEF ConfigureType
  <2>3. Head(configureRequests).number \in Nat
    BY <2>2, Zenon DEF ToConfigure
  <2>4. shell = "xdg" => commits # 0
    BY <2>1, Zenon DEF XdgInv, XdgWaits
  <2>5. shell = "xdg" /\ expectation = "once" /\ crowded' = FALSE =>
           serial' <= 1 /\ Len(configures') + Len(batch) <= serial'
    BY <1>0, <1>1, <2>1, <2>3, Zenon DEF XdgInv, XdgWaits
  <2>6. crowded' = FALSE => crowded = FALSE
    BY <1>0, Zenon DEF ConfigureType
  <2> QED
    BY <1>0, <2>1, <2>2, <2>4, <2>5, <2>6, Zenon DEF XdgInv, XdgWaits
<1>3. CASE Configure!HandleAck
  <2>1. /\ configureRequests # <<>> /\ Head(configureRequests).type = "ack"
        /\ UNCHANGED <<caller, commits, expectation, batch, failed, crowded>>
    BY <1>3, Zenon DEF Configure!HandleAck
  <2>2. HasAck(configureRequests)
    <3>1. 1 \in 1 .. Len(configureRequests) /\ Head(configureRequests) = configureRequests[1]
      BY <2>1 DEF ConfigureType
    <3> QED
      BY <2>1, <3>1, Zenon DEF HasAck
  <2>3. shell = "xdg" => expectation # "once" /\ commits # 0
    BY <2>1, <2>2, Zenon DEF XdgInv, XdgWaits
  <2> QED
    BY <1>0, <2>1, <2>3, Zenon DEF XdgInv, XdgWaits
<1>4. CASE Configure!Stray
  <2>1. /\ handled > 0 /\ Configure!Configure(handled)
        /\ UNCHANGED <<caller, commits, expectation, acked, batch, failed, configureRequests>>
    BY <1>4, Zenon DEF Configure!Stray
  <2>2. shell = "xdg" => commits # 0
    BY <2>1 DEF XdgInv, XdgWaits, ConfigureType
  <2>3. shell = "xdg" /\ expectation = "once" /\ crowded' = FALSE =>
           serial' <= 1 /\ Len(configures') + Len(batch) <= serial'
    BY <1>1, <2>1, Zenon DEF ConfigureType
  <2>4. crowded' = FALSE => crowded = FALSE
    BY <1>0, Zenon DEF ConfigureType
  <2> QED
    BY <1>0, <2>1, <2>2, <2>3, <2>4, Zenon DEF XdgInv, XdgWaits
<1>5. CASE Configure!Dispatch
  <2>1. /\ batch # <<>> /\ batch' = Tail(batch)
        /\ UNCHANGED <<caller, commits, handled, serial, acked, configures, crowded>>
    BY <1>5, Zenon DEF Configure!Dispatch
  <2>2. CASE shell # "xdg"
    <3>1. failed' = failed
      BY <1>5, <2>2, Zenon DEF Configure!Dispatch, Configure!LayerConfigure
    <3> QED
      BY <1>0, <2>1, <2>2, <3>1, Zenon DEF XdgInv
  <2>3. CASE shell = "xdg"
    <3>1. Configure!XdgConfigure(Head(batch))
      BY <1>5, <2>3, Zenon DEF Configure!Dispatch
    <3>2. commits # 0 /\ caller # "gone"
      BY <2>1, <2>3, Zenon DEF XdgInv, XdgWaits
    <3>3. Len(batch') = Len(batch) - 1 /\ (batch' = <<>> <=> Len(batch') = 0)
          /\ Len(batch) \in Nat /\ Len(configures) \in Nat /\ batch' \in Seq(ConfigureEvent)
      BY <2>1, ConfigureEvents, Zenon DEF ConfigureType
    <3>4. CASE expectation = "once"
      <4>1. expectation' = "met" /\ failed' = failed
        BY <3>1, <3>4, Zenon DEF Configure!XdgConfigure, ConfigureType
      <4>2. caller = "waiting"
        BY <2>3, <3>2, <3>4, Zenon DEF XdgInv, XdgWaits
      <4>3. crowded = FALSE => batch' = <<>>
        <5>1. crowded = FALSE => serial <= 1 /\ Len(configures) + Len(batch) <= serial
          BY <2>3, <3>4, Zenon DEF XdgInv, XdgWaits
        <5> QED
          BY <2>1, <3>3, <5>1, ConfigureEvents DEF ConfigureType
      <4> QED
        BY <1>0, <2>1, <2>3, <3>2, <4>1, <4>2, <4>3, Zenon DEF XdgInv, XdgWaits
    <3>5. CASE expectation = "met"
      <4>1. expectation' = "met" /\ crowded = TRUE /\ caller = "waiting"
        BY <2>1, <2>3, <3>1, <3>5, Zenon DEF Configure!XdgConfigure, XdgInv, XdgWaits, ConfigureType
      <4> QED
        BY <1>0, <2>1, <2>3, <3>2, <4>1, Zenon DEF XdgInv, XdgWaits
    <3>6. CASE expectation = "default"
      <4>1. expectation' = "default" /\ failed' = failed
        BY <3>1, <3>6, Zenon DEF Configure!XdgConfigure, ConfigureType
      <4> QED
        BY <1>0, <2>1, <2>3, <3>2, <4>1, Zenon DEF XdgInv, XdgWaits
    <3> QED
      BY <3>4, <3>5, <3>6, Zenon DEF ConfigureType
  <2> QED
    BY <2>2, <2>3, Zenon
<1>6. CASE Configure!Read
  <2>1. /\ batch = <<>> /\ configures # <<>> /\ caller # "gone"
        /\ caller = "waiting" => ~Configure!Condition
        /\ batch' = configures /\ configures' = <<>>
        /\ UNCHANGED <<caller, commits, handled, serial, acked, crowded, expectation, failed,
                       configureRequests>>
    BY <1>6, Zenon DEF Configure!Read
  <2>2. shell = "xdg" => commits # 0 /\ expectation # "met"
    BY <2>1, Zenon DEF XdgInv, XdgWaits, Configure!Condition
  <2>3. Len(configures') + Len(batch') = Len(configures) + Len(batch)
    BY <2>1 DEF ConfigureType
  <2> QED
    BY <1>0, <2>1, <2>2, <2>3, Zenon DEF XdgInv, XdgWaits
<1>7. CASE Configure!Commit
  <2>1. /\ shell = "xdg" => commits = 0 /\ caller' = "waiting"
        /\ commits' # 0 /\ Configure!Send("commit", commits + 1)
        /\ UNCHANGED <<handled, serial, acked, crowded, expectation, failed, batch, configures>>
    BY <1>7 DEF Configure!Commit, ConfigureType
  <2>2. CASE shell = "xdg"
    <3>1. /\ configureRequests' = <<Configure!Request("commit", commits + 1,
                                       "commit" = "commit" /\ commits + 1 > 1)>>
          /\ expectation = "once"
      BY <2>1, <2>2 DEF XdgInv, XdgWaits, Configure!Send
    <3>2. ~HasAck(configureRequests')
      BY <3>1 DEF HasAck, Configure!Request
    <3> QED
      BY <1>0, <2>1, <2>2, <3>1, <3>2, Zenon DEF XdgInv, XdgWaits
  <2> QED
    BY <1>0, <2>1, <2>2, Zenon DEF XdgInv
<1>8. CASE Configure!InitiallyConfigured
  BY <1>0, <1>8 DEF Configure!InitiallyConfigured, XdgInv, XdgWaits, ConfigureType
<1>9. CASE Configure!create_xdg_shell_v6_surface \/ Configure!XdgStableSurfaceBuilder_build
           \/ Configure!dispatch_until_configure \/ Configure!Configured
  BY <1>0, <1>9, Zenon DEF Configure!create_xdg_shell_v6_surface,
                           Configure!dispatch_until_configure,
     Configure!XdgStableSurfaceBuilder_build, Configure!Configured, XdgInv
<1>10. CASE Configure!TimedOut
  <2>1. shell = "xdg" => expectation # "met" /\ commits # 0
    BY <1>10, Zenon DEF Configure!TimedOut, Configure!Condition, XdgInv, XdgWaits
  <2> QED
    BY <1>0, <1>10, <2>1, Zenon DEF Configure!TimedOut, XdgInv, XdgWaits
<1>11. CASE UNCHANGED configureVars
  BY <1>11, Zenon DEF configureVars, XdgInv, XdgWaits
<1> QED
  BY <1>2, <1>3, <1>4, <1>5, <1>6, <1>7, <1>8, <1>9, <1>10, <1>11, Zenon DEF Configure!Next

(* A test that waits once after each commit, with a compositor that sends  *)
(* no configure of its own: the commit is on its way, or its answer is, or *)
(* was read, or there is none, or it was dispatched.                       *)
Strict == shell = "layer" /\ inStep = TRUE /\ strays = 0
Early == caller = "waiting" => configure_count = prev_config_count
Committing == OneCommit(configureRequests, commits) /\ configures = <<>> /\ batch = <<>> /\ Early
Answered == /\ NoCommit(configureRequests) /\ Len(configures) = 1
            /\ configures[1].size = commits /\ batch = <<>> /\ Early
ReadIn == /\ NoCommit(configureRequests) /\ configures = <<>> /\ Len(batch) = 1
          /\ batch[1].size = commits /\ caller = "waiting" /\ Early
Quiet == NoCommit(configureRequests) /\ configures = <<>> /\ batch = <<>>

(* Then the caller is idle with nothing on its way, or waits for one of    *)
(* those.                                                                  *)
OwnInv ==
    Strict =>
      /\ caller = "idle" => Quiet /\ last_size_ = commits
      /\ caller \in {"committed", "waiting"} =>
            \/ Committing \/ Answered \/ ReadIn
            \/ Quiet /\ Early
            \/ Quiet /\ last_size_ = commits /\ caller = "waiting"

(* Every step keeps the wait for the answer to one's own commit.           *)
LEMMA OwnNext ==
  ConfigureType /\ OwnInv /\ (Configure!Next \/ UNCHANGED configureVars) => OwnInv'
<1> SUFFICES ASSUME ConfigureType, OwnInv, Configure!Next \/ UNCHANGED configureVars, Strict'
             PROVE  /\ caller' = "idle" => Quiet' /\ last_size_' = commits'
                    /\ caller' \in {"committed", "waiting"} =>
                          \/ Committing' \/ Answered' \/ ReadIn'
                          \/ Quiet' /\ Early'
                          \/ Quiet' /\ last_size_' = commits' /\ caller' = "waiting"
  BY Zenon DEF OwnInv
<1> USE DEF Configure!testVars, Configure!surfaceVars, Configure!compositorVars
<1>0. shell' = shell /\ shell = "layer" /\ strays = 0 /\ inStep = TRUE
  <2>1. shell' = shell /\ (strays' = strays \/ strays' = strays + 1)
    BY Zenon DEF Configure!Next, configureVars, Configure!HandleCommit, Configure!HandleAck,
     Configure!Stray, Configure!Dispatch, Configure!Read, Configure!Commit,
     Configure!dispatch_until_configure,
     Configure!create_xdg_shell_v6_surface, Configure!XdgStableSurfaceBuilder_build,
     Configure!Configured, Configure!InitiallyConfigured, Configure!TimedOut
  <2>2. inStep' = TRUE => inStep = TRUE
    BY Zenon DEF Configure!Next, configureVars, ConfigureType, Configure!HandleCommit,
           Configure!HandleAck, Configure!Stray,
     Configure!Dispatch, Configure!Read, Configure!Commit, Configure!dispatch_until_configure,
     Configure!create_xdg_shell_v6_surface, Configure!XdgStableSurfaceBuilder_build,
     Configure!Configured, Configure!InitiallyConfigured, Configure!TimedOut
  <2> QED
    BY <2>1, <2>2 DEF Strict, ConfigureType
<1>1. /\ caller = "idle" => Quiet /\ last_size_ = commits
      /\ caller \in {"committed", "waiting"} =>
            \/ Committing \/ Answered \/ ReadIn
            \/ Quiet /\ Early
            \/ Quiet /\ last_size_ = commits /\ caller = "waiting"
  BY <1>0, Zenon DEF OwnInv, Strict
<1>2. ASSUME NEW answer \in BOOLEAN, Configure!HandleCommit(answer)
      PROVE  caller' \in {"committed", "waiting"} => Answered' \/ (Quiet' /\ Early')
  <2>1. /\ configureRequests # <<>> /\ Head(configureRequests).type = "commit"
        /\ configureRequests' = Tail(configureRequests)
        /\ UNCHANGED <<caller, commits, batch, configure_count, prev_config_count>>
        /\ \/ configures' = Append(configures, [serial |-> serial + 1,
                                                size |-> Head(configureRequests).number])
           \/ configures' = configures
    BY <1>2, Zenon DEF Configure!HandleCommit, Configure!Configure
  <2>2. ~NoCommit(configureRequests)
    BY <2>1, ConfigureTaken, Zenon DEF ConfigureType
  <2> SUFFICES ASSUME caller \in {"committed", "waiting"} PROVE Answered' \/ (Quiet' /\ Early')
    BY <2>1, Zenon
  <2>3. Committing
    BY <1>1, <2>2, Zenon DEF Answered, ReadIn, Quiet
  <2>4. NoCommit(configureRequests') /\ Head(configureRequests).number = commits
    BY <2>1, <2>3, ConfigureTaken, Zenon DEF ConfigureType, Committing
  <2>5. CASE configures' = configures
    BY <2>1, <2>3, <2>4, <2>5, Zenon DEF Committing, Quiet, Early
  <2>6. CASE configures' = Append(configures, [serial |-> serial + 1,
                                               size |-> Head(configureRequests).number])
    <3>1. [serial |-> serial + 1, size |-> commits] \in ConfigureEvent
      BY DEF ConfigureType, ConfigureEvent
    <3>2. Len(configures') = 1 /\ configures'[1] = [serial |-> serial + 1, size |-> commits]
      BY <2>3, <2>4, <2>6, <3>1 DEF Committing
    <3> QED
      BY <2>1, <2>3, <2>4, <3>2 DEF Committing, Answered, Early
  <2> QED
    BY <2>1, <2>5, <2>6, Zenon
<1>3. ASSUME Configure!HandleCommit(TRUE) \/ Configure!HandleCommit(FALSE) PROVE caller' # "idle"
  <2>1. /\ configureRequests # <<>> /\ Head(configureRequests).type = "commit"
        /\ caller' = caller
    BY <1>3, Zenon DEF Configure!HandleCommit
  <2>2. ~NoCommit(configureRequests)
    BY <2>1, ConfigureTaken, Zenon DEF ConfigureType
  <2> QED
    BY <1>1, <2>1, <2>2, Zenon DEF Quiet
<1>4. CASE Configure!HandleAck
  <2>1. /\ configureRequests # <<>> /\ Head(configureRequests).type = "ack"
        /\ configureRequests' = Tail(configureRequests)
        /\ UNCHANGED <<caller, commits, last_size_, configure_count, prev_config_count, batch,
                       configures>>
    BY <1>4, Zenon DEF Configure!HandleAck
  <2>2. /\ NoCommit(configureRequests) => NoCommit(configureRequests')
        /\ OneCommit(configureRequests, commits) => OneCommit(configureRequests', commits)
    BY <2>1, ConfigureTaken, Zenon DEF ConfigureType
  <2> QED
    BY <1>1, <2>1, <2>2, Zenon DEF Committing, Answered, ReadIn, Quiet, Early
<1>5. CASE Configure!Dispatch
  <2>1. /\ batch # <<>> /\ batch' = Tail(batch) /\ last_size_' = Head(batch).size
        /\ Configure!Send("ack", Head(batch).serial)
        /\ UNCHANGED <<caller, commits, configures>>
    BY <1>0, <1>5, Zenon DEF Configure!Dispatch, Configure!LayerConfigure
  <2>2. Head(batch) \in ConfigureEvent /\ Head(batch) = batch[1] /\ Len(batch') = Len(batch) - 1
        /\ batch' \in Seq(ConfigureEvent)
    BY <2>1, ConfigureEvents, Zenon DEF ConfigureType
  <2> DEFINE r == Configure!Request("ack", Head(batch).serial,
                                    "ack" = "commit" /\ Head(batch).serial > 1)
  <2>3. r \in ToConfigure /\ r.type = "ack"
    BY <2>2, Zenon DEF Configure!Request, ToConfigure, ConfigureEvent
  <2>8. configureRequests' = Append(configureRequests, r)
    BY <2>1, Zenon DEF Configure!Send
  <2> HIDE DEF r
  <2>4. NoCommit(configureRequests) => NoCommit(configureRequests')
    BY <2>3, <2>8, ConfigureSent, Zenon DEF ConfigureType
  <2>5. caller \in {"committed", "waiting"} => ReadIn
    BY <1>1, <2>1, Zenon DEF Committing, Answered, Quiet
  <2>6. caller \in {"committed", "waiting"} => batch' = <<>>
    BY <2>2, <2>5, ConfigureEvents DEF ReadIn
  <2>7. caller # "idle"
    BY <1>1, <2>1, Zenon DEF Quiet
  <2> QED
    BY <2>1, <2>2, <2>4, <2>5, <2>6, <2>7, Zenon DEF ReadIn, Quiet
<1>6. CASE Configure!Read
  <2>1. /\ batch = <<>> /\ configures # <<>> /\ batch' = configures /\ configures' = <<>>
        /\ UNCHANGED <<caller, commits, configureRequests, configure_count, prev_config_count>>
    BY <1>6, Zenon DEF Configure!Read
  <2>2. caller # "committed"
    BY <1>6, Zenon DEF Configure!Read, Strict
  <2>3. caller # "idle"
    BY <1>1, <2>1, Zenon DEF Quiet
  <2>4. caller = "waiting" => Answered
    BY <1>1, <2>1, Zenon DEF Committing, ReadIn, Quiet
  <2> QED
    BY <2>1, <2>2, <2>3, <2>4, Zenon DEF Answered, ReadIn, Early
<1>7. CASE Configure!Commit
  <2>1. /\ caller' = "committed" /\ commits' = commits + 1 /\ commits + 1 \in Nat \ {0}
        /\ Configure!Send("commit", commits + 1) /\ UNCHANGED <<batch, configures>>
    BY <1>0, <1>7 DEF Configure!Commit, ConfigureType
  <2>2. caller = "idle"
    BY <1>7, Zenon DEF Configure!Commit, Strict
  <2> DEFINE r == Configure!Request("commit", commits + 1, "commit" = "commit" /\ commits + 1 > 1)
  <2>3. r \in ToConfigure /\ r.type = "commit" /\ r.number = commits + 1
    BY <2>1, Zenon DEF Configure!Request, ToConfigure
  <2>4. configureRequests' = Append(configureRequests, r)
    BY <2>1, Zenon DEF Configure!Send
  <2> HIDE DEF r
  <2>5. OneCommit(configureRequests', commits')
    BY <1>1, <2>1, <2>2, <2>3, <2>4, ConfigureSent, Zenon DEF ConfigureType, Quiet
  <2> QED
    BY <1>1, <2>1, <2>2, <2>5, Zenon DEF Committing, Quiet, Early
<1>8. CASE Configure!dispatch_until_configure
  <2>1. /\ caller' = "waiting" /\ prev_config_count' = configure_count
        /\ UNCHANGED <<commits, configure_count, last_size_, batch, configures, configureRequests>>
    BY <1>8, Zenon DEF Configure!dispatch_until_configure
  <2>2. caller = "committed"
    BY <1>8, Zenon DEF Configure!dispatch_until_configure, Strict
  <2> QED
    BY <1>1, <2>1, <2>2, Zenon DEF Committing, Answered, ReadIn, Quiet, Early
<1>9. CASE Configure!Configured
  <2>1. /\ caller = "waiting" /\ batch = <<>> /\ configure_count > prev_config_count
        /\ caller' = "idle"
        /\ UNCHANGED <<commits, last_size_, batch, configures, configureRequests>>
    BY <1>9, Zenon DEF Configure!Configured, Configure!Condition
  <2>2. ~Early
    BY <2>1 DEF Early, ConfigureType
  <2> QED
    BY <1>1, <2>1, <2>2, Zenon DEF Committing, Answered, ReadIn, Quiet
<1>10. CASE Configure!Stray
  BY <1>0, <1>10 DEF Configure!Stray, Strict
<1>11. CASE Configure!create_xdg_shell_v6_surface \/ Configure!XdgStableSurfaceBuilder_build
            \/ Configure!InitiallyConfigured
  BY <1>0, <1>11, Zenon DEF Configure!create_xdg_shell_v6_surface, Configure!InitiallyConfigured,
     Configure!XdgStableSurfaceBuilder_build
<1>12. CASE Configure!TimedOut
  BY <1>12, Zenon DEF Configure!TimedOut
<1>13. CASE UNCHANGED configureVars
  BY <1>1, <1>13, Zenon DEF configureVars, Committing, Answered, ReadIn, Quiet, Early
<1>14. ASSUME NEW answer \in BOOLEAN, Configure!HandleCommit(answer)
       PROVE  caller' # "idle"
  BY <1>3, <1>14, Zenon
<1> QED
  BY <1>2, <1>14, <1>4, <1>5, <1>6, <1>7, <1>8, <1>9, <1>10, <1>11, <1>12, <1>13, Zenon
     DEF Configure!Next

(* Nothing is committed at the start.                                      *)
LEMMA ConfigureInit == Configure!Init => ConfigureType /\ AckInv /\ XdgInv /\ OwnInv
<1> SUFFICES ASSUME Configure!Init PROVE ConfigureType /\ AckInv /\ XdgInv /\ OwnInv
  BY Zenon
<1>0. /\ configureRequests \in Seq(ToConfigure) /\ configures \in Seq(ConfigureEvent)
      /\ batch \in Seq(ConfigureEvent)
  BY DEF Configure!Init
<1>7. /\ failed \in BOOLEAN /\ crowded \in BOOLEAN /\ unconfigured \in BOOLEAN
      /\ inStep \in BOOLEAN
  BY Zenon DEF Configure!Init
<1>1. ConfigureType
  BY <1>0, <1>7, Zenon DEF Configure!Init, ConfigureType
<1>2. Len(configureRequests) = 0 /\ \A k \in 1 .. 0 : FALSE
  BY DEF Configure!Init
<1>3. Led(configureRequests) /\ NoCommit(configureRequests) /\ ~HasAck(configureRequests)
  BY <1>2, Zenon DEF Led, NoCommit, HasAck
<1>4. AckInv
  BY <1>3, Zenon DEF Configure!Init, AckInv
<1>5. XdgInv
  BY <1>3 DEF Configure!Init, XdgInv, XdgWaits
<1>6. OwnInv
  BY <1>3, Zenon DEF Configure!Init, OwnInv, Quiet
<1> QED
  BY <1>1, <1>4, <1>5, <1>6, Zenon

(* A test that waits after each commit never attaches a buffer before a    *)
(* configure was acknowledged, and returns from the wait with the answer   *)
(* to its own commit: ConfiguresAnswered for any number of commits and     *)
(* strays.                                                                 *)
THEOREM ConfiguresCorrect == SurfacesSpec => []ConfiguresAnswered
<1> DEFINE Inv == ConfigureType /\ AckInv /\ XdgInv /\ OwnInv
<1>1. SurfacesInit => Inv
  BY ConfigureInit, Zenon DEF SurfacesInit
<1>2. Inv /\ [SurfacesNext]_surfacesVars => Inv'
  <2>1. [SurfacesNext]_surfacesVars => Configure!Next \/ UNCHANGED configureVars
    BY Zenon DEF SurfacesNext, surfacesVars
  <2> QED
    BY <2>1, ConfigureTypeNext, AckNext, XdgNext, OwnNext, Zenon
<1>3. Inv => ConfiguresAnswered
  BY Zenon DEF ConfiguresAnswered, Configure!AnswerIsOwn, Configure!AckBeforeBuffer, ConfigureType,
     AckInv, XdgInv, OwnInv, Strict
<1> QED
  BY <1>1, <1>2, <1>3, PTL DEF SurfacesSpec

-----------------------------------------------------------------------------
(* Surfaces and frame callbacks.                                           *)

(* The callbacks some surface has an entry for.                            *)
Entered == { p[2] : p \in pending_callbacks }

(* Types; a role is that of a living surface, and what the client keeps is *)
(* alive.                                                                  *)
SurfaceType ==
    /\ surface \subseteq Surfaces /\ role \subseteq surface
    /\ pending_callbacks \subseteq Surfaces \X Callbacks
    /\ proxy \subseteq Callbacks /\ heap = proxy
    /\ creating \in surface \cup {None} /\ (creating = None \/ creating \notin kept)
    /\ kept \subseteq surface \cup {"buffer"}
    /\ running \in Seq(Callbacks)

(* A callback object is entered for one living surface or runs, not both,  *)
(* and nothing else is a callback object.                                  *)
CallbackInv ==
    /\ corrupted = FALSE
    /\ \A p \in pending_callbacks : p[1] \in surface /\ p[2] \notin Surface!Running
    /\ \A p, q \in pending_callbacks : p[2] = q[2] => p = q
    /\ proxy = Entered \cup Surface!Running
    /\ \A i, j \in DOMAIN running : running[i] = running[j] => i = j
    /\ locals # {} => creating # None /\ locals \subseteq Surface!Own(creating)

(* When the client has gone nothing is left.                               *)
EndInv == connected = FALSE =>
    surface = {} /\ pending_callbacks = {} /\ proxy = {} /\ kept = {} /\ running = <<>>

(* The invariant of surfaces and their callbacks.                          *)
SurfaceInv == SurfaceType /\ CallbackInv /\ EndInv

(* A test starts with a client and no surface.                             *)
LEMMA SurfaceInit == Surface!Init => SurfaceInv
  BY SurfacesAssumption DEF Surface!Init, SurfaceInv, SurfaceType, CallbackInv, EndInv, Entered,
     Surface!Running

(* A callback starts to run, and the innermost one returns.                *)
LEMMA RunningAppend ==
  ASSUME running \in Seq(Callbacks), NEW c \in Callbacks, running' = Append(running, c),
         c \notin Surface!Running,
         \A i, j \in DOMAIN running : running[i] = running[j] => i = j
  PROVE  /\ running' \in Seq(Callbacks)
         /\ Surface!Running' = Surface!Running \cup {c}
         /\ \A i, j \in DOMAIN running' : running'[i] = running'[j] => i = j
<1>1. Len(running) \in Nat /\ DOMAIN running = 1 .. Len(running)
  OBVIOUS
<1>2. /\ running' \in Seq(Callbacks) /\ DOMAIN running' = 1 .. Len(running) + 1
      /\ running'[Len(running) + 1] = c
      /\ \A i \in 1 .. Len(running) : running'[i] = running[i]
  OBVIOUS
<1> QED
  BY <1>1, <1>2 DEF Surface!Running

(* The innermost one returns.                                              *)
LEMMA RunningPop ==
  ASSUME running \in Seq(Callbacks), running # <<>>,
         running' = SubSeq(running, 1, Len(running) - 1),
         \A i, j \in DOMAIN running : running[i] = running[j] => i = j
  PROVE  /\ running' \in Seq(Callbacks)
         /\ running[Len(running)] \in Surface!Running
         /\ Surface!Running' = Surface!Running \ {running[Len(running)]}
         /\ \A i, j \in DOMAIN running' : running'[i] = running'[j] => i = j
<1>1. Len(running) \in Nat \ {0} /\ DOMAIN running = 1 .. Len(running)
  OBVIOUS
<1>2. /\ running' \in Seq(Callbacks) /\ DOMAIN running' = 1 .. Len(running) - 1
      /\ \A i \in 1 .. Len(running) - 1 : running'[i] = running[i]
  BY <1>1
<1>3. running[Len(running)] \in Surface!Running
  BY <1>1 DEF Surface!Running
<1>4. ASSUME NEW c
      PROVE  c \in Surface!Running' <=> c \in Surface!Running /\ c # running[Len(running)]
  <2>1. c \in Surface!Running' <=> \E i \in 1 .. Len(running) - 1 : running[i] = c
    BY <1>1, <1>2, Zenon DEF Surface!Running
  <2>2. c \in Surface!Running <=> \E i \in 1 .. Len(running) : running[i] = c
    BY <1>1, Zenon DEF Surface!Running
  <2> QED
    BY <1>1, <2>1, <2>2
<1>5. \A i, j \in DOMAIN running' : running'[i] = running'[j] => i = j
  BY <1>1, <1>2
<1> QED
  BY <1>2, <1>3, <1>4, <1>5, Zenon

(* add_frame_callback enters a new callback.                               *)
LEMMA CallbackAdded ==
  ASSUME SurfaceType, CallbackInv, NEW s \in Surfaces, NEW c \in Callbacks, Surface!Add(s, c),
         s \in surface', surface \subseteq surface', running' = running, corrupted' = corrupted,
         locals' # {} => creating' # None
            /\ \A d \in locals' : d \in Surface!Own(creating') \/ (d = c /\ s = creating')
  PROVE  /\ CallbackInv'
         /\ pending_callbacks' \subseteq Surfaces \X Callbacks /\ proxy' \subseteq Callbacks
         /\ heap' = proxy'
<1>1. c \notin proxy /\ pending_callbacks' = pending_callbacks \cup { <<s, c>> }
      /\ proxy' = proxy \cup {c} /\ heap' = proxy'
  BY Zenon DEF Surface!Add, SurfaceType
<1>2. Surface!Running' = Surface!Running
  BY Zenon DEF Surface!Running
<1>a. <<s, c>>[1] = s /\ <<s, c>>[2] = c
  BY Zenon
<1>3. Entered' = Entered \cup {c}
  BY <1>1, <1>a, Zenon DEF Entered
<1>4. \A p \in pending_callbacks : p[2] \in proxy /\ p[2] # c
  BY <1>1, Zenon DEF CallbackInv, Entered
<1>5. \A p \in pending_callbacks' : p[1] \in surface' /\ p[2] \notin Surface!Running'
  BY <1>1, <1>2, <1>3 DEF CallbackInv
<1>6. \A p, q \in pending_callbacks' : p[2] = q[2] => p = q
  BY <1>1, <1>4 DEF CallbackInv
<1>7. \A x, d : d \in Surface!Own(x) \/ (d = c /\ x = s) => d \in Surface!Own(x)'
  <2>1. ASSUME NEW x, NEW d
        PROVE  d \in Surface!Own(x)' <=> \E p \in pending_callbacks' : p[1] = x /\ p[2] = d
    BY Zenon DEF Surface!Own
  <2>2. ASSUME NEW x, NEW d
        PROVE  d \in Surface!Own(x) <=> \E p \in pending_callbacks : p[1] = x /\ p[2] = d
    BY Zenon DEF Surface!Own
  <2>3. ASSUME NEW x, NEW d, d \in Surface!Own(x) \/ (d = c /\ x = s) PROVE d \in Surface!Own(x)'
    <3>1. CASE d \in Surface!Own(x)
      <4>1. PICK p \in pending_callbacks : p[1] = x /\ p[2] = d
        BY <2>2, <3>1, Zenon
      <4> QED
        BY <1>1, <2>1, <4>1, Zenon
    <3>2. CASE d = c /\ x = s
      BY <1>1, <1>a, <2>1, <3>2, Zenon
    <3> QED
      BY <2>3, <3>1, <3>2, Zenon
  <2> QED
    BY <2>3, Zenon
<1> QED
  BY <1>1, <1>2, <1>3, <1>5, <1>6, <1>7 DEF CallbackInv, SurfaceType
(* Entries are removed and their callbacks freed.                          *)
LEMMA CallbacksFreed ==
  ASSUME SurfaceType, CallbackInv, NEW E \in SUBSET pending_callbacks, NEW F,
         F = { p[2] : p \in E },
         pending_callbacks' = pending_callbacks \ E,
         proxy' = proxy \ F, heap' = heap \ F, running' = running
  PROVE  /\ F \subseteq proxy \cap heap
         /\ pending_callbacks' \subseteq Surfaces \X Callbacks
         /\ proxy' \subseteq Callbacks /\ heap' = proxy'
         /\ \A p \in pending_callbacks' : p[1] \in surface /\ p[2] \notin Surface!Running'
         /\ \A p, q \in pending_callbacks' : p[2] = q[2] => p = q
         /\ proxy' = Entered' \cup Surface!Running'
<1>1. Surface!Running' = Surface!Running
  BY Zenon DEF Surface!Running
<1>2. \A d : d \in F <=> \E p \in E : p[2] = d
  BY Zenon
<1>3. \A d : d \in Entered <=> \E p \in pending_callbacks : p[2] = d
  BY Zenon DEF Entered
<1>4. \A d : d \in Entered' <=> \E p \in pending_callbacks \ E : p[2] = d
  BY Zenon DEF Entered
<1>5. F \subseteq Entered /\ F \cap Surface!Running = {}
  BY <1>2, <1>3 DEF CallbackInv
<1>6. ASSUME NEW d PROVE d \in Entered' <=> d \in Entered /\ d \notin F
  BY <1>2, <1>3, <1>4 DEF CallbackInv
<1>7. Entered' = Entered \ F
  BY <1>6, Zenon
<1> QED
  BY <1>1, <1>5, <1>7, Zenon DEF CallbackInv, SurfaceType

(* ~Surface() frees the callbacks of that surface and no other.            *)
LEMMA SurfaceDestroyed ==
  ASSUME SurfaceInv, NEW s \in Surfaces, s \in surface, s \notin kept, Surface!Destroy(s),
         \/ creating' = creating /\ s # creating
         \/ creating' = None /\ s = creating,
         connected' = connected
  PROVE  SurfaceInv'
<1> DEFINE E == { p \in pending_callbacks : p[1] = s }
<1>1. /\ pending_callbacks' = pending_callbacks \ E
      /\ proxy' = proxy \ Surface!Own(s) /\ heap' = heap \ Surface!Own(s) /\ running' = running
      /\ corrupted' = (corrupted \/ ~(Surface!Own(s) \subseteq proxy \cap heap))
      /\ locals' = locals \ Surface!Own(s)
      /\ surface' = surface \ {s} /\ role' = role \ {s} /\ kept' = kept
  BY Zenon DEF Surface!Destroy, Surface!FreeCallbacks, Surface!clientVars
<1>2. Surface!Own(s) = { p[2] : p \in E }
  BY Zenon DEF Surface!Own
<1>3. /\ Surface!Own(s) \subseteq proxy \cap heap
      /\ pending_callbacks' \subseteq Surfaces \X Callbacks
      /\ proxy' \subseteq Callbacks /\ heap' = proxy'
      /\ \A p \in pending_callbacks' : p[1] \in surface /\ p[2] \notin Surface!Running'
      /\ \A p, q \in pending_callbacks' : p[2] = q[2] => p = q
      /\ proxy' = Entered' \cup Surface!Running'
  <2> HIDE DEF E
  <2>1. E \in SUBSET pending_callbacks
    BY Zenon DEF E
  <2> QED
    BY <1>1, <1>2, <2>1, CallbacksFreed, Zenon DEF SurfaceInv
<1>4. corrupted' = FALSE
  BY <1>1, <1>3, Zenon DEF SurfaceInv, CallbackInv
<1>5. \A p \in pending_callbacks' : p[1] \in surface'
  BY <1>1, <1>3, Zenon
<1>6. locals' # {} => creating' # None /\ locals' \subseteq Surface!Own(creating)'
  <2>1. CASE creating' = None /\ s = creating
    BY <1>1, <2>1, Zenon DEF SurfaceInv, CallbackInv
  <2>2. CASE creating' = creating /\ s # creating
    <3>1. Surface!Own(creating)' = Surface!Own(creating)
      BY <1>1, <2>2, Zenon DEF Surface!Own
    <3> QED
      BY <1>1, <2>2, <3>1, Zenon DEF SurfaceInv, CallbackInv
  <2> QED
    BY <2>1, <2>2, Zenon
<1>7. creating' \in surface' \cup {None} /\ (creating' = None \/ creating' \notin kept')
  BY <1>1, SurfacesAssumption, Zenon DEF SurfaceInv, SurfaceType
<1>8. SurfaceType'
  BY <1>1, <1>3, <1>7, Zenon DEF SurfaceInv, SurfaceType
<1>9. CallbackInv'
  BY <1>1, <1>3, <1>4, <1>5, <1>6, Zenon DEF SurfaceInv, CallbackInv
<1>10. EndInv'
  BY Zenon DEF SurfaceInv, EndInv
<1> QED
  BY <1>8, <1>9, <1>10, Zenon DEF SurfaceInv

(* Every step of the surfaces keeps the callbacks owned.                   *)
LEMMA SurfaceNext == SurfaceInv /\ (Surface!Next \/ UNCHANGED surfaceVars) => SurfaceInv'
<1> SUFFICES ASSUME SurfaceInv, Surface!Next \/ UNCHANGED surfaceVars PROVE SurfaceInv'
  BY Zenon
<1> USE DEF Surface!callbackVars, Surface!wireVars, Surface!clientVars
<1>1. ASSUME UNCHANGED <<surface, role, pending_callbacks, proxy, heap, running, creating,
                         connected, kept, locals, corrupted>>
      PROVE  SurfaceInv'
  BY <1>1 DEF SurfaceInv, SurfaceType, CallbackInv, EndInv, Entered, Surface!Running, Surface!Own
<1>2. ASSUME NEW s \in Surfaces, Surface!CreateSurface(s) PROVE SurfaceInv'
  <2>1. connected' = connected /\ surface' = surface \cup {s}
        /\ UNCHANGED <<role, pending_callbacks, proxy, heap, running, creating, kept,
                       locals, corrupted>> /\ connected
    BY <1>2, Zenon DEF Surface!CreateSurface
  <2> QED
    BY <2>1 DEF SurfaceInv, SurfaceType, CallbackInv, EndInv, Entered, Surface!Running, Surface!Own
<1>3. ASSUME NEW s \in Surfaces, Surface!DestroySurface(s) PROVE SurfaceInv'
  BY <1>3, SurfaceDestroyed, Zenon DEF Surface!DestroySurface, Surface!Destroy
<1>4. ASSUME NEW s \in Surfaces, Surface!KeepMainSurface(s) PROVE SurfaceInv'
  <2>1. /\ s \in surface /\ s # creating /\ kept' = kept \cup {s}
        /\ UNCHANGED <<surface, role, pending_callbacks, proxy, heap, running, creating,
                       connected, locals, corrupted>>
    BY <1>4, Zenon DEF Surface!KeepMainSurface, SurfaceInv, SurfaceType
  <2> QED
    BY <2>1 DEF SurfaceInv, SurfaceType, CallbackInv, EndInv, Entered, Surface!Running, Surface!Own
<1>5. ASSUME NEW s \in Surfaces, NEW c \in Callbacks, Surface!add_frame_callback(s, c)
      PROVE  SurfaceInv'
  <2>1. /\ s \in surface /\ Surface!Add(s, c)
        /\ UNCHANGED <<surface, role, running, creating, connected, kept, locals, corrupted>>
    BY <1>5, Zenon DEF Surface!add_frame_callback
  <2>2. locals' # {} => creating' # None /\ \A d \in locals' : d \in Surface!Own(creating')
    BY <2>1, Zenon DEF SurfaceInv, CallbackInv
  <2>3. /\ CallbackInv'
        /\ pending_callbacks' \subseteq Surfaces \X Callbacks /\ proxy' \subseteq Callbacks
        /\ heap' = proxy'
    BY <2>1, <2>2, CallbackAdded, Zenon DEF SurfaceInv
  <2> QED
    BY <2>1, <2>3, Zenon DEF SurfaceInv, SurfaceType, EndInv
<1>6. ASSUME NEW s \in Surfaces, NEW c \in Callbacks, Surface!CreateVisible(s, c)
      PROVE  SurfaceInv'
  <2>1. /\ connected /\ creating = None /\ s \notin surface /\ Surface!Add(s, c)
        /\ surface' = surface \cup {s} /\ role' = role \cup {s} /\ locals' = locals \cup {c}
        /\ creating' = s /\ kept' = kept \cup {"buffer"}
        /\ UNCHANGED <<running, corrupted, connected>>
    BY <1>6, Zenon DEF Surface!CreateVisible
  <2>2. s # None /\ s # "buffer"
    BY SurfacesAssumption, Zenon
  <2>3. locals = {}
    BY <2>1, Zenon DEF SurfaceInv, CallbackInv
  <2>4. /\ CallbackInv'
        /\ pending_callbacks' \subseteq Surfaces \X Callbacks /\ proxy' \subseteq Callbacks
        /\ heap' = proxy'
    BY <2>1, <2>2, <2>3, CallbackAdded, Zenon DEF SurfaceInv
  <2> QED
    BY <2>1, <2>2, <2>4, Zenon DEF SurfaceInv, SurfaceType, EndInv
<1>7. ASSUME NEW c \in Callbacks, Surface!FrameDone(c) PROVE SurfaceInv'
  <2>1. /\ c \in proxy /\ running' = Append(running, c) /\ locals' = locals \ {c}
        /\ corrupted' = (corrupted \/ \A s \in Surfaces : <<s, c>> \notin pending_callbacks)
        /\ pending_callbacks' = { p \in pending_callbacks : p[2] # c }
        /\ UNCHANGED <<surface, role, proxy, heap, creating, connected, kept>>
        /\ c \notin Surface!Running
    BY <1>7, Zenon DEF Surface!FrameDone, Surface!Running
  <2>2. /\ running' \in Seq(Callbacks)
        /\ Surface!Running' = Surface!Running \cup {c}
        /\ \A i, j \in DOMAIN running' : running'[i] = running'[j] => i = j
    BY <2>1, RunningAppend, Zenon DEF SurfaceInv, SurfaceType, CallbackInv
  <2>3. PICK q \in pending_callbacks : q[2] = c
    BY <2>1, Zenon DEF SurfaceInv, CallbackInv, Entered
  <2>4. q[1] \in Surfaces /\ q = <<q[1], c>>
    BY <2>3 DEF SurfaceInv, SurfaceType
  <2>5. corrupted' = FALSE
    <3>1. ~ (\A s \in Surfaces : <<s, c>> \notin pending_callbacks)
      BY <2>3, <2>4, Zenon
    <3>2. corrupted = FALSE
      BY Zenon DEF SurfaceInv, CallbackInv
    <3> QED
      BY <2>1, <3>1, <3>2, Zenon
  <2>6. Entered' = Entered \ {c}
    BY <2>1, Zenon DEF Entered
  <2>7. \A x : Surface!Own(x)' = Surface!Own(x) \ {c}
    BY <2>1, Zenon DEF Surface!Own
  <2>8. locals' # {} => creating' # None /\ locals' \subseteq Surface!Own(creating)'
    BY <2>1, <2>7, Zenon DEF SurfaceInv, CallbackInv
  <2>9. \A p \in pending_callbacks' : p[1] \in surface' /\ p[2] \notin Surface!Running'
    BY <2>1, <2>2, Zenon DEF SurfaceInv, CallbackInv
  <2>10. \A p, q1 \in pending_callbacks' : p[2] = q1[2] => p = q1
    BY <2>1, Zenon DEF SurfaceInv, CallbackInv
  <2>11. proxy' = Entered' \cup Surface!Running'
    BY <2>1, <2>2, <2>6, Zenon DEF SurfaceInv, CallbackInv
  <2>12. CallbackInv'
    BY <2>2, <2>5, <2>8, <2>9, <2>10, <2>11, Zenon DEF CallbackInv
  <2>13. SurfaceType'
    BY <2>1, <2>2, Zenon DEF SurfaceInv, SurfaceType
  <2>14. EndInv'
    BY <2>1, Zenon DEF SurfaceInv, EndInv
  <2> QED
    BY <2>12, <2>13, <2>14, Zenon DEF SurfaceInv
<1>8. CASE Surface!FrameReturn
  <2> DEFINE c == running[Len(running)]
  <2>1. /\ running # <<>> /\ running' = SubSeq(running, 1, Len(running) - 1)
        /\ corrupted' = (corrupted \/ c \notin proxy \cap heap)
        /\ proxy' = proxy \ {c} /\ heap' = heap \ {c}
        /\ UNCHANGED <<surface, role, pending_callbacks, locals, creating, connected, kept>>
    BY <1>8, Zenon DEF Surface!FrameReturn
  <2>2. /\ running' \in Seq(Callbacks) /\ c \in Surface!Running
        /\ Surface!Running' = Surface!Running \ {c}
        /\ \A i, j \in DOMAIN running' : running'[i] = running'[j] => i = j
    BY <2>1, RunningPop, Zenon DEF SurfaceInv, SurfaceType, CallbackInv
  <2> HIDE DEF c
  <2>3. c \in proxy /\ c \in heap
    BY <2>2, Zenon DEF SurfaceInv, CallbackInv, SurfaceType
  <2>4. corrupted' = FALSE
    BY <2>1, <2>3, Zenon DEF SurfaceInv, CallbackInv
  <2>5. Entered' = Entered /\ c \notin Entered
    BY <2>1, <2>2, Zenon DEF Entered, SurfaceInv, CallbackInv
  <2>6. Surface!Own(creating)' = Surface!Own(creating)
    BY <2>1, Zenon DEF Surface!Own
  <2>7. proxy' = Entered' \cup Surface!Running'
    BY <2>1, <2>2, <2>5, Zenon DEF SurfaceInv, CallbackInv
  <2>8. CallbackInv'
    BY <2>1, <2>2, <2>4, <2>6, <2>7 DEF SurfaceInv, CallbackInv
  <2>9. SurfaceType'
    BY <2>1, <2>2, Zenon DEF SurfaceInv, SurfaceType
  <2>10. EndInv'
    BY <2>1, Zenon DEF SurfaceInv, EndInv
  <2> QED
    BY <2>8, <2>9, <2>10, Zenon DEF SurfaceInv
<1>9. CASE Surface!CreateReturns
  <2>1. /\ locals = {} /\ creating' = None
        /\ UNCHANGED <<surface, role, pending_callbacks, proxy, heap, running, connected, kept,
                       locals, corrupted>>
    BY <1>9, Zenon DEF Surface!CreateReturns
  <2> QED
    BY <2>1 DEF SurfaceInv, SurfaceType, CallbackInv, EndInv, Entered, Surface!Running
<1>10. CASE Surface!CreateThrows
  <2>1. creating \in surface /\ creating \in Surfaces /\ creating \notin kept
    BY <1>10, Zenon DEF Surface!CreateThrows, SurfaceInv, SurfaceType
  <2> QED
    BY <1>10, <2>1, SurfaceDestroyed, Zenon DEF Surface!CreateThrows, Surface!Destroy
<1>11. CASE Surface!DestroyClient
  <2> DEFINE E == { p \in pending_callbacks : p[1] \in kept }
             F == { p[2] : p \in E }
  <2>1. /\ surface \subseteq kept /\ creating = None /\ running = <<>>
        /\ corrupted' = (corrupted \/ ~(F \subseteq proxy \cap heap))
        /\ pending_callbacks' = pending_callbacks \ E
        /\ heap' = heap \ F /\ proxy' = proxy \ F
        /\ surface' = surface \ kept /\ role' = role \ kept /\ kept' = {}
        /\ UNCHANGED <<running, locals, creating>>
    BY <1>11, Zenon DEF Surface!DestroyClient
  <2>2. E = pending_callbacks
    BY <2>1, Zenon DEF SurfaceInv, CallbackInv
  <2>3. F = proxy
    <3>1. Surface!Running = {}
      BY <2>1 DEF Surface!Running
    <3>2. F = Entered
      <4> HIDE DEF E
      <4> QED
        BY <2>2, Zenon DEF Entered
    <3> QED
      BY <3>1, <3>2, Zenon DEF SurfaceInv, CallbackInv
  <2> HIDE DEF E, F
  <2>4. corrupted' = FALSE
    BY <2>1, <2>3, Zenon DEF SurfaceInv, CallbackInv, SurfaceType
  <2>5. pending_callbacks' = {} /\ proxy' = {} /\ heap' = {} /\ surface' = {} /\ role' = {}
    BY <2>1, <2>2, <2>3, Zenon DEF SurfaceInv, SurfaceType
  <2>6. locals' = {}
    BY <2>1, Zenon DEF SurfaceInv, CallbackInv
  <2> QED
    BY <2>1, <2>4, <2>5, <2>6
       DEF SurfaceInv, SurfaceType, CallbackInv, EndInv, Entered, Surface!Running
<1>12. CASE Surface!HandleRequest
  BY <1>1, <1>12, Zenon DEF Surface!HandleRequest
<1>13. CASE UNCHANGED surfaceVars
  BY <1>1, <1>13, Zenon DEF surfaceVars
<1> QED
  BY <1>2, <1>3, <1>4, <1>5, <1>6, <1>7, <1>8, <1>9, <1>10, <1>11, <1>12, <1>13, Zenon
     DEF Surface!Next

-----------------------------------------------------------------------------
(* The requests about surfaces.                                            *)

(* What a client sends about its surfaces.                                 *)
Request == ({"create_surface", "create_role", "destroy_role", "destroy_surface"} \X Surfaces)
           \cup {<<"destroy_shells", None>>}

(* With the first n of the requests q handled, s has no role.              *)
Gone(q, roles, s, n) ==
    /\ \A j \in 1 .. n : q[j] = <<"create_role", s>> =>
          \E k \in j + 1 .. n : q[k] = <<"destroy_role", s>>
    /\ s \in roles => \E k \in 1 .. n : q[k] = <<"destroy_role", s>>

(* No surface in q is destroyed with a role, and those left with one are   *)
(* among owners.                                                           *)
InOrder(q, roles, owners) ==
    /\ \A s \in Surfaces, i \in 1 .. Len(q) :
          q[i] = <<"destroy_surface", s>> => Gone(q, roles, s, i - 1)
    /\ \A s \in Surfaces \ owners : Gone(q, roles, s, Len(q))

(* The first n of the requests t leave s without a role, if only the       *)
(* owners had one.                                                         *)
Clears(t, owners, s, n) ==
    /\ \A l \in 1 .. n : t[l] # <<"create_role", s>>
    /\ s \notin owners \/ \E l \in 1 .. n : t[l] = <<"destroy_role", s>>

(* Requests that clear s, sent after some that leave a role only to        *)
(* owners, leave s without one.                                            *)
LEMMA ClearsGone ==
  ASSUME NEW q \in Seq(Request), NEW t \in Seq(Request), NEW roles, NEW owners,
         NEW s \in Surfaces, NEW n \in 0 .. Len(t),
         s \notin owners => Gone(q, roles, s, Len(q)),
         Clears(t, owners, s, n)
  PROVE  Gone(q \o t, roles, s, Len(q) + n)
<1> DEFINE w == q \o t
<1>1. /\ Len(q) \in Nat /\ Len(t) \in Nat /\ w \in Seq(Request)
      /\ \A j \in 1 .. Len(q) : w[j] = q[j]
      /\ \A l \in 1 .. Len(t) : w[Len(q) + l] = t[l]
  OBVIOUS
<1> HIDE DEF w
<1>2. ASSUME NEW j \in 1 .. Len(q) + n, w[j] = <<"create_role", s>> PROVE j \in 1 .. Len(q)
  <2> SUFFICES ASSUME j > Len(q) PROVE FALSE
    BY <1>1
  <2>1. j - Len(q) \in 1 .. n /\ j - Len(q) \in 1 .. Len(t) /\ Len(q) + (j - Len(q)) = j
    BY <1>1
  <2> QED
    BY <1>1, <1>2, <2>1, Zenon DEF Clears
<1>3. CASE \E l \in 1 .. n : t[l] = <<"destroy_role", s>>
  <2>1. PICK l \in 1 .. n : t[l] = <<"destroy_role", s>>
    BY <1>3, Zenon
  <2>2. Len(q) + l \in 1 .. Len(q) + n /\ w[Len(q) + l] = <<"destroy_role", s>>
    BY <1>1, <2>1
  <2>3. \A j \in 1 .. Len(q) : Len(q) + l \in j + 1 .. Len(q) + n
    BY <1>1, <2>1
  <2> QED
    BY <1>2, <2>2, <2>3, Zenon DEF Gone, w
<1>4. CASE s \notin owners
  <2>1. Gone(q, roles, s, Len(q))
    BY <1>4, Zenon
  <2>2. n \in Nat
    BY <1>1
  <2>3. ASSUME NEW j \in 1 .. Len(q) + n, w[j] = <<"create_role", s>>
        PROVE  \E k \in j + 1 .. Len(q) + n : w[k] = <<"destroy_role", s>>
    <3>1. j \in 1 .. Len(q) /\ q[j] = <<"create_role", s>>
      BY <1>1, <1>2, <2>3, Zenon
    <3>2. PICK k \in j + 1 .. Len(q) : q[k] = <<"destroy_role", s>>
      BY <2>1, <3>1, Zenon DEF Gone
    <3>3. k \in j + 1 .. Len(q) + n /\ w[k] = q[k]
      BY <1>1, <2>2, <3>1
    <3> QED
      BY <3>2, <3>3, Zenon
  <2>4. ASSUME s \in roles PROVE \E k \in 1 .. Len(q) + n : w[k] = <<"destroy_role", s>>
    <3>1. PICK k \in 1 .. Len(q) : q[k] = <<"destroy_role", s>>
      BY <2>1, <2>4, Zenon DEF Gone
    <3>2. k \in 1 .. Len(q) + n /\ w[k] = q[k]
      BY <1>1, <2>2
    <3> QED
      BY <3>1, <3>2, Zenon
  <2> QED
    BY <2>3, <2>4, Zenon DEF Gone, w
<1> QED
  BY <1>3, <1>4, Zenon DEF Clears

(* Requests are sent after others.                                         *)
LEMMA InOrderSent ==
  ASSUME NEW q \in Seq(Request), NEW t \in Seq(Request), NEW roles, NEW owners, NEW owners2,
         InOrder(q, roles, owners),
         \A s \in Surfaces, m \in 1 .. Len(t) :
            t[m] = <<"destroy_surface", s>> => Clears(t, owners, s, m - 1),
         \A s \in Surfaces \ owners2 : Clears(t, owners, s, Len(t))
  PROVE  InOrder(q \o t, roles, owners2)
<1> DEFINE w == q \o t
<1>1. /\ Len(q) \in Nat /\ Len(t) \in Nat /\ Len(w) = Len(q) + Len(t)
      /\ \A j \in 1 .. Len(q) : w[j] = q[j]
      /\ \A l \in 1 .. Len(t) : w[Len(q) + l] = t[l]
  OBVIOUS
<1>2. ASSUME NEW s \in Surfaces, NEW i \in 1 .. Len(w), w[i] = <<"destroy_surface", s>>
      PROVE  Gone(w, roles, s, i - 1)
  <2>1. CASE i \in 1 .. Len(q)
    <3>1. Gone(q, roles, s, i - 1)
      BY <1>1, <1>2, <2>1, Zenon DEF InOrder
    <3>2. \A j \in 1 .. i - 1 : w[j] = q[j] /\ \A k \in j + 1 .. i - 1 : w[k] = q[k]
      BY <1>1, <2>1
    <3> HIDE DEF w
    <3> QED
      BY <3>1, <3>2, Zenon DEF Gone
  <2>2. CASE i \notin 1 .. Len(q)
    <3>1. i - Len(q) \in 1 .. Len(t) /\ Len(q) + (i - Len(q)) = i
      BY <1>1, <2>2
    <3>2. t[i - Len(q)] = <<"destroy_surface", s>>
      BY <1>1, <1>2, <3>1, Zenon
    <3>3. Clears(t, owners, s, i - Len(q) - 1) /\ i - Len(q) - 1 \in 0 .. Len(t)
      BY <1>1, <3>1, <3>2
    <3>4. Len(q) + (i - Len(q) - 1) = i - 1
      BY <1>1
    <3>5. s \notin owners => Gone(q, roles, s, Len(q))
      BY Zenon DEF InOrder
    <3> QED
      BY <3>3, <3>4, <3>5, ClearsGone, Zenon
  <2> QED
    BY <2>1, <2>2, Zenon
<1>3. ASSUME NEW s \in Surfaces \ owners2 PROVE Gone(w, roles, s, Len(w))
  <2>1. Clears(t, owners, s, Len(t)) /\ Len(t) \in 0 .. Len(t)
    BY <1>1
  <2>2. s \notin owners => Gone(q, roles, s, Len(q))
    BY Zenon DEF InOrder
  <2>3. Gone(w, roles, s, Len(q) + Len(t))
    BY <2>1, <2>2, ClearsGone, Zenon
  <2> QED
    BY <1>1, <2>3, Zenon
<1> QED
  BY <1>2, <1>3, Zenon DEF InOrder

(* The compositor handles the first request.                               *)
LEMMA InOrderHandled ==
  ASSUME NEW q \in Seq(Request), q # <<>>, NEW roles, NEW owners, InOrder(q, roles, owners),
         NEW roles2,
         roles2 = CASE Head(q)[1] = "create_role" -> roles \cup {Head(q)[2]}
                    [] Head(q)[1] = "destroy_role" -> roles \ {Head(q)[2]}
                    [] OTHER -> roles
  PROVE  /\ InOrder(Tail(q), roles2, owners)
         /\ ~(Head(q)[1] = "destroy_surface" /\ Head(q)[2] \in roles \cap Surfaces)
<1> DEFINE w == Tail(q)
<1>1. /\ Len(q) \in Nat \ {0} /\ w \in Seq(Request) /\ Len(w) = Len(q) - 1
      /\ \A j \in 1 .. Len(w) : w[j] = q[j + 1]
      /\ Head(q) = q[1] /\ q[1] \in Request
  OBVIOUS
<1>2. q[1] = <<q[1][1], q[1][2]>>
  BY <1>1 DEF Request
<1>3. ASSUME NEW s \in Surfaces, NEW n \in 0 .. Len(w), Gone(q, roles, s, n + 1)
      PROVE  Gone(w, roles2, s, n)
  <2> HIDE DEF w
  <2>1. n \in Nat /\ n <= Len(w) /\ Len(w) \in Nat
    BY <1>1
  <2>2. ASSUME NEW j \in 1 .. n, w[j] = <<"create_role", s>>
        PROVE  \E k \in j + 1 .. n : w[k] = <<"destroy_role", s>>
    <3>1. j + 1 \in 1 .. n + 1 /\ q[j + 1] = <<"create_role", s>>
      BY <1>1, <2>1, <2>2
    <3>2. PICK k \in j + 1 + 1 .. n + 1 : q[k] = <<"destroy_role", s>>
      BY <1>3, <3>1, Zenon DEF Gone
    <3>3. k - 1 \in j + 1 .. n /\ k - 1 + 1 = k /\ k - 1 \in 1 .. Len(w)
      BY <2>1
    <3> QED
      BY <1>1, <3>2, <3>3, Zenon
  <2>3. ASSUME s \in roles2 PROVE \E k \in 1 .. n : w[k] = <<"destroy_role", s>>
    <3>1. \E k \in 2 .. n + 1 : q[k] = <<"destroy_role", s>>
      <4>1. CASE q[1] = <<"create_role", s>>
        <5>1. 1 \in 1 .. n + 1 /\ 1 + 1 = 2
          BY <2>1
        <5>2. \E k \in 1 + 1 .. n + 1 : q[k] = <<"destroy_role", s>>
          BY <1>3, <4>1, <5>1, Zenon DEF Gone
        <5> QED
          BY <5>1, <5>2, Zenon
      <4>2. CASE q[1] # <<"create_role", s>>
        <5>1. s \in roles /\ q[1] # <<"destroy_role", s>>
          <6>1. q[1][2] = s => q[1][1] # "create_role"
            BY <1>2, <4>2, Zenon
          <6>2. s \in roles /\ ~(q[1][1] = "destroy_role" /\ q[1][2] = s)
            BY <1>1, <2>3, <6>1, Zenon
          <6> QED
            BY <6>2
        <5>2. PICK k \in 1 .. n + 1 : q[k] = <<"destroy_role", s>>
          BY <1>3, <5>1, Zenon DEF Gone
        <5>3. k \in 2 .. n + 1
          BY <2>1, <5>1, <5>2
        <5> QED
          BY <5>2, <5>3, Zenon
      <4> QED
        BY <4>1, <4>2, Zenon
    <3>2. PICK k \in 2 .. n + 1 : q[k] = <<"destroy_role", s>>
      BY <3>1, Zenon
    <3>3. k - 1 \in 1 .. n /\ k - 1 + 1 = k /\ k - 1 \in 1 .. Len(w)
      BY <2>1
    <3> QED
      BY <1>1, <3>2, <3>3, Zenon
  <2> QED
    BY <2>2, <2>3, Zenon DEF Gone
<1>4. ASSUME NEW s \in Surfaces, NEW i \in 1 .. Len(w), w[i] = <<"destroy_surface", s>>
      PROVE  Gone(w, roles2, s, i - 1)
  <2>1. PICK m \in 1 .. Len(q) : m = i + 1 /\ q[m] = <<"destroy_surface", s>>
    BY <1>1, <1>4
  <2>2. PICK n \in 0 .. Len(w) : n = i - 1
    BY <1>1
  <2>3. m - 1 = n + 1
    BY <2>1, <2>2
  <2>4. Gone(q, roles, s, n + 1)
    <3>1. Gone(q, roles, s, m - 1)
      BY <2>1, Zenon DEF InOrder
    <3> QED
      BY <2>3, <3>1, Zenon
  <2>5. Gone(w, roles2, s, n)
    BY <1>3, <2>4, Zenon
  <2> QED
    BY <2>2, <2>5, Zenon
<1>5. ASSUME NEW s \in Surfaces \ owners PROVE Gone(w, roles2, s, Len(w))
  <2>1. Gone(q, roles, s, Len(q)) /\ Len(w) + 1 = Len(q) /\ Len(w) \in 0 .. Len(w)
    BY <1>1 DEF InOrder
  <2> QED
    BY <1>3, <2>1, Zenon
<1>6. ASSUME Head(q)[1] = "destroy_surface", Head(q)[2] \in roles \cap Surfaces PROVE FALSE
  <2>1. 1 \in 1 .. Len(q) /\ 1 - 1 = 0 /\ 1 .. 0 = {}
    BY <1>1
  <2>2. Gone(q, roles, q[1][2], 0)
    BY <1>1, <1>2, <1>6, <2>1, Zenon DEF InOrder
  <2> QED
    BY <1>1, <1>6, <2>1, <2>2, Zenon DEF Gone
<1> QED
  BY <1>4, <1>5, <1>6, Zenon DEF InOrder

(* The requests on the wire are in order, the shells are destroyed only by *)
(* a client that leaves, and the compositor saw no error of role.          *)
RequestInv ==
    /\ requests \in Seq(Request) /\ kept \cap surface \subseteq role
    /\ InOrder(requests, compositorRole, role)
    /\ \A i \in 1 .. Len(requests) : requests[i][1] = "destroy_shells" => connected = FALSE
    /\ compositorRole \subseteq Surfaces
    /\ protocolError \in {"none", "role", "defunct"}
    /\ protocolError # "role" /\ (protocolError = "defunct" => connected = FALSE)

(* The wire is empty at the start.                                         *)
LEMMA RequestInit == Surface!Init => RequestInv
  BY DEF Surface!Init, RequestInv, InOrder, Gone

(* Requests are sent by a client that is still connected, or leaves.       *)
LEMMA RequestsSent ==
  ASSUME RequestInv, NEW t \in Seq(Request), requests' = requests \o t,
         UNCHANGED <<compositorRole, protocolError>>, kept' \cap surface' \subseteq role',
         connected' = FALSE \/ connected' = connected,
         \A m \in 1 .. Len(t) : t[m][1] = "destroy_shells" => connected' = FALSE,
         \A s \in Surfaces, m \in 1 .. Len(t) :
            t[m] = <<"destroy_surface", s>> => Clears(t, role, s, m - 1),
         \A s \in Surfaces \ role' : Clears(t, role, s, Len(t))
  PROVE  RequestInv'
<1>1. requests \in Seq(Request) /\ InOrder(requests, compositorRole, role)
  BY Zenon DEF RequestInv
<1>2. /\ Len(requests) \in Nat /\ Len(t) \in Nat /\ requests' \in Seq(Request)
      /\ Len(requests') = Len(requests) + Len(t)
      /\ \A j \in 1 .. Len(requests) : requests'[j] = requests[j]
      /\ \A l \in 1 .. Len(t) : requests'[Len(requests) + l] = t[l]
  BY <1>1
<1>3. InOrder(requests', compositorRole, role')
  BY <1>1, InOrderSent, Zenon
<1>4. ASSUME NEW i \in 1 .. Len(requests'), requests'[i][1] = "destroy_shells"
      PROVE  connected' = FALSE
  <2>1. CASE i \in 1 .. Len(requests)
    BY <1>2, <1>4, <2>1, Zenon DEF RequestInv
  <2>2. CASE i \notin 1 .. Len(requests)
    <3>1. PICK p, q \in Nat :
             p = Len(requests) /\ q = Len(t) /\ i \in 1 .. p + q /\ i \notin 1 .. p
      BY <1>2, <2>2, Zenon
    <3>2. i - p \in 1 .. q /\ p + (i - p) = i
      BY <3>1
    <3> QED
      BY <1>2, <1>4, <3>1, <3>2, Zenon
  <2> QED
    BY <2>1, <2>2, Zenon
<1> QED
  BY <1>2, <1>3, <1>4, Zenon DEF RequestInv

(* ~Surface() destroys the role object before the wl_surface.              *)
LEMMA DestroySent ==
  ASSUME SurfaceInv, RequestInv, NEW s \in Surfaces, Surface!Destroy(s)
  PROVE  RequestInv'
<1>1. /\ requests' = requests \o Surface!DestroyRequests(s)
      /\ UNCHANGED <<compositorRole, protocolError, kept, connected>>
      /\ surface' = surface \ {s} /\ role' = role \ {s}
  BY Zenon DEF Surface!Destroy, Surface!Send, Surface!clientVars
<1>2. kept' \cap surface' \subseteq role'
  BY <1>1, Zenon DEF RequestInv
<1>3. CASE s \in role
  <2> DEFINE t == << <<"destroy_role", s>>, <<"destroy_surface", s>> >>
  <2>1. t \in Seq(Request) /\ Len(t) = 2 /\ t[1] = <<"destroy_role", s>>
        /\ t[2] = <<"destroy_surface", s>> /\ Surface!DestroyRequests(s) = t
    BY <1>3 DEF Request, Surface!DestroyRequests
  <2> HIDE DEF t
  <2>2. \A m \in 1 .. Len(t) : m = 1 \/ m = 2
    BY <2>1
  <2>3. \A x \in Surfaces, m \in 1 .. Len(t) :
           t[m] = <<"destroy_surface", x>> => Clears(t, role, x, m - 1)
    BY <2>1, <2>2 DEF Clears
  <2>4. \A x \in Surfaces \ role' : Clears(t, role, x, Len(t))
    BY <1>1, <2>1, <2>2 DEF Clears
  <2>5. \A m \in 1 .. Len(t) : t[m][1] # "destroy_shells"
    BY <2>1, <2>2
  <2> QED
    BY <1>1, <1>2, <2>1, <2>3, <2>4, <2>5, RequestsSent, Zenon
<1>4. CASE s \notin role
  <2> DEFINE t == << <<"destroy_surface", s>> >>
  <2>1. t \in Seq(Request) /\ Len(t) = 1
        /\ t[1] = <<"destroy_surface", s>> /\ Surface!DestroyRequests(s) = t
    BY <1>4 DEF Request, Surface!DestroyRequests
  <2> HIDE DEF t
  <2>2. \A m \in 1 .. Len(t) : m = 1
    BY <2>1
  <2>3. \A x \in Surfaces, m \in 1 .. Len(t) :
           t[m] = <<"destroy_surface", x>> => Clears(t, role, x, m - 1)
    BY <1>4, <2>1, <2>2 DEF Clears
  <2>4. \A x \in Surfaces \ role' : Clears(t, role, x, Len(t))
    BY <1>1, <1>4, <2>1, <2>2 DEF Clears
  <2>5. \A m \in 1 .. Len(t) : t[m][1] # "destroy_shells"
    BY <2>1, <2>2
  <2> QED
    BY <1>1, <1>2, <2>1, <2>3, <2>4, <2>5, RequestsSent, Zenon
<1> QED
  BY <1>3, <1>4, Zenon

(* Even and odd numbers, and their halves.                                 *)
LEMMA Halves ==
  ASSUME NEW k \in Nat
  PROVE  /\ k % 2 \in {0, 1} /\ (k % 2 = 1 <=> (k + 1) % 2 = 0)
         /\ k % 2 = 0 => (k + 1) \div 2 = k \div 2
         /\ (2 * k) % 2 = 0 /\ (2 * k) \div 2 = k
  OBVIOUS

(* A function on an initial segment of the numbers is a sequence.          *)
LEMMA Enumerated ==
  ASSUME NEW S, NEW n \in Nat, NEW u, u = [k \in 1 .. n |-> u[k]],
         \A k \in 1 .. n : u[k] \in S
  PROVE  u \in Seq(S) /\ Len(u) = n
  OBVIOUS

(* An element put before a sequence.                                       *)
LEMMA Prepended ==
  ASSUME NEW S, NEW x \in S, NEW u \in Seq(S), NEW t, t = <<x>> \o u
  PROVE  /\ t \in Seq(S) /\ Len(t) = Len(u) + 1 /\ t[1] = x
         /\ \A k \in 1 .. Len(u) : t[k + 1] = u[k]
  OBVIOUS

(* The requests of ~Client(): the shells, then the surfaces it keeps, each *)
(* after its role.                                                         *)
LEMMA KeptRequests ==
  ASSUME kept \cap surface \subseteq role, kept \cap surface \subseteq Surfaces,
         Surface!DestroyClient
  PROVE  \E t \in Seq(Request) :
            /\ requests' = requests \o t
            /\ \A l \in 1 .. Len(t) : t[l][1] # "create_role"
            /\ \A s \in Surfaces, m \in 1 .. Len(t) :
                  t[m] = <<"destroy_surface", s>> =>
                     \E l \in 1 .. m - 1 : t[l] = <<"destroy_role", s>>
            /\ \A s \in kept \cap surface : \E l \in 1 .. Len(t) : t[l] = <<"destroy_role", s>>
<1>a. PICK K : K = kept \cap surface
  BY Zenon
<1>b. PICK order \in Surface!Orders(K) :
         requests' = requests \o (<< <<"destroy_shells", None>> >>
               \o [ k \in 1 .. 2 * Len(order) |->
                      Surface!DestroyRequests(order[(k + 1) \div 2])[2 - (k % 2)] ])
  BY <1>a, Zenon DEF Surface!DestroyClient, Surface!Send
<1>u. PICK u : u = [ k \in 1 .. 2 * Len(order) |->
                       Surface!DestroyRequests(order[(k + 1) \div 2])[2 - (k % 2)] ]
  BY Zenon
<1>t. PICK t : t = << <<"destroy_shells", None>> >> \o u
  BY Zenon
<1>r. requests' = requests \o t
  BY <1>b, <1>u, <1>t, Zenon
<1>c. K \subseteq role /\ K \subseteq Surfaces
  BY <1>a, Zenon
<1>1. PICK n \in 0 .. MaxRequests : order \in [1 .. n -> K]
  BY DEF Surface!Orders
<1>2. n \in Nat /\ Len(order) = n /\ \A x \in K : \E k \in 1 .. n : order[k] = x
  BY <1>1 DEF Surface!Orders
<1> PICK N \in Nat : N = 2 * n
  BY <1>2
<1> DEFINE of(k) == order[(k + 1) \div 2]
<1>3. ASSUME NEW k \in 1 .. N
      PROVE  of(k) \in K /\ k % 2 \in {0, 1}
  <2>1. (k + 1) \div 2 \in 1 .. n /\ k % 2 \in {0, 1}
    BY <1>2
  <2> QED
    BY <1>1, <2>1, Zenon
<1>4. DOMAIN u = 1 .. N
      /\ \A k \in 1 .. N : u[k] = Surface!DestroyRequests(of(k))[2 - (k % 2)]
  BY <1>u, <1>2, Zenon
<1> HIDE DEF of
<1>5. ASSUME NEW k \in 1 .. N
      PROVE  u[k] = <<IF k % 2 = 1 THEN "destroy_role" ELSE "destroy_surface", of(k)>>
  <2>2. Surface!DestroyRequests(of(k))
           = << <<"destroy_role", of(k)>>, <<"destroy_surface", of(k)>> >>
    BY <1>3, <1>c, Zenon DEF Surface!DestroyRequests
  <2>3. /\ Surface!DestroyRequests(of(k))[1] = <<"destroy_role", of(k)>>
        /\ Surface!DestroyRequests(of(k))[2] = <<"destroy_surface", of(k)>>
    BY <2>2
  <2>4. 2 - (k % 2) = IF k % 2 = 1 THEN 1 ELSE 2
    BY <1>3
  <2> QED
    BY <1>3, <1>4, <2>3, <2>4, Zenon
<1>6. u = [k \in 1 .. N |-> u[k]]
  BY <1>u, <1>4, Zenon
<1>7. ASSUME NEW k \in 1 .. N PROVE u[k] \in Request
  <2>1. of(k) \in Surfaces
    BY <1>3, <1>c, Zenon
  <2>2. PICK r \in {"destroy_role", "destroy_surface"} : u[k] = <<r, of(k)>>
    BY <1>5, Zenon
  <2> QED
    BY <2>1, <2>2 DEF Request
<1>9. u \in Seq(Request) /\ Len(u) = N
  BY <1>6, <1>7, Enumerated
<1> HIDE DEF Request
<1>8. <<"destroy_shells", None>> \in Request
  BY Zenon DEF Request
<1> PICK x \in Request : x = <<"destroy_shells", None>>
  BY <1>8, Zenon
<1>20. t = <<x>> \o u
  BY <1>t, Zenon
<1>10. /\ t \in Seq(Request) /\ Len(t) = N + 1 /\ t[1] = x
       /\ \A k \in 1 .. N : t[k + 1] = u[k]
  BY <1>9, <1>20, Prepended
<1>11. ASSUME NEW m \in 2 .. N + 1
       PROVE  t[m] = <<IF m % 2 = 0 THEN "destroy_role" ELSE "destroy_surface", order[m \div 2]>>
  <2>1. PICK k \in 1 .. N : k = m - 1
    OBVIOUS
  <2>2. (k % 2 = 1 <=> m % 2 = 0) /\ k + 1 = m
    BY <2>1, Halves
  <2>4. of(k) = order[m \div 2]
    BY <2>2, Zenon DEF of
  <2> QED
    BY <1>5, <1>10, <2>2, <2>4, Zenon
<1>12. \A m \in 2 .. N + 1 :
          t[m] = <<IF m % 2 = 0 THEN "destroy_role" ELSE "destroy_surface", order[m \div 2]>>
  BY <1>11, Zenon
<1>21. ASSUME NEW l \in 1 .. Len(t)
      PROVE  l = 1 \/ l \in 2 .. N + 1
  BY <1>2, <1>10, <1>12
<1>22. ASSUME NEW l \in 1 .. Len(t) PROVE t[l][1] # "create_role"
  <2>1. CASE l = 1
    BY <1>2, <1>10, <1>12, <2>1
  <2>2. CASE l \in 2 .. N + 1
    <3>1. PICK r \in {"destroy_role", "destroy_surface"} : t[l] = <<r, order[l \div 2]>>
      BY <1>12, <2>2, Zenon
    <3> QED
      BY <3>1
  <2> QED
    BY <1>2, <1>10, <1>12, <1>21, <2>1, <2>2, Zenon
<1>23. ASSUME NEW s \in Surfaces, NEW m \in 1 .. Len(t), t[m] = <<"destroy_surface", s>>
      PROVE  \E l \in 1 .. m - 1 : t[l] = <<"destroy_role", s>>
  <2>1. m \in 2 .. N + 1
    BY <1>2, <1>10, <1>12, <1>21, <1>23
  <2>2. m % 2 # 0 /\ order[m \div 2] = s
    BY <1>2, <1>10, <1>12, <1>23, <2>1
  <2>3. m >= 3 /\ m \in Int
    BY <1>2, <1>10, <1>12, <2>1, <2>2
  <2>4. m - 1 \in 2 .. N + 1
    BY <1>2, <1>10, <1>12, <2>1, <2>3
  <2> PICK l \in 2 .. N + 1 : l = m - 1
    BY <1>2, <1>10, <1>12, <2>4, Zenon
  <2>5. l \in Nat /\ l + 1 = m
    BY <1>2, <1>10, <1>12, <2>3
  <2>6. l % 2 = 0 /\ l \div 2 = m \div 2 /\ l \in 1 .. m - 1
    BY <1>2, <1>10, <1>12, <2>2, <2>5, Halves
  <2> QED
    BY <1>2, <1>10, <1>12, <2>2, <2>6, Zenon
<1>24. ASSUME NEW s \in K PROVE \E l \in 1 .. Len(t) : t[l] = <<"destroy_role", s>>
  <2>1. PICK i \in 1 .. n : order[i] = s
    BY <1>2, <1>10, <1>12, Zenon
  <2>2. PICK l \in 2 .. N + 1 : l = 2 * i
    BY <1>2, <1>10, <1>12
  <2>3. l % 2 = 0 /\ l \div 2 = i /\ l \in 1 .. Len(t)
    BY <1>2, <1>10, <1>12, <2>2
  <2> QED
    BY <1>2, <1>10, <1>12, <2>1, <2>3, Zenon
<1> QED
  BY <1>10, <1>22, <1>23, <1>24, <1>a, <1>r, Zenon

(* Every step of the surfaces keeps the requests in order.                 *)
LEMMA RequestNext ==
  SurfaceInv /\ RequestInv /\ (Surface!Next \/ UNCHANGED surfaceVars) => RequestInv'
<1> SUFFICES ASSUME SurfaceInv, RequestInv, Surface!Next \/ UNCHANGED surfaceVars
             PROVE  RequestInv'
  BY Zenon
<1> USE DEF Surface!callbackVars, Surface!wireVars, Surface!clientVars
<1>1. ASSUME UNCHANGED <<surface, role, connected, kept, requests, compositorRole, protocolError>>
      PROVE  RequestInv'
  BY <1>1, Zenon DEF RequestInv
<1>2. ASSUME NEW s \in Surfaces, Surface!CreateSurface(s) PROVE RequestInv'
  <2> DEFINE t == << <<"create_surface", s>> >>
  <2>1. t \in Seq(Request) /\ Len(t) = 1 /\ t[1] = <<"create_surface", s>>
    BY DEF Request
  <2>2. /\ requests' = requests \o t
        /\ UNCHANGED <<role, kept, connected, compositorRole, protocolError>>
        /\ surface' = surface \cup {s} /\ s \notin surface
    BY <1>2, Zenon DEF Surface!CreateSurface, Surface!Send
  <2>3. kept' \cap surface' \subseteq role'
    BY <2>2, SurfacesAssumption, Zenon DEF RequestInv, SurfaceInv, SurfaceType
  <2> HIDE DEF t
  <2>4. \A m \in 1 .. Len(t) : t[m] = <<"create_surface", s>>
    BY <2>1
  <2>5. \A x \in Surfaces \ role' : Clears(t, role, x, Len(t))
    BY <2>2, <2>4 DEF Clears
  <2>6. \A x \in Surfaces, m \in 1 .. Len(t) : t[m] # <<"destroy_surface", x>>
    BY <2>4
  <2>7. \A m \in 1 .. Len(t) : t[m][1] # "destroy_shells"
    BY <2>4
  <2> QED
    BY <2>1, <2>2, <2>3, <2>5, <2>6, <2>7, RequestsSent, Zenon
<1>3. ASSUME NEW s \in Surfaces, Surface!DestroySurface(s) PROVE RequestInv'
  BY <1>3, DestroySent, Zenon DEF Surface!DestroySurface
<1>4. ASSUME NEW s \in Surfaces, Surface!KeepMainSurface(s) PROVE RequestInv'
  BY <1>4, Zenon DEF Surface!KeepMainSurface, RequestInv
<1>5. ASSUME NEW s \in Surfaces, NEW c \in Callbacks, Surface!CreateVisible(s, c)
      PROVE  RequestInv'
  <2> DEFINE t == << <<"create_surface", s>>, <<"create_role", s>> >>
  <2>1. t \in Seq(Request) /\ Len(t) = 2 /\ t[1] = <<"create_surface", s>>
        /\ t[2] = <<"create_role", s>>
    BY DEF Request
  <2>2. requests' = requests \o t /\ UNCHANGED <<connected, compositorRole, protocolError>>
        /\ surface' = surface \cup {s} /\ s \notin surface /\ role' = role \cup {s}
        /\ kept' = kept \cup {"buffer"}
    BY <1>5, Zenon DEF Surface!CreateVisible, Surface!Send
  <2>3. kept' \cap surface' \subseteq role'
    BY <2>2, SurfacesAssumption, Zenon DEF RequestInv, SurfaceInv, SurfaceType
  <2> HIDE DEF t
  <2>4. \A m \in 1 .. Len(t) : m = 1 \/ m = 2
    BY <2>1
  <2>5. /\ \A m \in 1 .. Len(t) : t[m][1] \notin {"destroy_shells", "destroy_surface"}
        /\ \A x \in Surfaces \ role' : Clears(t, role, x, Len(t))
    BY <2>1, <2>2, <2>4 DEF Clears
  <2>6. \A x \in Surfaces, m \in 1 .. Len(t) : t[m] # <<"destroy_surface", x>>
    BY <2>5
  <2> QED
    BY <2>1, <2>2, <2>3, <2>5, <2>6, RequestsSent, Zenon
<1>6. CASE Surface!CreateThrows
  <2>1. creating \in Surfaces
    BY <1>6, Zenon DEF Surface!CreateThrows, SurfaceInv, SurfaceType
  <2> QED
    BY <1>6, <2>1, DestroySent, Zenon DEF Surface!CreateThrows
<1>7. CASE Surface!DestroyClient
  <2>2. /\ surface \subseteq kept /\ role' = role \ kept /\ kept' = {} /\ connected' = FALSE
        /\ UNCHANGED <<compositorRole, protocolError>>
    BY <1>7, Zenon DEF Surface!DestroyClient
  <2>3. kept \cap surface \subseteq role /\ kept \cap surface \subseteq Surfaces
        /\ role \subseteq kept \cap surface
    BY <2>2, Zenon DEF RequestInv, SurfaceInv, SurfaceType
  <2>5. PICK t \in Seq(Request) :
           /\ requests' = requests \o t
           /\ \A l \in 1 .. Len(t) : t[l][1] # "create_role"
           /\ \A s \in Surfaces, m \in 1 .. Len(t) :
                  t[m] = <<"destroy_surface", s>> =>
                     \E l \in 1 .. m - 1 : t[l] = <<"destroy_role", s>>
           /\ \A s \in kept \cap surface : \E l \in 1 .. Len(t) : t[l] = <<"destroy_role", s>>
    BY <1>7, <2>3, KeptRequests, Zenon
  <2>4. \A l \in 1 .. Len(t) : t[l][1] # "create_role"
    BY <2>5, Zenon
  <2>6. ASSUME NEW s \in Surfaces, NEW l \in 1 .. Len(t) PROVE t[l] # <<"create_role", s>>
    <3>1. <<"create_role", s>>[1] = "create_role" /\ t[l][1] # "create_role"
      BY <2>4, Zenon
    <3> QED
      BY <3>1, Zenon
  <2>7. ASSUME NEW s \in Surfaces, NEW m \in 1 .. Len(t), t[m] = <<"destroy_surface", s>>
        PROVE  Clears(t, role, s, m - 1)
    <3>1. \A l \in 1 .. m - 1 : l \in 1 .. Len(t)
      BY <2>5
    <3> QED
      BY <2>5, <2>6, <2>7, <3>1, Zenon DEF Clears
  <2>8. \A s \in Surfaces \ role' : Clears(t, role, s, Len(t))
    BY <2>2, <2>3, <2>5, <2>6, Zenon DEF Clears
  <2>9. \A m \in 1 .. Len(t) : t[m][1] = "destroy_shells" => connected' = FALSE
    BY <2>2, Zenon
  <2> QED
    BY <2>2, <2>5, <2>7, <2>8, <2>9, RequestsSent, Zenon
<1>8. CASE Surface!HandleRequest
  <2> DEFINE r == Head(requests)
  <2>1. /\ requests # <<>> /\ requests' = Tail(requests)
        /\ compositorRole' = CASE r[1] = "create_role" -> compositorRole \cup {r[2]}
                               [] r[1] = "destroy_role" -> compositorRole \ {r[2]}
                               [] OTHER -> compositorRole
        /\ UNCHANGED <<surface, role, connected, kept>>
    BY <1>8, Zenon DEF Surface!HandleRequest
  <2>2. protocolError' =
           IF protocolError # "none" THEN protocolError
           ELSE CASE r[1] = "destroy_surface" /\ r[2] \in compositorRole -> "role"
                  [] r[1] = "destroy_shells" /\ compositorRole # {} -> "defunct"
                  [] OTHER -> "none"
    BY <1>8, Zenon DEF Surface!HandleRequest
  <2>3. requests \in Seq(Request) /\ InOrder(requests, compositorRole, role)
    BY Zenon DEF RequestInv
  <2>4. /\ InOrder(requests', compositorRole', role')
        /\ ~(r[1] = "destroy_surface" /\ r[2] \in compositorRole \cap Surfaces)
    BY <2>1, <2>3, InOrderHandled, Zenon
  <2>5. /\ Len(requests) \in Nat \ {0} /\ requests' \in Seq(Request)
        /\ Len(requests') = Len(requests) - 1
        /\ \A j \in 1 .. Len(requests') : requests'[j] = requests[j + 1]
        /\ r = requests[1] /\ r \in Request
    BY <2>1, <2>3
  <2>6. r[1] = "destroy_shells" => connected = FALSE
    BY <2>5 DEF RequestInv
  <2>7. \A i \in 1 .. Len(requests') : requests'[i][1] = "destroy_shells" => connected' = FALSE
    BY <2>1, <2>5 DEF RequestInv
  <2>8. /\ r[1] \in {"create_role", "destroy_role", "destroy_surface"} => r[2] \in Surfaces
        /\ compositorRole \subseteq Surfaces
    BY <2>5 DEF RequestInv, Request
  <2> HIDE DEF r
  <2>9. compositorRole' \subseteq Surfaces
    BY <2>1, <2>8, Zenon
  <2>10. protocolError' # "role" /\ (protocolError' = "defunct" => connected' = FALSE)
         /\ protocolError' \in {"none", "role", "defunct"}
    BY <2>1, <2>2, <2>4, <2>6, <2>8, Zenon DEF RequestInv
  <2> QED
    BY <2>1, <2>4, <2>5, <2>7, <2>9, <2>10, Zenon DEF RequestInv
<1> QED
  BY <1>1, <1>2, <1>3, <1>4, <1>5, <1>6, <1>7, <1>8, Zenon
     DEF Surface!Next, surfaceVars, Surface!add_frame_callback, Surface!FrameDone,
         Surface!FrameReturn, Surface!CreateReturns

(* Every frame callback is owned by the surface that has an entry for it   *)
(* or by its running handler, until it is freed, once: CallbacksOwned for  *)
(* all surfaces and callbacks.                                             *)
THEOREM CallbacksCorrect == SurfacesSpec => []CallbacksOwned
<1>1. SurfacesInit => SurfaceInv
  BY SurfaceInit, Zenon DEF SurfacesInit
<1>2. SurfaceInv /\ [SurfacesNext]_surfacesVars => SurfaceInv'
  <2>1. [SurfacesNext]_surfacesVars => Surface!Next \/ UNCHANGED surfaceVars
    BY Zenon DEF SurfacesNext, surfacesVars
  <2> QED
    BY <2>1, SurfaceNext, Zenon
<1>3. SurfaceInv => CallbacksOwned
  BY Zenon DEF SurfaceInv, SurfaceType, CallbackInv, Entered, CallbacksOwned, Surface!CallbacksOwned
<1> QED
  BY <1>1, <1>2, <1>3, PTL DEF SurfacesSpec

(* No wl_surface is destroyed before its role object, whichever way a      *)
(* surface ends, and the client's own end is the only time the shells go   *)
(* first: EndsInOrder for all surfaces.                                    *)
THEOREM EndsCorrect == SurfacesSpec => []EndsInOrder
<1>1. SurfacesInit => SurfaceInv /\ RequestInv
  BY SurfaceInit, RequestInit, Zenon DEF SurfacesInit
<1>2. SurfaceInv /\ RequestInv /\ [SurfacesNext]_surfacesVars => SurfaceInv' /\ RequestInv'
  <2>1. [SurfacesNext]_surfacesVars => Surface!Next \/ UNCHANGED surfaceVars
    BY Zenon DEF SurfacesNext, surfacesVars
  <2> QED
    BY <2>1, SurfaceNext, RequestNext, Zenon
<1>3. SurfaceInv /\ RequestInv => EndsInOrder
  BY DEF SurfaceInv, RequestInv, EndInv, EndsInOrder, Surface!RoleGoesFirst,
     Surface!NothingOutlivesClient, SurfaceType
<1> QED
  BY <1>1, <1>2, <1>3, PTL DEF SurfacesSpec

=============================================================================
