----------------------- MODULE MirIntegrationProofs ------------------------
(***************************************************************************)
(* The invariants of the example integration, for any number of threads,   *)
(* work items, clients, windows, events and devices.  Its parts share only *)
(* the count of timeouts, so each has an inductive invariant of its own.   *)
(***************************************************************************)
EXTENDS MirIntegration, TLAPS

-----------------------------------------------------------------------------
(* The executor: the three properties are inductive together.              *)

IInv == TypeOK /\ NoLostWakeup /\ RunsInOrder

(* Appending to a queue and moving its head behind what was taken before.  *)
LEMMA AppendConcat ==
    ASSUME NEW S, NEW a \in Seq(S), NEW b \in Seq(S), NEW e \in S
    PROVE  a \o Append(b, e) = Append(a \o b, e)
  OBVIOUS

(* Taking the head of the queue keeps the two together unchanged.          *)
LEMMA MoveHead ==
    ASSUME NEW S, NEW a \in Seq(S), NEW b \in Seq(S), b # <<>>
    PROVE  Append(a, Head(b)) \o Tail(b) = a \o b
<1>1. Append(a, Head(b)) \in Seq(S) /\ Tail(b) \in Seq(S) /\ Len(Tail(b)) = Len(b) - 1
  OBVIOUS
<1>2. Len(Append(a, Head(b)) \o Tail(b)) = Len(a \o b)
  BY <1>1
<1>3. ASSUME NEW i \in 1 .. Len(a \o b)
      PROVE  (Append(a, Head(b)) \o Tail(b))[i] = (a \o b)[i]
  BY <1>1, <1>3
<1> QED
  BY <1>1, <1>2, <1>3

(* The initial state satisfies the three.                                  *)
LEMMA InitIInv == Init => IInv
<1> SUFFICES ASSUME Init PROVE IInv
  BY Zenon
<1>1. TypeOK
  BY MaxWorkAssumption DEF Init, TypeOK
<1>2. NoLostWakeup /\ RunsInOrder
  BY DEF Init, NoLostWakeup, RunsInOrder
<1> QED
  BY <1>1, <1>2, Zenon DEF IInv

(* A push keeps the order, whoever makes it.                               *)
LEMMA PushKeeps ==
    ASSUME IInv, Push, UNCHANGED ran
    PROVE  workqueue' \in Seq(1 .. MaxWork) /\ spawned' \in 0 .. MaxWork /\ RunsInOrder'
<1> USE MaxWorkAssumption
<1>1. spawned + 1 \in 1 .. MaxWork
  BY DEF IInv, TypeOK, Push
<1>2. workqueue' \in Seq(1 .. MaxWork) /\ spawned' \in 0 .. MaxWork
  BY <1>1 DEF IInv, TypeOK, Push
<1>3. ran \o workqueue' = Append([n \in 1 .. spawned |-> n], spawned + 1)
  <2>1. ran \in Seq(1 .. MaxWork) /\ workqueue \in Seq(1 .. MaxWork)
    BY Zenon DEF IInv, TypeOK
  <2>2. ran \o Append(workqueue, spawned + 1) = Append(ran \o workqueue, spawned + 1)
    BY <1>1, <2>1, AppendConcat
  <2> QED
    BY <2>2, Zenon DEF IInv, RunsInOrder, Push
<1>4. Append([n \in 1 .. spawned |-> n], spawned + 1) = [n \in 1 .. spawned + 1 |-> n]
  BY DEF IInv, TypeOK
<1> QED
  BY <1>2, <1>3, <1>4, Zenon DEF RunsInOrder, Push

(* Every step keeps the three.                                             *)
LEMMA NextIInv == IInv /\ [Next]_vars => IInv'
<1> SUFFICES ASSUME IInv, [Next]_vars PROVE IInv'
  BY Zenon
<1> USE MaxWorkAssumption
<1>1. ASSUME NEW s \in Spawners, Spawn(s) PROVE IInv'
  <2>1. workqueue' \in Seq(1 .. MaxWork) /\ spawned' \in 0 .. MaxWork /\ RunsInOrder'
    BY <1>1, PushKeeps, Zenon DEF Spawn
  <2>2. TypeOK' /\ spawner'[s] = "pushed"
    BY <1>1, <2>1, Zenon DEF IInv, TypeOK, Spawn
  <2> QED
    BY <2>1, <2>2, Zenon DEF IInv, NoLostWakeup
<1>2. ASSUME NEW s \in Spawners, Notify(s) PROVE IInv'
  <2>1. TypeOK' /\ eventfd' > 0
    BY <1>2 DEF IInv, TypeOK, Notify
  <2>2. RunsInOrder'
    BY <1>2, Zenon DEF IInv, RunsInOrder, Notify
  <2> QED
    BY <2>1, <2>2, Zenon DEF IInv, NoLostWakeup
<1>3. CASE NotifyRead
  <2>1. TypeOK' /\ loop' # "poll"
    BY <1>3 DEF IInv, TypeOK, NotifyRead
  <2> QED
    BY <1>3, <2>1, Zenon DEF IInv, NoLostWakeup, RunsInOrder, NotifyRead
<1>4. CASE NotifyLock
  BY <1>4, Zenon DEF IInv, TypeOK, NoLostWakeup, RunsInOrder, NotifyLock
<1>5. CASE GetWork
  <2>1. TypeOK' /\ loop' # "poll"
    BY <1>5 DEF IInv, TypeOK, GetWork
  <2>2. RunsInOrder'
    <3>1. ran' \o workqueue' = ran \o workqueue
      BY <1>5, MoveHead, Zenon DEF IInv, TypeOK, GetWork
    <3> QED
      BY <1>5, <3>1, Zenon DEF IInv, RunsInOrder, GetWork
  <2> QED
    BY <2>1, <2>2, Zenon DEF IInv, NoLostWakeup
<1>6. CASE WorkSpawns
  <2>1. workqueue' \in Seq(1 .. MaxWork) /\ spawned' \in 0 .. MaxWork /\ RunsInOrder'
    BY <1>6, PushKeeps, Zenon DEF WorkSpawns
  <2>2. TypeOK' /\ loop' # "poll"
    BY <1>6, <2>1, Zenon DEF IInv, TypeOK, WorkSpawns
  <2> QED
    BY <2>1, <2>2, Zenon DEF IInv, NoLostWakeup
<1>7. CASE WorkNotifies
  BY <1>7 DEF IInv, TypeOK, NoLostWakeup, RunsInOrder, WorkNotifies
<1>8. CASE WorkReturns
  BY <1>8, Zenon DEF IInv, TypeOK, NoLostWakeup, RunsInOrder, WorkReturns
<1>9. CASE NotifyReturn
  BY <1>9, Zenon DEF IInv, TypeOK, NoLostWakeup, RunsInOrder, NotifyReturn
<1>10. CASE DisplayDestruction
  BY <1>10, Zenon DEF IInv, TypeOK, NoLostWakeup, RunsInOrder, DisplayDestruction
<1>11. CASE WorkCalls
  BY <1>11, Zenon DEF IInv, TypeOK, NoLostWakeup, RunsInOrder, WorkCalls
<1>12. CASE UNCHANGED vars
  BY <1>12, Zenon DEF vars, IInv, TypeOK, NoLostWakeup, RunsInOrder
<1> QED
  BY <1>1, <1>2, <1>3, <1>4, <1>5, <1>6, <1>7, <1>8, <1>9, <1>10, <1>11, <1>12, Zenon
     DEF Next, Drain

(* The executor's state keeps its types, and its mutex is held exactly     *)
(* while on_notify() drains the queue.                                     *)
THEOREM TypeCorrect == Spec => []TypeOK
  <1>1. IInv => TypeOK
    BY Zenon DEF IInv
  <1> QED
    BY <1>1, InitIInv, NextIInv, PTL DEF Spec

(* The event loop never sleeps on work nobody will wake it for.            *)
THEOREM WakeupCorrect == Spec => []NoLostWakeup
  <1>1. IInv => NoLostWakeup
    BY Zenon DEF IInv
  <1> QED
    BY <1>1, InitIInv, NextIInv, PTL DEF Spec

(* on_notify() runs each item once, in the order spawn() queued them.      *)
THEOREM OrderCorrect == Spec => []RunsInOrder
  <1>1. IInv => RunsInOrder
    BY Zenon DEF IInv
  <1> QED
    BY <1>1, InitIInv, NextIInv, PTL DEF Spec

-----------------------------------------------------------------------------
(* Input devices.                                                          *)

(* A wait that times out is counted, and only one part moves.              *)
LEMMA PartStep ==
  ASSUME timeouts \in Nat, [MirNext]_mirVars
  PROVE  /\ timeouts' \in Nat /\ (timeouts' = 0 => timeouts = 0)
         /\ Resource!Next \/ UNCHANGED resourceVars
         /\ Input!Next \/ UNCHANGED inputVars
         /\ Device!Next \/ UNCHANGED deviceVars
<1>1. ASSUME Resource!Next PROVE timeouts' = timeouts \/ timeouts' = timeouts + 1
  BY <1>1, Zenon DEF Resource!Next, Resource!start_server, Resource!init, Resource!started,
       Resource!OpenSocket, Resource!CloseSocket, Resource!client_created,
       Resource!associate_client_socket, Resource!WaitTimesOut, Resource!resource_created,
       Resource!surface_created, Resource!buffer_stream_destroyed,
       Resource!buffer_stream_created, Resource!window_resource_created, Resource!NewWindow,
       Resource!position_window_absolute, Resource!socketVars
<1>2. ASSUME Input!Next PROVE timeouts' = timeouts \/ timeouts' = timeouts + 1
  BY <1>2, Zenon DEF Input!Next, Input!pointer_move_relative, Input!pointer_move_absolute,
       Input!touch_down, Input!touch_move, Input!pointer_button, Input!touch_up,
       Input!emit_mir_event, Input!WaitRaised, Input!WaitTimesOut, Input!Tick,
       Input!HandlePointer, Input!HandleOther, Input!seat_set_cursor_position,
       Input!seat_dispatch_event
<1>3. ASSUME Device!Next PROVE timeouts' = timeouts \/ timeouts' = timeouts + 1
  BY <1>3, Zenon DEF Device!Next, Device!AddObserver, Device!Destroy, Device!AddDevice,
       Device!DeviceAdded, Device!WaitTimesOut, Device!HubObserves, Device!HubChanges
<1>4. timeouts' = timeouts \/ timeouts' = timeouts + 1
  BY <1>1, <1>2, <1>3, Zenon DEF MirNext, mirVars
<1>5. Resource!Next \/ UNCHANGED resourceVars
  BY Zenon DEF MirNext, mirVars
<1>6. Input!Next \/ UNCHANGED inputVars
  BY Zenon DEF MirNext, mirVars
<1>7. Device!Next \/ UNCHANGED deviceVars
  BY Zenon DEF MirNext, mirVars
<1> QED
  BY <1>4, <1>5, <1>6, <1>7

-----------------------------------------------------------------------------
(* The entries of a queue, and how appending and taking change them.       *)
Entries(q) == { q[n] : n \in DOMAIN q }

(* An appended entry is the one that is new.                               *)
LEMMA EntriesAppend ==
  ASSUME NEW E, NEW q \in Seq(E), NEW w \in E
  PROVE  Append(q, w) \in Seq(E) /\ Entries(Append(q, w)) = Entries(q) \cup {w}
<1>1. /\ Append(q, w) \in Seq(E) /\ Len(q) \in Nat /\ DOMAIN q = 1 .. Len(q)
      /\ DOMAIN Append(q, w) = 1 .. Len(q) + 1 /\ Append(q, w)[Len(q) + 1] = w
      /\ \A n \in 1 .. Len(q) : Append(q, w)[n] = q[n]
  OBVIOUS
<1>2. /\ Len(q) + 1 \in 1 .. Len(q) + 1
      /\ \A n \in 1 .. Len(q) + 1 : n \in 1 .. Len(q) \/ n = Len(q) + 1
      /\ \A n \in 1 .. Len(q) : n \in 1 .. Len(q) + 1
  BY <1>1
<1> QED
  BY <1>1, <1>2, Zenon DEF Entries

(* The first entry is one of them, and the others are left.                *)
LEMMA EntriesTail ==
  ASSUME NEW E, NEW q \in Seq(E), q # <<>>
  PROVE  /\ Tail(q) \in Seq(E) /\ Head(q) \in E
         /\ Head(q) \in Entries(q) /\ Entries(Tail(q)) \subseteq Entries(q)
<1>1. /\ Tail(q) \in Seq(E) /\ Head(q) \in E /\ Len(q) \in Nat /\ 1 \in 1 .. Len(q)
      /\ Head(q) = q[1] /\ DOMAIN q = 1 .. Len(q) /\ DOMAIN Tail(q) = 1 .. Len(q) - 1
      /\ \A n \in 1 .. Len(q) - 1 : Tail(q)[n] = q[n + 1] /\ n + 1 \in 1 .. Len(q)
  OBVIOUS
<1>2. Head(q) \in Entries(q)
  BY <1>1, Zenon DEF Entries
<1>3. ASSUME NEW w \in Entries(Tail(q)) PROVE w \in Entries(q)
  <2>1. PICK n \in 1 .. Len(q) - 1 : w = Tail(q)[n]
    BY <1>1, <1>3, Zenon DEF Entries
  <2>2. w = q[n + 1] /\ n + 1 \in DOMAIN q
    BY <1>1, <2>1, Zenon
  <2> QED
    BY <2>2, Zenon DEF Entries
<1> QED
  BY <1>1, <1>2, <1>3, Zenon

(* The devices that have an observer, or had one.                          *)
Made == created \cup { d \in Devices : step # "idle" /\ creating = d }

DeviceTasks == {"add", "remove"} \X Devices
ObserverTasks == {"observe", "forget"} \X Devices

DeviceType ==
    /\ timeouts \in Nat
    /\ step # "idle" => creating \in Devices /\ creating \notin created
    /\ created \subseteq Devices
    /\ deviceWork \in Seq(DeviceTasks)
    /\ observerWork \in Seq(ObserverTasks)

(* The hub removes what was destroyed; only observers that were made hear. *)
DeviceOrder ==
    /\ destroyed \subseteq created
    /\ \A w \in Entries(deviceWork) : w[1] = "remove" => w[2] \in destroyed
    /\ \A w \in Entries(observerWork) : w[2] \in Made
    /\ observers \subseteq Made /\ seen_device \subseteq Made /\ done \subseteq seen_device

(* A device that cannot be mistaken is alone with its uid while it is      *)
(* made: what its observer has seen is itself.                             *)
DeviceAlone ==
    step # "idle" /\ creating \notin mistakable =>
        /\ \A e \in present : Device!SameUid(creating, e) => e = creating
        /\ \A w \in Entries(deviceWork) : Device!SameUid(creating, w[2]) => w[2] = creating
        /\ creating \in seen_device => creating \in present

DeviceInv ==
    /\ DeviceType /\ DeviceOrder /\ DeviceAlone
    /\ timeouts = 0 => created \ (destroyed \cup mistakable) \subseteq present

(* Every step keeps that.                                                  *)
LEMMA DeviceNext ==
  ASSUME DeviceInv, Device!Next \/ UNCHANGED deviceVars, timeouts' \in Nat,
         timeouts' = 0 => timeouts = 0
  PROVE  DeviceInv'
<1>0. /\ DeviceType /\ DeviceOrder /\ DeviceAlone
      /\ timeouts = 0 => created \ (destroyed \cup mistakable) \subseteq present
  BY Zenon DEF DeviceInv
<1>1. ASSUME NEW d \in Devices, Device!AddObserver(d) PROVE DeviceInv'
  <2>1. /\ step = "idle" /\ step' = "observing" /\ d \notin created /\ creating' = d
        /\ observerWork' = Append(observerWork, <<"observe", d>>)
        /\ UNCHANGED <<created, deviceWork, observers, present, seen_device, done, destroyed>>
    BY <1>1, Zenon DEF Device!AddObserver
  <2>2. mistakable' = mistakable \/ mistakable' = mistakable \cup {d}
    BY <1>1, Zenon DEF Device!AddObserver
  <2>3. d \notin mistakable' =>
           /\ \A e \in present : ~Device!SameUid(d, e)
           /\ \A w \in Entries(deviceWork) : ~Device!SameUid(d, w[2])
    BY <1>1, Zenon DEF Device!AddObserver, Entries
  <2>4. <<"observe", d>> \in ObserverTasks /\ <<"observe", d>>[2] = d
    BY Zenon DEF ObserverTasks
  <2>5. /\ observerWork' \in Seq(ObserverTasks)
        /\ Entries(observerWork') = Entries(observerWork) \cup {<<"observe", d>>}
    <3>1. observerWork \in Seq(ObserverTasks)
      BY <1>0, Zenon DEF DeviceType
    <3>2. /\ Append(observerWork, <<"observe", d>>) \in Seq(ObserverTasks)
          /\ Entries(Append(observerWork, <<"observe", d>>)) = Entries(observerWork) \cup {<<"observe", d>>}
      BY <3>1, <2>4, EntriesAppend
    <3> QED
      BY <2>1, <3>2
  <2>6. Made' = Made \cup {d} /\ Made = created
    BY <2>1, Zenon DEF Made
  <2>7. DeviceType'
    BY <1>0, <2>1, <2>5, Zenon DEF DeviceType
  <2>8. DeviceOrder'
    BY <1>0, <2>1, <2>4, <2>5, <2>6, Zenon DEF DeviceOrder, Entries
  <2>9. DeviceAlone'
    <3>1. d \notin seen_device
      BY <1>0, <2>1, <2>6, Zenon DEF DeviceOrder
    <3> QED
      BY <2>1, <2>3, <3>1, Zenon DEF DeviceAlone, Entries, Device!SameUid
  <2> QED
    BY <1>0, <2>1, <2>2, <2>7, <2>8, <2>9, Zenon DEF DeviceInv
<1>2. ASSUME NEW d \in Devices, Device!Destroy(d) PROVE DeviceInv'
  <2>1. /\ step = "idle" /\ d \in created
        /\ deviceWork' = Append(deviceWork, <<"remove", d>>)
        /\ destroyed' = destroyed \cup {d}
        /\ UNCHANGED <<step, creating, created, observerWork, observers, present, seen_device, done,
                       mistakable>>
    BY <1>2, Zenon DEF Device!Destroy
  <2>2. <<"remove", d>> \in DeviceTasks /\ <<"remove", d>>[2] = d
    BY Zenon DEF DeviceTasks
  <2>3. /\ deviceWork' \in Seq(DeviceTasks)
        /\ Entries(deviceWork') = Entries(deviceWork) \cup {<<"remove", d>>}
    <3>1. deviceWork \in Seq(DeviceTasks)
      BY <1>0, Zenon DEF DeviceType
    <3>2. /\ Append(deviceWork, <<"remove", d>>) \in Seq(DeviceTasks)
          /\ Entries(Append(deviceWork, <<"remove", d>>)) = Entries(deviceWork) \cup {<<"remove", d>>}
      BY <3>1, <2>2, EntriesAppend
    <3> QED
      BY <2>1, <3>2
  <2>4. DeviceType'
    BY <1>0, <2>1, <2>3, Zenon DEF DeviceType
  <2>5. DeviceOrder'
    BY <1>0, <2>1, <2>2, <2>3, Zenon DEF DeviceOrder, Made, Entries
  <2>6. DeviceAlone'
    BY <2>1, Zenon DEF DeviceAlone
  <2> QED
    BY <1>0, <2>1, <2>4, <2>5, <2>6, Zenon DEF DeviceInv
<1>3. CASE Device!AddDevice
  <2>1. /\ step = "observing" /\ step' = "waiting"
        /\ deviceWork' = Append(deviceWork, <<"add", creating>>)
        /\ UNCHANGED <<creating, created, observerWork, observers, present, seen_device, done,
                       destroyed, mistakable>>
    BY <1>3, Zenon DEF Device!AddDevice
  <2>2. /\ <<"add", creating>> \in DeviceTasks
        /\ <<"add", creating>>[1] = "add" /\ <<"add", creating>>[2] = creating
    BY <1>0, <2>1, Zenon DEF DeviceType, DeviceTasks
  <2>3. /\ deviceWork' \in Seq(DeviceTasks)
        /\ Entries(deviceWork') = Entries(deviceWork) \cup {<<"add", creating>>}
    <3>1. deviceWork \in Seq(DeviceTasks)
      BY <1>0, Zenon DEF DeviceType
    <3>2. /\ Append(deviceWork, <<"add", creating>>) \in Seq(DeviceTasks)
          /\ Entries(Append(deviceWork, <<"add", creating>>)) = Entries(deviceWork) \cup {<<"add", creating>>}
      BY <3>1, <2>2, EntriesAppend
    <3> QED
      BY <2>1, <3>2
  <2>4. DeviceType'
    BY <1>0, <2>1, <2>3, Zenon DEF DeviceType
  <2>5. DeviceOrder'
    BY <1>0, <2>1, <2>2, <2>3, Zenon DEF DeviceOrder, Made, Entries
  <2>6. DeviceAlone'
    BY <1>0, <2>1, <2>2, <2>3, Zenon DEF DeviceAlone, Device!SameUid, Entries
  <2> QED
    BY <1>0, <2>1, <2>4, <2>5, <2>6, Zenon DEF DeviceInv
<1>4. ASSUME step = "waiting", Device!Return,
             timeouts' = 0 => creating \in done
      PROVE  DeviceInv'
  <2>1. /\ step' = "idle" /\ created' = created \cup {creating} /\ creating \in Devices
        /\ observerWork' = Append(observerWork, <<"forget", creating>>)
        /\ UNCHANGED <<deviceWork, observers, present, seen_device, done, destroyed, mistakable>>
    BY <1>0, <1>4, Zenon DEF Device!Return, DeviceType
  <2>2. /\ <<"forget", creating>> \in ObserverTasks
        /\ <<"forget", creating>>[2] = creating
    BY <2>1, Zenon DEF ObserverTasks
  <2>3. /\ observerWork' \in Seq(ObserverTasks)
        /\ Entries(observerWork') = Entries(observerWork) \cup {<<"forget", creating>>}
    <3>1. observerWork \in Seq(ObserverTasks)
      BY <1>0, Zenon DEF DeviceType
    <3>2. /\ Append(observerWork, <<"forget", creating>>) \in Seq(ObserverTasks)
          /\ Entries(Append(observerWork, <<"forget", creating>>)) = Entries(observerWork) \cup {<<"forget", creating>>}
      BY <3>1, <2>2, EntriesAppend
    <3> QED
      BY <2>1, <3>2
  <2>4. Made' = Made /\ creating \in Made
    BY <1>4, <2>1, Zenon DEF Made
  <2>5. DeviceType'
    BY <1>0, <2>1, <2>3, Zenon DEF DeviceType
  <2>6. DeviceOrder'
    BY <1>0, <2>1, <2>2, <2>3, <2>4, Zenon DEF DeviceOrder, Entries
  <2>7. DeviceAlone'
    BY <2>1, Zenon DEF DeviceAlone
  <2>8. timeouts' = 0 /\ creating \notin mistakable => creating \in present
    BY <1>0, <1>4, Zenon DEF DeviceAlone, DeviceOrder
  <2> QED
    BY <1>0, <2>1, <2>5, <2>6, <2>7, <2>8, Zenon DEF DeviceInv
<1>5. CASE Device!DeviceAdded
  BY <1>4, <1>5, Zenon DEF Device!DeviceAdded
<1>6. CASE Device!WaitTimesOut
  <2>1. timeouts' # 0
    BY <1>0, <1>6 DEF Device!WaitTimesOut, DeviceType
  <2> QED
    BY <1>4, <1>6, <2>1, Zenon DEF Device!WaitTimesOut
<1>7. CASE Device!HubObserves
  <2>1. /\ observerWork # <<>> /\ observerWork' = Tail(observerWork)
        /\ UNCHANGED <<step, creating, created, deviceWork, present, destroyed, mistakable>>
        /\ observers' \subseteq observers \cup {Head(observerWork)[2]}
    BY <1>7, Zenon DEF Device!HubObserves
  <2>2. /\ observerWork' \in Seq(ObserverTasks)
        /\ Head(observerWork) \in Entries(observerWork)
        /\ Entries(observerWork') \subseteq Entries(observerWork)
    BY <1>0, <2>1, EntriesTail, Zenon DEF DeviceType
  <2>3. /\ done' \subseteq seen_device'
        /\ seen_device' \subseteq seen_device \cup {Head(observerWork)[2]}
    BY <1>0, <1>7, Zenon DEF Device!HubObserves, Device!Announce, DeviceOrder
  <2>4. creating \in seen_device' =>
           creating \in seen_device \/ \E e \in present : Device!SameUid(creating, e)
    BY <1>7, Zenon DEF Device!HubObserves, Device!Announce
  <2>5. DeviceType'
    BY <1>0, <2>1, <2>2, Zenon DEF DeviceType
  <2>6. DeviceOrder'
    BY <1>0, <2>1, <2>2, <2>3, Zenon DEF DeviceOrder, Made, Entries
  <2>7. DeviceAlone'
    BY <1>0, <2>1, <2>4, Zenon DEF DeviceAlone, Device!SameUid, Entries
  <2> QED
    BY <1>0, <2>1, <2>5, <2>6, <2>7, Zenon DEF DeviceInv
<1>8. CASE Device!HubChanges
  <2>1. /\ deviceWork # <<>> /\ deviceWork' = Tail(deviceWork)
        /\ UNCHANGED <<step, creating, created, observerWork, observers, destroyed, mistakable>>
    BY <1>8, Zenon DEF Device!HubChanges
  <2>2. /\ deviceWork' \in Seq(DeviceTasks)
        /\ Head(deviceWork) \in Entries(deviceWork)
        /\ Entries(deviceWork') \subseteq Entries(deviceWork)
    BY <1>0, <2>1, EntriesTail, Zenon DEF DeviceType
  <2>3. done' \subseteq seen_device' /\ seen_device' \subseteq seen_device \cup observers
    BY <1>0, <1>8, Zenon DEF Device!HubChanges, Device!Announce, DeviceOrder
  <2>4. creating \in seen_device' =>
           \/ creating \in seen_device
           \/ Device!SameUid(creating, Head(deviceWork)[2]) /\ Head(deviceWork)[2] \in present'
    <3> DEFINE e == Head(deviceWork)[2]
    <3>1. CASE Head(deviceWork)[1] = "add" /\ present' = present \cup {e}
               /\ Device!Announce(observers, {e})
      BY <3>1, Zenon DEF Device!Announce
    <3>2. CASE Device!Announce(observers, {})
      BY <3>2, Zenon DEF Device!Announce
    <3> QED
      BY <1>8, <3>1, <3>2, Zenon DEF Device!HubChanges
  <2>5. /\ present' \subseteq present \cup {Head(deviceWork)[2]}
        /\ present \subseteq present' \cup destroyed
    BY <1>0, <1>8, <2>2, Zenon DEF Device!HubChanges, DeviceOrder
  <2>6. DeviceType'
    BY <1>0, <2>1, <2>2, Zenon DEF DeviceType
  <2>7. DeviceOrder'
    BY <1>0, <2>1, <2>2, <2>3, Zenon DEF DeviceOrder, Made, Entries
  <2>8. DeviceAlone'
    <3> SUFFICES ASSUME step # "idle", creating \notin mistakable
                 PROVE  /\ \A e \in present' : Device!SameUid(creating, e) => e = creating
                        /\ \A w \in Entries(deviceWork') :
                              Device!SameUid(creating, w[2]) => w[2] = creating
                        /\ creating \in seen_device' => creating \in present'
      BY <2>1, Zenon DEF DeviceAlone, Device!SameUid, Entries
    <3>1. creating \notin destroyed
      BY <1>0, Zenon DEF DeviceType, DeviceOrder
    <3>2. /\ \A e \in present : Device!SameUid(creating, e) => e = creating
          /\ \A w \in Entries(deviceWork) : Device!SameUid(creating, w[2]) => w[2] = creating
          /\ creating \in seen_device => creating \in present
      BY <1>0, Zenon DEF DeviceAlone
    <3>3. Entries(deviceWork') \subseteq Entries(deviceWork)
      BY <2>2, Zenon DEF Entries
    <3> QED
      BY <2>2, <2>4, <2>5, <3>1, <3>2, <3>3, Zenon
  <2> QED
    BY <1>0, <2>1, <2>5, <2>6, <2>7, <2>8, Zenon DEF DeviceInv
<1>9. CASE UNCHANGED deviceVars
  BY <1>9, Zenon DEF deviceVars, DeviceInv, DeviceType, DeviceOrder, DeviceAlone, Made, Entries,
         Device!SameUid
<1> QED
  BY <1>1, <1>2, <1>3, <1>5, <1>6, <1>7, <1>8, <1>9, Zenon DEF Device!Next

(* The hub starts without devices.                                         *)
LEMMA DeviceInit == Device!Init => DeviceInv
<1> SUFFICES ASSUME Device!Init PROVE DeviceInv
  BY Zenon
<1>1. /\ Entries(deviceWork) = {} /\ Entries(observerWork) = {} /\ timeouts \in Nat
      /\ deviceWork \in Seq(DeviceTasks)
      /\ observerWork \in Seq(ObserverTasks)
  BY DEF Device!Init, Entries
<1> QED
  BY <1>1, Zenon DEF Device!Init, DeviceInv, DeviceType, DeviceOrder, DeviceAlone

(* Until a wait times out, a device that was returned and not destroyed is *)
(* one the hub has, unless another with its uid was there or on its way    *)
(* when it was made: CreatedIsPresent for any number of devices, in        *)
(* whichever order the hub's two queues are served.                        *)
THEOREM DevicesCorrect == MirSpec => []CreatedIsPresent
<1>1. MirInit => DeviceInv
  BY DeviceInit, Zenon DEF MirInit
<1>2. DeviceInv /\ [MirNext]_mirVars => DeviceInv'
  <2> SUFFICES ASSUME DeviceInv, [MirNext]_mirVars PROVE DeviceInv'
    BY Zenon
  <2>1. timeouts \in Nat
    BY Zenon DEF DeviceInv, DeviceType
  <2> QED
    BY <2>1, PartStep, DeviceNext, Zenon
<1>3. DeviceInv => CreatedIsPresent
  BY Zenon DEF DeviceInv, CreatedIsPresent, Device!CreatedIsPresent
<1> QED
  BY <1>1, <1>2, <1>3, PTL DEF MirSpec

-----------------------------------------------------------------------------
(* Clients and windows.                                                    *)

(* Where the mapper stands while no wait has timed out: a client is being  *)
(* connected only once the mapper listens, and one at a time, the last.    *)
SocketInv == timeouts = 0 =>
    /\ clients \in Nat /\ waiting \in Fds \cup {0}
    /\ server \in {"created", "starting", "started"}
    /\ owner \in [Fds -> 0 .. clients] /\ client_session_map \in [Fds -> Nat]
    /\ server = "started" => listening = TRUE
    /\ waiting # 0 => /\ server = "started" /\ owner[waiting] = clients /\ clients > 0
                      /\ \/ connecting = <<clients>> /\ latest_client = 0
                         \/ connecting = <<>> /\ latest_client = clients
    /\ waiting = 0 => connecting = <<>> /\ latest_client = 0
    /\ \A f \in Fds : owner[f] # 0 /\ waiting # f => client_session_map[f] = owner[f]

(* No two resources are one object, and the window of a resource is the    *)
(* one entered for it.                                                     *)
WindowInv == timeouts = 0 =>
    /\ object \in [Resources -> Nat \X (Ids \cup {0})]
    /\ window \in [Resources -> Nat] /\ surface_map \in [Resources -> Nat] /\ windows \in Nat
    /\ \A q, r \in Resources : object[q] = object[r] /\ object[r] # <<0, 0>> => q = r
    /\ \A r \in Resources : window[r] # 0 => surface_map[r] = window[r]

ResourceInv == timeouts \in Nat /\ SocketInv /\ WindowInv /\ MovesOwnWindow

(* Nothing is connected before the server is created.                      *)
LEMMA ResourceInit == Resource!Init => ResourceInv
<1> SUFFICES ASSUME Resource!Init PROVE ResourceInv
  BY Zenon
<1>1. timeouts \in Nat /\ MovesOwnWindow
  BY Zenon DEF Resource!Init, MovesOwnWindow, Resource!MovesOwnWindow
<1>2. SocketInv
  BY DEF Resource!Init, SocketInv
<1>3. WindowInv
  BY Zenon DEF Resource!Init, WindowInv, Resource!NoObject
<1> QED
  BY <1>1, <1>2, <1>3, Zenon DEF ResourceInv

(* The steps of sockets and of the test's thread.                          *)
LEMMA SocketNext ==
  ASSUME SocketInv, timeouts \in Nat, timeouts' \in Nat, timeouts' = 0 => timeouts = 0,
         Resource!Next \/ UNCHANGED resourceVars
  PROVE  SocketInv'
<1> SUFFICES ASSUME timeouts' = 0, timeouts = 0 PROVE SocketInv'
  BY Zenon DEF SocketInv
<1> DEFINE others == <<clients, connecting, waiting, owner, latest_client, client_session_map>>
<1>1. CASE Resource!start_server \/ Resource!init \/ Resource!started
  <2>1. UNCHANGED others
    BY <1>1, Zenon DEF Resource!start_server, Resource!init, Resource!started
  <2>2. /\ server' \in {"created", "starting", "started"}
        /\ server' = "started" => listening' = TRUE
        /\ server = "started" => server' = "started"
    BY <1>1 DEF Resource!start_server, Resource!init, Resource!started, SocketInv
  <2> QED
    BY <2>1, <2>2, Zenon DEF SocketInv
<1>2. ASSUME NEW f \in Fds, Resource!OpenSocket(f) PROVE SocketInv'
  <2>1. /\ server = "started" /\ waiting = 0 /\ owner[f] = 0
        /\ clients' = clients + 1 /\ connecting' = Append(connecting, clients + 1)
        /\ owner' = [owner EXCEPT ![f] = clients + 1] /\ waiting' = f
        /\ UNCHANGED <<server, listening, latest_client, client_session_map>>
    BY <1>2, Zenon DEF Resource!OpenSocket
  <2>2. connecting' = <<clients + 1>>
    BY <2>1 DEF SocketInv
  <2>3. owner' \in [Fds -> 0 .. clients'] /\ owner'[f] = clients'
    BY <2>1 DEF SocketInv
  <2>4. ASSUME NEW g \in Fds, owner'[g] # 0, waiting' # g
        PROVE  client_session_map'[g] = owner'[g]
    <3>1. g # f /\ owner'[g] = owner[g] /\ waiting # g
      BY <2>1, <2>4, FdsAssumption, Zenon DEF SocketInv
    <3> QED
      BY <3>1, <2>1, <2>4, Zenon DEF SocketInv
  <2> QED
    BY <2>1, <2>2, <2>3, <2>4, FdsAssumption DEF SocketInv
<1>3. ASSUME NEW f \in Fds, Resource!CloseSocket(f) PROVE SocketInv'
  BY <1>3 DEF Resource!CloseSocket, SocketInv
<1>4. CASE Resource!client_created
  <2>1. /\ connecting # <<>> /\ connecting' = Tail(connecting)
        /\ latest_client' = IF listening THEN Head(connecting) ELSE latest_client
        /\ UNCHANGED <<server, listening, clients, waiting, owner, client_session_map>>
    BY <1>4, Zenon DEF Resource!client_created
  <2>2. waiting # 0 /\ connecting = <<clients>> /\ listening = TRUE
    BY <2>1, Zenon DEF SocketInv
  <2>3. connecting' = <<>> /\ latest_client' = clients
    BY <2>1, <2>2
  <2> QED
    BY <2>1, <2>2, <2>3, Zenon DEF SocketInv
<1>5. CASE Resource!associate_client_socket
  <2>1. /\ waiting # 0 /\ latest_client # 0
        /\ client_session_map' = [client_session_map EXCEPT ![waiting] = latest_client]
        /\ latest_client' = 0 /\ waiting' = 0
        /\ UNCHANGED <<server, listening, clients, connecting, owner>>
    BY <1>5, Zenon DEF Resource!associate_client_socket
  <2>2. /\ waiting \in Fds /\ connecting = <<>> /\ latest_client = clients
        /\ owner[waiting] = clients /\ clients \in Nat
    BY <2>1, Zenon DEF SocketInv
  <2>3. client_session_map' \in [Fds -> Nat]
    BY <2>1, <2>2, Zenon DEF SocketInv
  <2>4. ASSUME NEW g \in Fds, owner[g] # 0 PROVE client_session_map'[g] = owner[g]
    BY <2>1, <2>2, <2>4, Zenon DEF SocketInv
  <2> QED
    BY <2>1, <2>2, <2>3, <2>4, Zenon DEF SocketInv
<1>6. CASE Resource!WaitTimesOut
  BY <1>6 DEF Resource!WaitTimesOut
<1>7. CASE UNCHANGED <<server, listening, clients, connecting, waiting, owner, latest_client,
                       client_session_map>>
  BY <1>7, Zenon DEF SocketInv
<1>8. CASE UNCHANGED resourceVars
  BY <1>7, <1>8, Zenon DEF resourceVars
<1>9. ASSUME NEW r, Resource!resource_created(r) \/ Resource!surface_created(r)
                      \/ Resource!buffer_stream_destroyed(r)
      PROVE  SocketInv'
  BY <1>7, <1>9, Zenon DEF Resource!resource_created, Resource!surface_created, Resource!NewWindow,
                    Resource!buffer_stream_destroyed, Resource!socketVars
<1>10. ASSUME Resource!buffer_stream_created \/ Resource!window_resource_created
       PROVE  SocketInv'
  BY <1>7, <1>10, Zenon DEF Resource!buffer_stream_created, Resource!window_resource_created,
                     Resource!socketVars
<1>11. ASSUME NEW f, NEW r, Resource!position_window_absolute(f, r) PROVE SocketInv'
  BY <1>7, <1>11, Zenon DEF Resource!position_window_absolute, Resource!socketVars
<1> QED
  BY <1>1, <1>2, <1>3, <1>4, <1>5, <1>6, <1>8, <1>9, <1>10, <1>11, Zenon DEF Resource!Next

(* The steps of resources and windows.                                     *)
LEMMA WindowNext ==
  ASSUME SocketInv, WindowInv, timeouts \in Nat, timeouts' \in Nat,
         timeouts' = 0 => timeouts = 0, Resource!Next \/ UNCHANGED resourceVars
  PROVE  WindowInv'
<1> SUFFICES ASSUME timeouts' = 0, timeouts = 0 PROVE WindowInv'
  BY Zenon DEF WindowInv
<1>1. CASE UNCHANGED <<object, windows, window, surface_map>>
  BY <1>1, Zenon DEF WindowInv
<1>2. ASSUME NEW r \in Resources, Resource!resource_created(r) PROVE WindowInv'
  <2>1. PICK f \in Fds, i \in Ids :
           /\ Resource!Connected(f) /\ \A q \in Resources : object[q] # <<owner[f], i>>
           /\ object' = [object EXCEPT ![r] = <<owner[f], i>>]
    BY <1>2, Zenon DEF Resource!resource_created
  <2>0. owner[f] \in Nat /\ <<owner[f], i>> \in Nat \X (Ids \cup {0})
    BY <2>1 DEF SocketInv
  <2>2. PICK o \in Nat \X (Ids \cup {0}) : o = <<owner[f], i>>
    BY <2>0, Zenon
  <2>3. object' = [object EXCEPT ![r] = o] /\ \A q \in Resources : object[q] # o
    BY <2>1, <2>2, Zenon
  <2>4. UNCHANGED <<windows, window, surface_map>>
    BY <1>2, Zenon DEF Resource!resource_created
  <2> QED
    BY <2>3, <2>4, Zenon DEF WindowInv
<1>3. ASSUME NEW r \in Resources, Resource!surface_created(r) PROVE WindowInv'
  <2>1. /\ windows' = windows + 1 /\ window' = [window EXCEPT ![r] = windows + 1]
        /\ surface_map' = [surface_map EXCEPT ![r] = windows + 1] /\ UNCHANGED object
    BY <1>3, Zenon DEF Resource!surface_created, Resource!NewWindow
  <2> QED
    BY <2>1 DEF WindowInv
<1>4. ASSUME NEW r \in Resources, Resource!buffer_stream_destroyed(r) PROVE WindowInv'
  <2>1. /\ object' = [object EXCEPT ![r] = <<0, 0>>] /\ window' = [window EXCEPT ![r] = 0]
        /\ UNCHANGED <<windows, surface_map>>
    BY <1>4, Zenon DEF Resource!buffer_stream_destroyed, Resource!NoObject
  <2>2. <<0, 0>> \in Nat \X (Ids \cup {0})
    BY Zenon
  <2>3. PICK o \in Nat \X (Ids \cup {0}) : o = <<0, 0>>
    BY <2>2, Zenon
  <2>4. object' = [object EXCEPT ![r] = o]
    BY <2>1, <2>3, Zenon
  <2>5. \A p, q \in Resources : object'[p] = object'[q] /\ object'[q] # <<0, 0>> => p = q
    BY <2>3, <2>4, Zenon DEF WindowInv
  <2> QED
    BY <2>1, <2>4, <2>5 DEF WindowInv
<1>5. CASE UNCHANGED resourceVars
  BY <1>1, <1>5, Zenon DEF resourceVars
<1>6. CASE \/ Resource!start_server \/ Resource!init \/ Resource!started
           \/ Resource!client_created \/ Resource!associate_client_socket
           \/ Resource!WaitTimesOut \/ Resource!buffer_stream_created
           \/ Resource!window_resource_created
  BY <1>1, <1>6, Zenon DEF Resource!start_server, Resource!init, Resource!started,
                    Resource!client_created, Resource!associate_client_socket,
                    Resource!WaitTimesOut, Resource!buffer_stream_created,
                    Resource!window_resource_created, Resource!windowVars
<1>7. ASSUME NEW f, Resource!OpenSocket(f) \/ Resource!CloseSocket(f) PROVE WindowInv'
  BY <1>1, <1>7, Zenon DEF Resource!OpenSocket, Resource!CloseSocket, Resource!windowVars
<1>8. ASSUME NEW f, NEW r, Resource!position_window_absolute(f, r) PROVE WindowInv'
  BY <1>1, <1>8, Zenon DEF Resource!position_window_absolute, Resource!windowVars
<1> QED
  BY <1>2, <1>3, <1>4, <1>5, <1>6, <1>7, <1>8, Zenon DEF Resource!Next

(* A test asks for a window by the fd and the object's id; the client of   *)
(* the fd is its owner, and the object has one resource.                   *)
LEMMA FoundWindow ==
  ASSUME SocketInv, WindowInv, timeouts = 0, NEW f \in Fds, NEW r \in Resources,
         Resource!position_window_absolute(f, r)
  PROVE  moved'[1] = moved'[2]
<1>1. /\ waiting = 0 /\ owner[f] \in 1 .. clients /\ object[r][1] = owner[f] /\ window[r] # 0
      /\ moved' = <<window[r], Resource!surface_for_resource(f, object[r][2])>>
  BY Zenon DEF Resource!position_window_absolute, Resource!Connected
<1>2. client_session_map[f] = owner[f] /\ owner[f] # 0
  BY <1>1, FdsAssumption DEF SocketInv
<1>3. object[r] = <<client_session_map[f], object[r][2]>>
  BY <1>1, <1>2 DEF WindowInv
<1>4. object[r] # <<0, 0>>
  BY <1>2, <1>3
<1> DEFINE found == { q \in Resources : object[q] = <<client_session_map[f], object[r][2]>> }
           live == { q \in found : surface_map[q] # 0 /\ surface_map[q] = window[q] }
<1>5. found = {r}
  <2>1. \A q \in Resources : object[q] = object[r] => q = r
    BY <1>4, Zenon DEF WindowInv
  <2> QED
    BY <1>3, <2>1, Zenon
<1>6. live = {r}
  BY <1>1, <1>5, Zenon DEF WindowInv
<1>7. Resource!surface_for_resource(f, object[r][2]) =
         IF live = {} THEN 0 ELSE window[CHOOSE q \in live : TRUE]
  BY Zenon DEF Resource!surface_for_resource
<1> HIDE DEF live
<1>8. (CHOOSE q \in live : TRUE) = r
  BY <1>6, Zenon
<1> QED
  BY <1>1, <1>6, <1>7, <1>8, Zenon

(* Until a wait times out position_window_absolute() moves the window it   *)
(* was asked to: MovesOwnWindow for any number of fds, resources and ids,  *)
(* however often each is used again.                                       *)
THEOREM WindowsCorrect == MirSpec => []MovesOwnWindow
<1>1. MirInit => ResourceInv
  BY ResourceInit, Zenon DEF MirInit
<1>2. ResourceInv /\ [MirNext]_mirVars => ResourceInv'
  <2> SUFFICES ASSUME ResourceInv, [MirNext]_mirVars PROVE ResourceInv'
    BY Zenon
  <2>1. /\ timeouts \in Nat /\ timeouts' \in Nat /\ (timeouts' = 0 => timeouts = 0)
        /\ Resource!Next \/ UNCHANGED resourceVars
        /\ SocketInv /\ WindowInv
    BY PartStep, Zenon DEF ResourceInv
  <2>2. SocketInv' /\ WindowInv'
    BY <2>1, SocketNext, WindowNext, Zenon
  <2>3. timeouts' = 0 => moved'[1] = moved'[2]
    <3>1. ASSUME UNCHANGED moved, timeouts' = 0 PROVE moved'[1] = moved'[2]
      BY <2>1, <3>1, Zenon DEF ResourceInv, MovesOwnWindow, Resource!MovesOwnWindow
    <3>2. ASSUME NEW f \in Fds, NEW r \in Resources, timeouts' = 0,
                 Resource!position_window_absolute(f, r)
          PROVE  moved'[1] = moved'[2]
      BY <2>1, <3>2, FoundWindow, Zenon
    <3>3. \/ UNCHANGED moved
          \/ \E f \in Fds, r \in Resources : Resource!position_window_absolute(f, r)
      BY <2>1, Zenon DEF resourceVars, Resource!Next, Resource!start_server, Resource!init,
                  Resource!started, Resource!OpenSocket, Resource!CloseSocket,
                  Resource!client_created, Resource!associate_client_socket,
                  Resource!WaitTimesOut, Resource!resource_created, Resource!surface_created,
                  Resource!NewWindow, Resource!buffer_stream_destroyed,
                  Resource!buffer_stream_created, Resource!window_resource_created
    <3> QED
      BY <3>1, <3>2, <3>3, Zenon
  <2> QED
    BY <2>1, <2>2, <2>3, Zenon DEF ResourceInv, MovesOwnWindow, Resource!MovesOwnWindow
<1>3. ResourceInv => MovesOwnWindow
  BY Zenon DEF ResourceInv
<1> QED
  BY <1>1, <1>2, <1>3, PTL DEF MirSpec

-----------------------------------------------------------------------------
(* Input: the steps and the types.                                         *)

(* What Mir is given, and what the observer is told.                       *)
InputKinds == {"relative", "absolute", "button", "down", "motion", "up"}
Item == [kind : InputKinds, amount : Int, time : Nat, event : Nat]
Observation == ({"cursor"} \X Int) \cup ({"event"} \X Nat \X Nat)

(* Types; the cursor is on the output.                                     *)
InputType ==
    /\ now \in Nat /\ emitted \in Nat /\ waitingFor \in Nat
    /\ inputs \in Seq(Item) /\ observations \in Seq(Observation)
    /\ position \in 0 .. Edge /\ cursor \in Int /\ last_x \in Int /\ touched \in Int
    /\ expected_events \subseteq Nat \X Nat

(* What the test's thread does when it emits an event.                     *)
Emits(kind, target, amount) ==
    /\ Input!emit_mir_event(kind, target, amount)
    /\ kind \in InputKinds /\ target \in Int /\ amount \in Int
    /\ kind = "absolute" => target \in 0 .. Edge /\ amount = target - cursor
    /\ IF kind \in {"down", "motion"} THEN last_x' = amount ELSE last_x' = last_x
    /\ kind = "up" => amount = last_x

(* A whole number survives the conversion to wl_fixed_t and back.          *)
LEMMA Fixed ==
  \A i \in Int : /\ Input!wl_fixed_to_int(Input!wl_fixed_from_int(i)) = i
                 /\ Input!wl_fixed_from_int(i) \div 256 = i
  BY DEF Input!wl_fixed_to_int, Input!wl_fixed_from_int

(* So does the distance of two.                                            *)
LEMMA Distance ==
  \A i, j \in Int :
     Input!wl_fixed_to_int(Input!wl_fixed_from_int(i) - Input!wl_fixed_from_int(j)) = i - j
<1> TAKE i, j \in Int
<1>1. Input!wl_fixed_from_int(i) - Input!wl_fixed_from_int(j) = Input!wl_fixed_from_int(i - j)
  BY DEF Input!wl_fixed_from_int
<1> QED
  BY <1>1, Fixed

(* The steps of input, and the six calls as one.                           *)
LEMMA InputSteps ==
  ASSUME InputType, Input!Next
  PROVE  \/ \E kind \in InputKinds, target \in Int, amount \in Int : Emits(kind, target, amount)
         \/ Input!WaitRaised \/ Input!WaitTimesOut \/ Input!Tick
         \/ Input!HandlePointer \/ Input!HandleOther
         \/ Input!seat_set_cursor_position \/ Input!seat_dispatch_event
<1>1. ASSUME NEW dx \in -1 .. 1, Input!pointer_move_relative(Input!wl_fixed_from_int(dx))
      PROVE  \E kind \in InputKinds, target \in Int, amount \in Int : Emits(kind, target, amount)
  <2>1. Emits("relative", 0, dx)
    BY <1>1, Fixed DEF Input!pointer_move_relative, Emits, InputKinds
  <2> QED
    BY <2>1 DEF InputKinds
<1>2. ASSUME NEW x \in 0 .. Edge, Input!pointer_move_absolute(Input!wl_fixed_from_int(x))
      PROVE  \E kind \in InputKinds, target \in Int, amount \in Int : Emits(kind, target, amount)
  <2>1. x \in Int /\ cursor \in Int
    BY EdgeAssumption DEF InputType
  <2>2. /\ Input!wl_fixed_from_int(x) \div 256 = x
        /\ Input!wl_fixed_to_int(Input!wl_fixed_from_int(x) - Input!wl_fixed_from_int(cursor))
              = x - cursor
    BY <2>1, Fixed, Distance, Zenon
  <2>3. Input!emit_mir_event("absolute", x, x - cursor) /\ last_x' = last_x
    BY <1>2, <2>2, Zenon DEF Input!pointer_move_absolute
  <2>4. Emits("absolute", x, x - cursor) /\ x - cursor \in Int
    BY <2>1, <2>3 DEF Emits, InputKinds
  <2> QED
    BY <2>1, <2>4, Zenon DEF InputKinds
<1>3. ASSUME NEW x \in 0 .. Edge, Input!touch_down(x) \/ Input!touch_move(x)
      PROVE  \E kind \in InputKinds, target \in Int, amount \in Int : Emits(kind, target, amount)
  <2>1. Emits("down", 0, x) \/ Emits("motion", 0, x)
    BY <1>3, EdgeAssumption DEF Input!touch_down, Input!touch_move, Emits, InputKinds
  <2> QED
    BY <2>1, EdgeAssumption DEF InputKinds
<1>4. ASSUME Input!pointer_button \/ Input!touch_up
      PROVE  \E kind \in InputKinds, target \in Int, amount \in Int : Emits(kind, target, amount)
  <2>1. Emits("button", 0, 0) \/ Emits("up", 0, last_x)
    BY <1>4 DEF Input!pointer_button, Input!touch_up, Emits, InputKinds, InputType
  <2> QED
    BY <2>1 DEF InputKinds, InputType
<1> QED
  BY <1>1, <1>2, <1>3, <1>4, Zenon DEF Input!Next

(* What an observation is made of.                                         *)
LEMMA Observed ==
  /\ \A o \in Observation : o[1] = "cursor" => o[2] \in Int
  /\ \A o \in Observation : o[1] = "cursor" => o = <<"cursor", o[2]>>
  /\ \A o \in Observation : o[1] = "event" => \E t, e \in Nat : o = <<"event", t, e>>
  /\ \A x \in Int : <<"cursor", x>> \in Observation
  /\ \A t, e \in Nat : <<"event", t, e>> \in Observation
<1>1. ASSUME NEW o \in Observation, o[1] = "cursor" PROVE o[2] \in Int
  BY <1>1, Zenon DEF Observation
<1>2. ASSUME NEW o \in Observation, o[1] = "event" PROVE \E t, e \in Nat : o = <<"event", t, e>>
  <2>1. o \in {"event"} \X Nat \X Nat
    BY <1>2, Zenon DEF Observation
  <2> QED
    BY <2>1
<1>3. /\ \A x \in Int : <<"cursor", x>> \in Observation
      /\ \A t, e \in Nat : <<"event", t, e>> \in Observation
  BY Zenon DEF Observation
<1>4. ASSUME NEW o \in Observation, o[1] = "cursor" PROVE o = <<"cursor", o[2]>>
  <2>1. o \in {"cursor"} \X Int
    BY <1>4, Zenon DEF Observation
  <2> QED
    BY <2>1
<1> QED
  BY <1>1, <1>2, <1>3, <1>4, Zenon

(* The parts of what is told of the cursor.                                *)
LEMMA CursorParts ==
  /\ \A x : <<"cursor", x>>[1] = "cursor" /\ <<"cursor", x>>[2] = x
  OBVIOUS

(* Every step of input keeps the types.                                    *)
LEMMA InputTypeNext ==
  ASSUME InputType, Input!Next \/ UNCHANGED inputVars
  PROVE  InputType'
<1>1. ASSUME NEW kind \in InputKinds, NEW target \in Int, NEW amount \in Int,
             Emits(kind, target, amount)
      PROVE  InputType'
  <2> DEFINE i == [kind |-> kind, amount |-> amount, time |-> now, event |-> emitted + 1]
  <2>1. /\ emitted' = emitted + 1 /\ waitingFor' = emitted + 1 /\ inputs' = Append(inputs, i)
        /\ UNCHANGED <<now, observations, position, cursor, touched>>
        /\ last_x' \in Int
        /\ expected_events' \subseteq expected_events \cup { <<now, emitted + 1>> }
    BY <1>1, Zenon DEF Emits, Input!emit_mir_event, InputType
  <2>2. i \in Item
    BY DEF Item, InputType
  <2>3. inputs' \in Seq(Item)
    BY <2>1, <2>2 DEF InputType
  <2>4. expected_events' \subseteq Nat \X Nat
    BY <2>1 DEF InputType
  <2> QED
    BY <2>1, <2>3, <2>4 DEF InputType
<1>2. CASE Input!WaitRaised \/ Input!WaitTimesOut \/ Input!Tick
  BY <1>2 DEF InputType, Input!WaitRaised, Input!WaitTimesOut, Input!Tick, Input!touchVars
<1>3. CASE Input!HandlePointer
  <2> DEFINE h == Head(inputs)
  <2>1. h \in Item /\ Tail(inputs) \in Seq(Item)
    BY <1>3 DEF Input!HandlePointer, InputType
  <2>2. h.amount \in Int /\ h.time \in Nat /\ h.event \in Nat
    BY <2>1, Zenon DEF Item
  <2>3. /\ position' = Input!Clamped(position + h.amount) /\ cursor' = position'
        /\ inputs' = Tail(inputs)
        /\ observations' = observations \o << <<"cursor", position'>>,
                                              <<"event", h.time, h.event>> >>
        /\ UNCHANGED <<now, emitted, waitingFor, last_x, touched, expected_events>>
    BY <1>3, Zenon DEF Input!HandlePointer, Input!touchVars
  <2>4. position' \in 0 .. Edge
    <3>1. PICK x \in Int : x = position + h.amount
      BY <2>2 DEF InputType
    <3>2. Input!Clamped(x) \in 0 .. Edge
      BY EdgeAssumption DEF Input!Clamped
    <3> QED
      BY <2>3, <3>1, <3>2, Zenon
  <2>5. <<"cursor", position'>> \in Observation /\ <<"event", h.time, h.event>> \in Observation
    BY <2>2, <2>4, Observed, EdgeAssumption
  <2>6. \A a, b \in Observation : observations \o <<a, b>> \in Seq(Observation)
    BY DEF InputType
  <2>7. observations' \in Seq(Observation)
    BY <2>3, <2>5, <2>6, Zenon
  <2> QED
    BY <2>1, <2>3, <2>4, <2>7 DEF InputType
<1>4. CASE Input!HandleOther
  <2> DEFINE h == Head(inputs)
  <2>1. h \in Item /\ Tail(inputs) \in Seq(Item)
    BY <1>4 DEF Input!HandleOther, InputType
  <2>2. h.amount \in Int /\ h.time \in Nat /\ h.event \in Nat
    BY <2>1, Zenon DEF Item
  <2>3. /\ inputs' = Tail(inputs)
        /\ observations' = Append(observations, <<"event", h.time, h.event>>)
        /\ touched' \in {touched, h.amount, -1}
        /\ UNCHANGED <<now, emitted, waitingFor, position, cursor, last_x, expected_events>>
    BY <1>4, Zenon DEF Input!HandleOther, Input!NotTouching
  <2>5. <<"event", h.time, h.event>> \in Observation
    BY <2>2, Observed, Zenon
  <2>7. observations' \in Seq(Observation)
    BY <2>3, <2>5 DEF InputType
  <2> QED
    BY <2>1, <2>2, <2>3, <2>7 DEF InputType
<1>5. CASE Input!seat_set_cursor_position \/ Input!seat_dispatch_event
  <2>1. /\ Head(observations) \in Observation /\ Tail(observations) \in Seq(Observation)
    BY <1>5 DEF Input!seat_set_cursor_position, Input!seat_dispatch_event, InputType
  <2>2. cursor' \in Int
    BY <1>5, <2>1, Observed, Zenon
       DEF Input!seat_set_cursor_position, Input!seat_dispatch_event, InputType
  <2>3. /\ observations' = Tail(observations) /\ expected_events' \subseteq expected_events
        /\ UNCHANGED <<now, emitted, waitingFor, inputs, position, last_x, touched>>
    BY <1>5, Zenon DEF Input!seat_set_cursor_position, Input!seat_dispatch_event, Input!touchVars
  <2> QED
    BY <2>1, <2>2, <2>3, Zenon DEF InputType
<1>6. CASE UNCHANGED inputVars
  BY <1>6, Zenon DEF inputVars, InputType
<1> QED
  BY <1>1, <1>2, <1>3, <1>4, <1>5, <1>6, InputSteps, Zenon

-----------------------------------------------------------------------------
(* Input: success is of the own event.                                     *)

(* The event e of time t is at place k of what Mir has still to handle,    *)
(* or of what it has still to tell the observer; there is the place x of   *)
(* the cursor; expected_events has it.                                     *)
Given(k, t, e) == k \in 1 .. Len(inputs) /\ inputs[k].time = t /\ inputs[k].event = e
Noted(k, t, e) == k \in 1 .. Len(observations) /\ observations[k] = <<"event", t, e>>
CursorAt(k, x) == k \in 1 .. Len(observations) /\ observations[k] = <<"cursor", x>>
Expects(t, e) == <<t, e>> \in expected_events

(* An event is on its way once, until it is seen.  Two events of one time  *)
(* are never both in use, because the clock advances when a wait ends      *)
(* without its signal: so the entry found for an event is its own.         *)
SuccessInv ==
    /\ SuccessIsOwn
    /\ \A j, k, t, u, e : Noted(j, t, e) /\ Noted(k, u, e) => j = k
    /\ \A j, k, t, u, e : Given(j, t, e) /\ Given(k, u, e) => j = k
    /\ \A j, k, t, u, e : ~ (Noted(j, t, e) /\ Given(k, u, e))
    /\ \A k, t, e : Noted(k, t, e) \/ Given(k, t, e) =>
          /\ t \in 0 .. now /\ e \in 1 .. emitted /\ e \notin seen
          /\ t = now => e = waitingFor
          /\ \A d : Expects(t, d) => d = e
    /\ \A t, e : Expects(t, e) =>
          /\ t \in 0 .. now /\ e \in 1 .. emitted /\ e \notin raised
          /\ t = now => e = waitingFor
    /\ \A t, u, e : Expects(t, e) /\ Expects(u, e) => t = u
    /\ \A e \in raised \cup seen : e \in 1 .. emitted

(* An event is given to Mir after the others,                              *)
LEMMA GivenAppended ==
  ASSUME inputs \in Seq(Item), NEW i \in Item, inputs' = Append(inputs, i)
  PROVE  \A k, t, e : Given(k, t, e)' <=> \/ Given(k, t, e)
                                          \/ k = Len(inputs) + 1 /\ t = i.time /\ e = i.event
  BY DEF Given

(* and taken from the front.                                               *)
LEMMA GivenTaken ==
  ASSUME inputs \in Seq(Item), inputs # <<>>, inputs' = Tail(inputs)
  PROVE  /\ Given(1, Head(inputs).time, Head(inputs).event)
         /\ \A k, t, e : Given(k, t, e)' <=> k \in Nat /\ k > 0 /\ Given(k + 1, t, e)
<1>1. /\ Len(inputs') + 1 = Len(inputs) /\ Len(inputs) \in Nat /\ Len(inputs) > 0
      /\ inputs[1] = Head(inputs)
      /\ \A k \in 1 .. Len(inputs') : inputs'[k] = inputs[k + 1]
  OBVIOUS
<1> QED
  BY <1>1 DEF Given

(* Mir tells of the cursor and then of the event that moved it,            *)
LEMMA PointerObserved ==
  ASSUME InputType, Input!HandlePointer
  PROVE  \E n \in Nat, t0 \in Nat, e0 \in Nat :
            /\ n = Len(observations) + 1
            /\ t0 = Head(inputs).time /\ e0 = Head(inputs).event
            /\ \A k, x : CursorAt(k, x)' <=> CursorAt(k, x) \/ (k = n /\ x = position')
            /\ \A k, t, e : Noted(k, t, e)' <=> Noted(k, t, e) \/ (k = n + 1 /\ t = t0 /\ e = e0)
<1>0. observations \in Seq(Observation) /\ Len(observations) \in Nat
  BY DEF InputType
<1>1. Head(inputs) \in Item
  BY DEF Input!HandlePointer, InputType
<1>2. PICK t0 \in Nat, e0 \in Nat : t0 = Head(inputs).time /\ e0 = Head(inputs).event
  BY <1>1, Zenon DEF Item
<1>3. PICK x0 \in Int : x0 = position'
  BY InputTypeNext, EdgeAssumption DEF InputType, Input!Next
<1>4. PICK c, o \in Observation : c = <<"cursor", x0>> /\ o = <<"event", t0, e0>>
  BY Observed, Zenon
<1>5. observations' = observations \o <<c, o>>
  BY <1>2, <1>3, <1>4, Zenon DEF Input!HandlePointer
<1>6. PICK n \in Nat : n = Len(observations) + 1
  BY <1>0
<1>7. /\ Len(observations') = n + 1
      /\ \A k \in 1 .. Len(observations) : observations'[k] = observations[k]
      /\ observations'[n] = c /\ observations'[n + 1] = o
  BY <1>0, <1>5, <1>6
<1>8. /\ \A t, e : o = <<"event", t, e>> <=> t = t0 /\ e = e0
      /\ \A t, e : c # <<"event", t, e>>
      /\ \A x : c = <<"cursor", x>> <=> x = position'
      /\ \A x : o # <<"cursor", x>>
  BY <1>3, <1>4, Zenon
<1>9. /\ \A k : k \in 1 .. n + 1 <=> k \in 1 .. Len(observations) \/ k = n \/ k = n + 1
      /\ n # n + 1 /\ n \notin 1 .. Len(observations) /\ n + 1 \notin 1 .. Len(observations)
  BY <1>0, <1>6
<1>10. \A k, x : CursorAt(k, x)' <=> CursorAt(k, x) \/ (k = n /\ x = position')
  <2>1. ASSUME NEW k, NEW x PROVE CursorAt(k, x)' <=> CursorAt(k, x) \/ (k = n /\ x = position')
    <3>1. CASE k \in 1 .. Len(observations)
      BY <1>7, <1>9, <3>1, Zenon DEF CursorAt
    <3>2. CASE k = n
      BY <1>7, <1>8, <1>9, <3>2, Zenon DEF CursorAt
    <3>3. CASE k = n + 1
      BY <1>7, <1>8, <1>9, <3>3, Zenon DEF CursorAt
    <3> QED
      BY <1>7, <1>9, <3>1, <3>2, <3>3, Zenon DEF CursorAt
  <2> QED
    BY <2>1, Zenon
<1>11. \A k, t, e : Noted(k, t, e)' <=> Noted(k, t, e) \/ (k = n + 1 /\ t = t0 /\ e = e0)
  <2>1. ASSUME NEW k, NEW t, NEW e
        PROVE  Noted(k, t, e)' <=> Noted(k, t, e) \/ (k = n + 1 /\ t = t0 /\ e = e0)
    <3>1. CASE k \in 1 .. Len(observations)
      BY <1>7, <1>9, <3>1, Zenon DEF Noted
    <3>2. CASE k = n
      BY <1>7, <1>8, <1>9, <3>2, Zenon DEF Noted
    <3>3. CASE k = n + 1
      BY <1>7, <1>8, <1>9, <3>3, Zenon DEF Noted
    <3> QED
      BY <1>7, <1>9, <3>1, <3>2, <3>3, Zenon DEF Noted
  <2> QED
    BY <2>1, Zenon
<1> QED
  BY <1>2, <1>6, <1>10, <1>11, Zenon

(* and of any other event alone.                                           *)
LEMMA OtherObserved ==
  ASSUME InputType, Input!HandleOther
  PROVE  \E n \in Nat, t0 \in Nat, e0 \in Nat :
            /\ n = Len(observations) + 1
            /\ t0 = Head(inputs).time /\ e0 = Head(inputs).event
            /\ \A k, x : CursorAt(k, x)' <=> CursorAt(k, x)
            /\ \A k, t, e : Noted(k, t, e)' <=> Noted(k, t, e) \/ (k = n /\ t = t0 /\ e = e0)
<1>0. observations \in Seq(Observation) /\ Len(observations) \in Nat
  BY DEF InputType
<1>1. Head(inputs) \in Item
  BY DEF Input!HandleOther, InputType
<1>2. PICK t0 \in Nat, e0 \in Nat : t0 = Head(inputs).time /\ e0 = Head(inputs).event
  BY <1>1, Zenon DEF Item
<1>3. PICK o \in Observation : o = <<"event", t0, e0>>
  BY Observed, Zenon
<1>4. observations' = Append(observations, o)
  BY <1>2, <1>3, Zenon DEF Input!HandleOther
<1>5. PICK n \in Nat : n = Len(observations) + 1
  BY <1>0
<1>6. /\ Len(observations') = n /\ observations'[n] = o
      /\ \A k \in 1 .. Len(observations) : observations'[k] = observations[k]
  BY <1>0, <1>4, <1>5
<1>7. /\ \A t, e : o = <<"event", t, e>> <=> t = t0 /\ e = e0
      /\ \A x : o # <<"cursor", x>>
  BY <1>3, Zenon
<1>8. /\ \A k : k \in 1 .. n <=> k \in 1 .. Len(observations) \/ k = n
      /\ n \notin 1 .. Len(observations)
  BY <1>0, <1>5
<1>9. \A k, x : CursorAt(k, x)' <=> CursorAt(k, x)
  BY <1>6, <1>7, <1>8, Zenon DEF CursorAt
<1>10. \A k, t, e : Noted(k, t, e)' <=> Noted(k, t, e) \/ (k = n /\ t = t0 /\ e = e0)
  <2>1. ASSUME NEW k, NEW t, NEW e
        PROVE  Noted(k, t, e)' <=> Noted(k, t, e) \/ (k = n /\ t = t0 /\ e = e0)
    <3>1. CASE k \in 1 .. Len(observations)
      BY <1>6, <1>8, <3>1, Zenon DEF Noted
    <3>2. CASE k = n
      <4>1. n \in 1 .. Len(observations') /\ ~ Noted(n, t, e)
        BY <1>6, <1>8, Zenon DEF Noted
      <4>2. Noted(n, t, e)' <=> o = <<"event", t, e>>
        BY <1>6, <4>1, Zenon DEF Noted
      <4> QED
        BY <1>7, <3>2, <4>1, <4>2
    <3> QED
      BY <1>6, <1>8, <3>1, <3>2, Zenon DEF Noted
  <2> QED
    BY <2>1, Zenon
<1> QED
  BY <1>2, <1>5, <1>9, <1>10, Zenon

(* The observer is told of the first.                                      *)
LEMMA NotedTaken ==
  ASSUME observations \in Seq(Observation), observations # <<>>,
         observations' = Tail(observations)
  PROVE  /\ \A t, e : Head(observations) = <<"event", t, e>> => Noted(1, t, e)
         /\ \A k, t, e : Noted(k, t, e)' <=> k \in Nat /\ k > 0 /\ Noted(k + 1, t, e)
<1>1. /\ Len(observations') + 1 = Len(observations) /\ Len(observations) \in Nat
      /\ Len(observations) > 0 /\ observations[1] = Head(observations)
      /\ \A k \in 1 .. Len(observations') : observations'[k] = observations[k + 1]
  OBVIOUS
<1> QED
  BY <1>1 DEF Noted

(* The same of the places of the cursor.                                   *)
LEMMA CursorTaken ==
  ASSUME observations \in Seq(Observation), observations # <<>>,
         observations' = Tail(observations)
  PROVE  /\ \A x : Head(observations) = <<"cursor", x>> <=> CursorAt(1, x)
         /\ \A k, x : CursorAt(k, x)' <=> k \in Nat /\ k > 0 /\ CursorAt(k + 1, x)
<1>1. /\ Len(observations') + 1 = Len(observations) /\ Len(observations) \in Nat
      /\ 1 \in 1 .. Len(observations) /\ observations[1] = Head(observations)
      /\ \A k \in 1 .. Len(observations') : observations'[k] = observations[k + 1]
  OBVIOUS
<1>2. \A k : k \in 1 .. Len(observations') <=> k \in Nat /\ k > 0
      /\ k + 1 \in 1 .. Len(observations)
  BY <1>1
<1> QED
  BY <1>1, <1>2, Zenon DEF CursorAt

(* Places count from 1.                                                    *)
LEMMA Places ==
  ASSUME InputType
  PROVE  /\ \A k, t, e : Given(k, t, e) => k \in Nat /\ k > 0
         /\ \A k, t, e : Noted(k, t, e) => k \in Nat /\ k > 0 /\ k <= Len(observations)
  BY DEF Given, Noted, InputType

(* What a step keeps that leaves what is expected as it is and puts no new *)
(* event on its way, wherever it puts the others.                          *)
LEMMA SuccessMoved ==
  ASSUME SuccessInv, UNCHANGED <<now, emitted, waitingFor, raised, seen>>,
         \A t, e : Expects(t, e)' <=> Expects(t, e),
         \A j, k, t, u, e : Noted(j, t, e)' /\ Noted(k, u, e)' => j = k,
         \A j, k, t, u, e : Given(j, t, e)' /\ Given(k, u, e)' => j = k,
         \A j, k, t, u, e : ~ (Noted(j, t, e)' /\ Given(k, u, e)'),
         \A k, t, e : Noted(k, t, e)' \/ Given(k, t, e)' => \E j : Noted(j, t, e) \/ Given(j, t, e)
  PROVE  SuccessInv'
<1>1. SuccessIsOwn'
  BY Zenon DEF SuccessInv, SuccessIsOwn, Input!SuccessIsOwn
<1>4. \A k, t, e : Noted(k, t, e)' \/ Given(k, t, e)' =>
          /\ t \in 0 .. now' /\ e \in 1 .. emitted' /\ e \notin seen'
          /\ t = now' => e = waitingFor'
          /\ \A d : Expects(t, d)' => d = e
  <2>1. ASSUME NEW k, NEW t, NEW e, Noted(k, t, e)' \/ Given(k, t, e)'
        PROVE  /\ t \in 0 .. now /\ e \in 1 .. emitted /\ e \notin seen
               /\ t = now => e = waitingFor
               /\ \A d : Expects(t, d) => d = e
    <3>1. \E j : Noted(j, t, e) \/ Given(j, t, e)
      BY <2>1, Zenon
    <3> QED
      BY <3>1, Zenon DEF SuccessInv
  <2> QED
    BY <2>1, Zenon
<1>5. \A t, e : Expects(t, e)' =>
          /\ t \in 0 .. now' /\ e \in 1 .. emitted' /\ e \notin raised'
          /\ t = now' => e = waitingFor'
  <2>1. \A t, e : Expects(t, e) =>
          /\ t \in 0 .. now /\ e \in 1 .. emitted /\ e \notin raised
          /\ t = now => e = waitingFor
    BY Zenon DEF SuccessInv
  <2> QED
    BY <2>1
<1>6. \A t, u, e : Expects(t, e)' /\ Expects(u, e)' => t = u
  BY Zenon DEF SuccessInv
<1>7. \A e \in raised' \cup seen' : e \in 1 .. emitted'
  BY Zenon DEF SuccessInv
<1> QED
  BY <1>1, <1>4, <1>5, <1>6, <1>7, Zenon DEF SuccessInv

(* So does one that leaves also the events that Mir was given.             *)
LEMMA SuccessKept ==
  ASSUME SuccessInv, UNCHANGED <<now, emitted, waitingFor, raised, seen>>,
         \A k, t, e : Given(k, t, e)' <=> Given(k, t, e),
         \A t, e : Expects(t, e)' <=> Expects(t, e),
         \A j, k, t, u, e : Noted(j, t, e)' /\ Noted(k, u, e)' => j = k,
         \A k, t, e : Noted(k, t, e)' => \E j : Noted(j, t, e)
  PROVE  SuccessInv'
<1>1. \A j, k, t, u, e : Given(j, t, e)' /\ Given(k, u, e)' => j = k
  BY Zenon DEF SuccessInv
<1>2. \A j, k, t, u, e : ~ (Noted(j, t, e)' /\ Given(k, u, e)')
  BY Zenon DEF SuccessInv
<1>3. \A k, t, e : Noted(k, t, e)' \/ Given(k, t, e)' => \E j : Noted(j, t, e) \/ Given(j, t, e)
  BY Zenon
<1> QED
  BY <1>1, <1>2, <1>3, SuccessMoved, Zenon

(* Every step of input keeps that. When a wait ends with its signal its    *)
(* event was seen and is no longer on its way; when it ends without, the   *)
(* clock has advanced: the next call's time is new either way.             *)
LEMMA SuccessNext ==
  ASSUME InputType, SuccessInv, Input!Next \/ UNCHANGED inputVars
  PROVE  SuccessInv'
<1>1. ASSUME NEW kind \in InputKinds, NEW target \in Int, NEW amount \in Int,
             Emits(kind, target, amount)
      PROVE  SuccessInv'
  <2> DEFINE i == [kind |-> kind, amount |-> amount, time |-> now, event |-> emitted + 1]
  <2>1. /\ waitingFor = 0 /\ emitted' = emitted + 1 /\ waitingFor' = emitted + 1
        /\ inputs' = Append(inputs, i)
        /\ UNCHANGED <<now, observations, raised, seen>>
        /\ expected_events' = IF \E x \in expected_events : x[1] = now THEN expected_events
                              ELSE expected_events \cup { <<now, emitted + 1>> }
    BY <1>1, Zenon DEF Emits, Input!emit_mir_event
  <2>2. i \in Item /\ i.time = now /\ i.event = emitted + 1 /\ inputs \in Seq(Item)
    BY DEF Item, InputType
  <2> HIDE DEF i
  <2>3. PICK n : \A k, t, e : Given(k, t, e)' <=> \/ Given(k, t, e)
                                                  \/ k = n /\ t = now /\ e = emitted + 1
    BY <2>1, <2>2, GivenAppended, Zenon
  <2>4. \A k, t, e : Noted(k, t, e)' <=> Noted(k, t, e)
    BY <2>1, Zenon DEF Noted
  <2>5. \A e : ~ Expects(now, e)
    BY <2>1 DEF SuccessInv
  <2>6. ~ \E x \in expected_events : x[1] = now
    <3>1. ASSUME NEW x \in expected_events, x[1] = now PROVE FALSE
      <4>1. x \in Nat \X Nat
        BY Zenon DEF InputType
      <4>2. x = <<x[1], x[2]>>
        BY <4>1
      <4> QED
        BY <2>5, <3>1, <4>2, Zenon DEF Expects
    <3> QED
      BY <3>1, Zenon
  <2>7. \A t, e : Expects(t, e)' <=> Expects(t, e) \/ (t = now /\ e = emitted + 1)
    BY <2>1, <2>6, Zenon DEF Expects
  <2>8. emitted \in Nat /\ now \in Nat
    BY Zenon DEF InputType
  <2>9. \A k, t, e : Noted(k, t, e) \/ Given(k, t, e) => t # now
    BY <2>1 DEF SuccessInv
  <2>10. SuccessIsOwn'
    BY <2>1, Zenon DEF SuccessInv, SuccessIsOwn, Input!SuccessIsOwn
  <2>11. emitted + 1 \notin raised /\ emitted + 1 \notin seen
    <3>1. \A e \in raised \cup seen : e \in 1 .. emitted
      BY Zenon DEF SuccessInv
    <3> QED
      BY <2>8, <3>1
  <2>12. \A k, t : ~ Noted(k, t, emitted + 1) /\ ~ Given(k, t, emitted + 1) /\ ~ Expects(t, emitted + 1)
    <3>1. /\ \A k, t, e : Noted(k, t, e) \/ Given(k, t, e) => e \in 1 .. emitted
          /\ \A t, e : Expects(t, e) => e \in 1 .. emitted
      BY Zenon DEF SuccessInv
    <3> QED
      BY <2>8, <3>1
  <2>13. \A j, k, t, u, e : Noted(j, t, e)' /\ Noted(k, u, e)' => j = k
    <3>1. \A j, k, t, u, e : Noted(j, t, e) /\ Noted(k, u, e) => j = k
      BY Zenon DEF SuccessInv
    <3> QED
      BY <2>4, <3>1
  <2>14. \A j, k, t, u, e : Given(j, t, e)' /\ Given(k, u, e)' => j = k
    <3>1. \A j, k, t, u, e : Given(j, t, e) /\ Given(k, u, e) => j = k
      BY Zenon DEF SuccessInv
    <3> QED
      BY <2>3, <2>12, <3>1
  <2>15. \A j, k, t, u, e : ~ (Noted(j, t, e)' /\ Given(k, u, e)')
    <3>1. \A j, k, t, u, e : ~ (Noted(j, t, e) /\ Given(k, u, e))
      BY Zenon DEF SuccessInv
    <3> QED
      BY <2>3, <2>4, <2>12, <3>1
  <2>16. \A k, t, e : Noted(k, t, e)' \/ Given(k, t, e)' =>
              /\ t \in 0 .. now' /\ e \in 1 .. emitted' /\ e \notin seen'
              /\ t = now' => e = waitingFor'
              /\ \A d : Expects(t, d)' => d = e
    <3>1. ASSUME NEW k, NEW t, NEW e, Noted(k, t, e) \/ Given(k, t, e)
          PROVE  /\ t \in 0 .. now /\ e \in 1 .. emitted' /\ e \notin seen
                 /\ t # now
                 /\ \A d : Expects(t, d)' => d = e
      <4>1. /\ t \in 0 .. now /\ e \in 1 .. emitted /\ e \notin seen
            /\ \A d : Expects(t, d) => d = e
        BY <3>1, Zenon DEF SuccessInv
      <4>2. e \in 1 .. emitted'
        BY <2>1, <2>8, <4>1
      <4>3. t # now
        BY <2>9, <3>1, Zenon
      <4> QED
        BY <2>7, <4>1, <4>2, <4>3, Zenon
    <3>2. now \in 0 .. now /\ emitted + 1 \in 1 .. emitted'
      BY <2>1, <2>8
    <3>3. \A d : Expects(now, d)' => d = emitted + 1
      BY <2>1, <2>5, <2>7
    <3>4. \A k, t, e : Noted(k, t, e)' \/ Given(k, t, e)' =>
              \/ Noted(k, t, e) \/ Given(k, t, e)
              \/ t = now /\ e = emitted + 1
      BY <2>3, <2>4, Zenon
    <3> QED
      BY <2>1, <2>11, <3>1, <3>2, <3>3, <3>4
  <2>17. \A t, e : Expects(t, e)' =>
              /\ t \in 0 .. now' /\ e \in 1 .. emitted' /\ e \notin raised'
              /\ t = now' => e = waitingFor'
    <3>1. \A t, e : Expects(t, e) => t \in 0 .. now /\ e \in 1 .. emitted /\ e \notin raised
      BY Zenon DEF SuccessInv
    <3> QED
      BY <2>1, <2>5, <2>7, <2>8, <2>11, <3>1
  <2>18. \A t, u, e : Expects(t, e)' /\ Expects(u, e)' => t = u
    <3>1. \A t, u, e : Expects(t, e) /\ Expects(u, e) => t = u
      BY Zenon DEF SuccessInv
    <3> QED
      BY <2>7, <2>12, <3>1
  <2>19. \A e \in raised' \cup seen' : e \in 1 .. emitted'
    <3>1. \A e \in raised \cup seen : e \in 1 .. emitted
      BY Zenon DEF SuccessInv
    <3> QED
      BY <2>1, <2>8, <3>1
  <2> QED
    BY <2>10, <2>13, <2>14, <2>15, <2>16, <2>17, <2>18, <2>19, Zenon DEF SuccessInv
<1>2. CASE Input!WaitRaised \/ Input!WaitTimesOut \/ Input!Tick
  <2>1. /\ UNCHANGED <<inputs, observations, expected_events, raised, seen, emitted>>
        /\ now' = now \/ now' = now + 1
    BY <1>2, Zenon DEF Input!WaitRaised, Input!WaitTimesOut, Input!Tick
  <2>2. /\ \A k, t, e : Given(k, t, e)' <=> Given(k, t, e)
        /\ \A k, t, e : Noted(k, t, e)' <=> Noted(k, t, e)
        /\ \A t, e : Expects(t, e)' <=> Expects(t, e)
    BY <2>1, Zenon DEF Given, Noted, Expects
  <2>3. now' = now => \/ waitingFor' = waitingFor
                      \/ waitingFor \in raised
    BY <1>2 DEF Input!WaitRaised, Input!WaitTimesOut, Input!Tick, InputType
  <2>4. waitingFor \in raised => waitingFor \in seen
    BY Zenon DEF SuccessInv, SuccessIsOwn, Input!SuccessIsOwn
  <2>5. SuccessIsOwn'
    BY <2>1, Zenon DEF SuccessInv, SuccessIsOwn, Input!SuccessIsOwn
  <2>6. now \in Nat
    BY Zenon DEF InputType
  <2>7. /\ \A k, t, e : Noted(k, t, e) \/ Given(k, t, e) => t \in 0 .. now
        /\ \A t, e : Expects(t, e) => t \in 0 .. now
    BY Zenon DEF SuccessInv
  <2>8. \A t : t \in 0 .. now => t \in 0 .. now' /\ (t = now' => now' = now)
    BY <2>1, <2>6
  <2>9. \A k, t, e : Noted(k, t, e) \/ Given(k, t, e) => (t = now' => e = waitingFor')
    <3>1. \A k, t, e : Noted(k, t, e) \/ Given(k, t, e) =>
              e \notin seen /\ (t = now => e = waitingFor)
      BY Zenon DEF SuccessInv
    <3> QED
      BY <2>3, <2>4, <2>7, <2>8, <3>1
  <2>10. \A t, e : Expects(t, e) => (t = now' => e = waitingFor')
    <3>1. \A t, e : Expects(t, e) => e \notin raised /\ (t = now => e = waitingFor)
      BY Zenon DEF SuccessInv
    <3> QED
      BY <2>3, <2>7, <2>8, <3>1
  <2>11. \A k, t, e : Noted(k, t, e)' \/ Given(k, t, e)' =>
              /\ t \in 0 .. now' /\ e \in 1 .. emitted' /\ e \notin seen'
              /\ t = now' => e = waitingFor'
              /\ \A d : Expects(t, d)' => d = e
    <3>1. \A k, t, e : Noted(k, t, e) \/ Given(k, t, e) =>
              e \in 1 .. emitted /\ e \notin seen /\ \A d : Expects(t, d) => d = e
      BY Zenon DEF SuccessInv
    <3> QED
      BY <2>1, <2>2, <2>7, <2>8, <2>9, <3>1
  <2>12. \A t, e : Expects(t, e)' =>
              /\ t \in 0 .. now' /\ e \in 1 .. emitted' /\ e \notin raised'
              /\ t = now' => e = waitingFor'
    <3>1. \A t, e : Expects(t, e) => e \in 1 .. emitted /\ e \notin raised
      BY Zenon DEF SuccessInv
    <3> QED
      BY <2>1, <2>2, <2>7, <2>8, <2>10, <3>1
  <2>13. /\ \A j, k, t, u, e : Noted(j, t, e)' /\ Noted(k, u, e)' => j = k
         /\ \A j, k, t, u, e : Given(j, t, e)' /\ Given(k, u, e)' => j = k
         /\ \A j, k, t, u, e : ~ (Noted(j, t, e)' /\ Given(k, u, e)')
    <3>1. /\ \A j, k, t, u, e : Noted(j, t, e) /\ Noted(k, u, e) => j = k
          /\ \A j, k, t, u, e : Given(j, t, e) /\ Given(k, u, e) => j = k
          /\ \A j, k, t, u, e : ~ (Noted(j, t, e) /\ Given(k, u, e))
      BY Zenon DEF SuccessInv
    <3> QED
      BY <2>2, <3>1
  <2>14. \A t, u, e : Expects(t, e)' /\ Expects(u, e)' => t = u
    <3>1. \A t, u, e : Expects(t, e) /\ Expects(u, e) => t = u
      BY Zenon DEF SuccessInv
    <3> QED
      BY <2>2, <3>1
  <2>15. \A e \in raised' \cup seen' : e \in 1 .. emitted'
    BY <2>1, Zenon DEF SuccessInv
  <2> QED
    BY <2>5, <2>11, <2>12, <2>13, <2>14, <2>15, Zenon DEF SuccessInv
<1>3. CASE Input!HandlePointer \/ Input!HandleOther
  <2> DEFINE h == Head(inputs)
  <2>1. /\ inputs # <<>> /\ inputs \in Seq(Item) /\ h \in Item /\ inputs' = Tail(inputs)
        /\ UNCHANGED <<now, expected_events, raised, waitingFor, emitted, seen>>
    <3>1. /\ inputs # <<>> /\ inputs' = Tail(inputs)
          /\ UNCHANGED <<now, expected_events, raised, waitingFor, emitted, seen>>
      BY <1>3, Zenon DEF Input!HandlePointer, Input!HandleOther
    <3>2. inputs \in Seq(Item)
      BY Zenon DEF InputType
    <3>3. Head(inputs) \in Item
      BY <3>1, <3>2
    <3> QED
      BY <3>1, <3>2, <3>3, Zenon
  <2>2. PICK t0, e0 \in Nat : t0 = h.time /\ e0 = h.event
    BY <2>1, Zenon DEF Item
  <2>3. /\ Given(1, t0, e0)
        /\ \A k, t, e : Given(k, t, e)' <=> k \in Nat /\ k > 0 /\ Given(k + 1, t, e)
    BY <2>1, <2>2, GivenTaken, Zenon
  <2>4. PICK n \in Nat :
           /\ n > Len(observations)
           /\ \A k, t, e : Noted(k, t, e)' <=> Noted(k, t, e) \/ (k = n /\ t = t0 /\ e = e0)
    <3>1. /\ Len(observations) + 1 \in Nat /\ Len(observations) + 1 > Len(observations)
          /\ (Len(observations) + 1) + 1 \in Nat
          /\ (Len(observations) + 1) + 1 > Len(observations)
      BY DEF InputType
    <3>2. CASE Input!HandleOther
      <4>1. PICK n \in Nat, t1 \in Nat, e1 \in Nat :
               /\ n = Len(observations) + 1
               /\ t1 = Head(inputs).time /\ e1 = Head(inputs).event
               /\ \A k, x : CursorAt(k, x)' <=> CursorAt(k, x)
               /\ \A k, t, e : Noted(k, t, e)' <=> Noted(k, t, e) \/ (k = n /\ t = t1 /\ e = e1)
        BY <3>2, OtherObserved, Zenon
      <4>2. t1 = t0 /\ e1 = e0 /\ n > Len(observations)
        BY <2>2, <3>1, <4>1, Zenon
      <4>3. \A k, t, e : Noted(k, t, e)' <=> Noted(k, t, e) \/ (k = n /\ t = t0 /\ e = e0)
        BY <4>1, <4>2, Zenon
      <4> QED
        BY <4>2, <4>3, Zenon
    <3>3. CASE Input!HandlePointer
      <4>1. PICK n \in Nat, t1 \in Nat, e1 \in Nat :
               /\ n = Len(observations) + 1
               /\ t1 = Head(inputs).time /\ e1 = Head(inputs).event
               /\ \A k, x : CursorAt(k, x)' <=> CursorAt(k, x) \/ (k = n /\ x = position')
               /\ \A k, t, e : Noted(k, t, e)' <=> Noted(k, t, e) \/ (k = n + 1 /\ t = t1 /\ e = e1)
        BY <3>3, PointerObserved, Zenon
      <4>2. t1 = t0 /\ e1 = e0 /\ n + 1 \in Nat /\ n + 1 > Len(observations)
        BY <2>2, <3>1, <4>1, Zenon
      <4>3. \A k, t, e : Noted(k, t, e)' <=> Noted(k, t, e) \/ (k = n + 1 /\ t = t0 /\ e = e0)
        BY <4>1, <4>2, Zenon
      <4> QED
        BY <4>2, <4>3, Zenon
    <3> QED
      BY <1>3, <3>2, <3>3, Zenon
  <2>5. \A t, e : Expects(t, e)' <=> Expects(t, e)
    BY <2>1, Zenon DEF Expects
  <2>7. \A k, t, e : Given(k, t, e)' => Given(k + 1, t, e) /\ k + 1 # 1
    BY <2>3
  <2>8. \A k, t : ~ Given(k, t, e0)'
    BY <2>3, <2>7, Zenon DEF SuccessInv
  <2>9. \A j, k, t, u, e : Given(j, t, e)' /\ Given(k, u, e)' => j = k
    <3>1. ASSUME NEW j, NEW k, NEW t, NEW u, NEW e, Given(j, t, e)', Given(k, u, e)'
          PROVE  j = k
      <4>1. Given(j + 1, t, e) /\ Given(k + 1, u, e) /\ j \in Nat /\ k \in Nat
        BY <2>3, <3>1, Zenon
      <4>2. j + 1 = k + 1
        BY <4>1, Zenon DEF SuccessInv
      <4> QED
        BY <4>1, <4>2
    <3> QED
      BY <3>1, Zenon
  <2>10. \A k, t, e : Noted(k, t, e) => k # n
    BY <2>4, Places DEF InputType
  <2>11. \A j, k, t, u, e : Noted(j, t, e)' /\ Noted(k, u, e)' => j = k
    <3>1. \A j, t : ~ Noted(j, t, e0)
      BY <2>3, Zenon DEF SuccessInv
    <3>2. \A j, k, t, u, e : Noted(j, t, e) /\ Noted(k, u, e) => j = k
      BY Zenon DEF SuccessInv
    <3> QED
      BY <2>4, <3>1, <3>2
  <2>12. \A j, k, t, u, e : ~ (Noted(j, t, e)' /\ Given(k, u, e)')
    <3>1. \A j, k, t, u, e : ~ (Noted(j, t, e) /\ Given(k, u, e))
      BY Zenon DEF SuccessInv
    <3> QED
      BY <2>4, <2>7, <2>8, <3>1
  <2>13. \A k, t, e : Noted(k, t, e)' \/ Given(k, t, e)' => \E j : Noted(j, t, e) \/ Given(j, t, e)
    BY <2>3, <2>4
  <2> QED
    BY <2>1, <2>5, <2>9, <2>11, <2>12, <2>13, SuccessMoved, Zenon
<1>4. CASE Input!seat_set_cursor_position \/ Input!seat_dispatch_event
  <2>1. /\ observations # <<>> /\ observations \in Seq(Observation)
        /\ Head(observations) \in Observation /\ observations' = Tail(observations)
        /\ UNCHANGED <<now, inputs, waitingFor, emitted>>
    <3>1. /\ observations # <<>> /\ observations' = Tail(observations)
          /\ UNCHANGED <<now, inputs, waitingFor, emitted>>
      BY <1>4, Zenon DEF Input!seat_set_cursor_position, Input!seat_dispatch_event
    <3>2. observations \in Seq(Observation)
      BY Zenon DEF InputType
    <3>3. Head(observations) \in Observation
      BY <3>1, <3>2
    <3> QED
      BY <3>1, <3>2, <3>3, Zenon
  <2>2. \A k, t, e : Given(k, t, e)' <=> Given(k, t, e)
    BY <2>1, Zenon DEF Given
  <2>3. /\ \A t, e : Head(observations) = <<"event", t, e>> => Noted(1, t, e)
        /\ \A k, t, e : Noted(k, t, e)' <=> k \in Nat /\ k > 0 /\ Noted(k + 1, t, e)
    BY <2>1, NotedTaken, Zenon
  <2>4. \A j, k, t, u, e : Noted(j, t, e)' /\ Noted(k, u, e)' => j = k
    <3>1. ASSUME NEW j, NEW k, NEW t, NEW u, NEW e, Noted(j, t, e)', Noted(k, u, e)'
          PROVE  j = k
      <4>1. Noted(j + 1, t, e) /\ Noted(k + 1, u, e) /\ j \in Nat /\ k \in Nat
        BY <2>3, <3>1, Zenon
      <4>2. j + 1 = k + 1
        BY <4>1, Zenon DEF SuccessInv
      <4> QED
        BY <4>1, <4>2
    <3> QED
      BY <3>1, Zenon
  <2>5. /\ \A k, t, e : Noted(k, t, e)' \/ Given(k, t, e)' =>
              \E j : Noted(j, t, e) \/ Given(j, t, e)
        /\ \A j, k, t, u, e : ~ (Noted(j, t, e)' /\ Given(k, u, e)')
    BY <2>2, <2>3, Zenon DEF SuccessInv
  <2>6. \A k, t, e : Noted(k, t, e)' => Noted(k + 1, t, e) /\ k + 1 # 1
    BY <2>3, SMTT(30)
  <2>7. CASE Input!seat_set_cursor_position
    <3>1. UNCHANGED <<expected_events, raised, seen>>
      BY <2>7, Zenon DEF Input!seat_set_cursor_position
    <3>2. \A t, e : Expects(t, e)' <=> Expects(t, e)
      BY <3>1, Zenon DEF Expects
    <3>3. \A k, t, e : Noted(k, t, e)' => \E j : Noted(j, t, e)
      BY <2>3, Zenon
    <3> QED
      BY <2>1, <2>2, <2>4, <3>1, <3>2, <3>3, SuccessKept, Zenon
  <2>8. CASE Input!seat_dispatch_event
    <3>1. PICK t0, e0 \in Nat : Head(observations) = <<"event", t0, e0>>
      BY <2>1, <2>8, Observed, Zenon DEF Input!seat_dispatch_event
    <3>2. Noted(1, t0, e0)
      BY <2>3, <3>1, Zenon
    <3> DEFINE found == { x \in expected_events : x[1] = t0 }
    <3>3. /\ raised' = raised \cup { x[2] : x \in found }
          /\ expected_events' = expected_events \ found
          /\ seen' = seen \cup {e0}
      <4>1. Head(observations)[2] = t0 /\ Head(observations)[3] = e0
        BY <3>1
      <4> QED
        BY <2>8, <4>1, Zenon DEF Input!seat_dispatch_event
    <3>4. \A t, e : Expects(t, e)' <=> Expects(t, e) /\ t # t0
      BY <3>3, Zenon DEF Expects
    <3>5. \A e : e \in raised' => e \in raised \/ Expects(t0, e)
      <4>1. ASSUME NEW x \in found PROVE Expects(t0, x[2])
        <5>1. x \in Nat \X Nat
          BY Zenon DEF InputType
        <5>2. x = <<t0, x[2]>>
          BY <5>1
        <5> QED
          BY <5>2, Zenon DEF Expects
      <4> QED
        BY <3>3, <4>1, Zenon
    <3>6. \A e : Expects(t0, e) => e = e0
      BY <3>2, Zenon DEF SuccessInv
    <3>7. SuccessIsOwn'
      BY <3>3, <3>5, <3>6, Zenon DEF SuccessInv, SuccessIsOwn, Input!SuccessIsOwn
    <3>8. \A k, t, e : Noted(k, t, e)' \/ Given(k, t, e)' => e # e0
      <4>1. /\ \A j, k, t, u, e : Noted(j, t, e) /\ Noted(k, u, e) => j = k
            /\ \A j, k, t, u, e : ~ (Noted(j, t, e) /\ Given(k, u, e))
        BY Zenon DEF SuccessInv
      <4> QED
        BY <2>2, <2>6, <3>2, <4>1
    <3>9. \A k, t, e : Noted(k, t, e)' \/ Given(k, t, e)' => e \notin seen'
      <4>1. \A k, t, e : Noted(k, t, e) \/ Given(k, t, e) => e \notin seen
        BY Zenon DEF SuccessInv
      <4> QED
        BY <2>5, <3>3, <3>8, <4>1, Zenon
    <3>10. \A t, e : Expects(t, e)' => e \notin raised'
      BY <3>4, <3>5, Zenon DEF SuccessInv
    <3>11. \A e \in raised' \cup seen' : e \in 1 .. emitted
      <4>1. e0 \in 1 .. emitted /\ \A e : Expects(t0, e) => e \in 1 .. emitted
        BY <3>2, Zenon DEF SuccessInv
      <4>2. \A e \in raised \cup seen : e \in 1 .. emitted
        BY Zenon DEF SuccessInv
      <4> QED
        BY <3>3, <3>5, <4>1, <4>2, Zenon
    <3>12. \A k, t, e : Noted(k, t, e)' \/ Given(k, t, e)' =>
              /\ t \in 0 .. now' /\ e \in 1 .. emitted'
              /\ t = now' => e = waitingFor'
              /\ \A d : Expects(t, d)' => d = e
      <4>1. ASSUME NEW k, NEW t, NEW e, Noted(k, t, e)' \/ Given(k, t, e)'
            PROVE  /\ t \in 0 .. now /\ e \in 1 .. emitted
                   /\ t = now => e = waitingFor
                   /\ \A d : Expects(t, d) => d = e
        <5>1. \E j : Noted(j, t, e) \/ Given(j, t, e)
          BY <2>5, <4>1, Zenon
        <5> QED
          BY <5>1, Zenon DEF SuccessInv
      <4> QED
        BY <2>1, <3>4, <4>1, Zenon
    <3>13. /\ \A t, e : Expects(t, e)' =>
                t \in 0 .. now' /\ e \in 1 .. emitted' /\ (t = now' => e = waitingFor')
           /\ \A t, u, e : Expects(t, e)' /\ Expects(u, e)' => t = u
      BY <2>1, <3>4, Zenon DEF SuccessInv
    <3>14. \A j, k, t, u, e : Given(j, t, e)' /\ Given(k, u, e)' => j = k
      BY <2>2, Zenon DEF SuccessInv
    <3>15. \A k, t, e : Noted(k, t, e)' \/ Given(k, t, e)' =>
              /\ t \in 0 .. now' /\ e \in 1 .. emitted' /\ e \notin seen'
              /\ t = now' => e = waitingFor'
              /\ \A d : Expects(t, d)' => d = e
      BY <3>9, <3>12, Zenon
    <3>16. \A t, e : Expects(t, e)' =>
              /\ t \in 0 .. now' /\ e \in 1 .. emitted' /\ e \notin raised'
              /\ t = now' => e = waitingFor'
      BY <3>10, <3>13
    <3>17. \A e \in raised' \cup seen' : e \in 1 .. emitted'
      BY <2>1, <3>11, Zenon
    <3>18. \A j, k, t, u, e : ~ (Noted(j, t, e)' /\ Given(k, u, e)')
      BY <2>2, <2>5, Zenon DEF SuccessInv
    <3> QED
      BY <2>4, <3>7, <3>13, <3>14, <3>15, <3>16, <3>17, <3>18, Zenon DEF SuccessInv
  <2> QED
    BY <1>4, <2>7, <2>8, Zenon
<1>5. CASE UNCHANGED inputVars
  <2>1. /\ \A k, t, e : Given(k, t, e)' <=> Given(k, t, e)
        /\ \A k, t, e : Noted(k, t, e)' <=> Noted(k, t, e)
        /\ \A t, e : Expects(t, e)' <=> Expects(t, e)
    BY <1>5, Zenon DEF Given, Noted, Expects, inputVars
  <2>2. \A j, k, t, u, e : Noted(j, t, e)' /\ Noted(k, u, e)' => j = k
    <3>1. \A j, k, t, u, e : Noted(j, t, e) /\ Noted(k, u, e) => j = k
      BY Zenon DEF SuccessInv
    <3> QED
      BY <2>1, <3>1
  <2>4. \A k, t, e : Noted(k, t, e)' => \E j : Noted(j, t, e)
    BY <2>1, Zenon
  <2>3. UNCHANGED <<now, emitted, waitingFor, raised, seen>>
    BY <1>5, Zenon DEF inputVars
  <2> QED
    BY <2>1, <2>2, <2>3, <2>4, SuccessKept, Zenon
<1> QED
  BY <1>1, <1>2, <1>3, <1>4, <1>5, InputSteps, Zenon

-----------------------------------------------------------------------------
(* Input: the pointer lands where it was sent.                             *)

(* What Mir has still to tell: the last place of the cursor is where the   *)
(* cursor is, the integration's cursor is there when there is none to be   *)
(* told, and the event that moved the cursor is told after its place.      *)
CursorInv ==
    /\ \A k, x : CursorAt(k, x) /\ (\A j, y : CursorAt(j, y) => j <= k) => x = position
    /\ (\A k, x : ~ CursorAt(k, x)) => cursor = position
    /\ \A j, x : CursorAt(j, x) => \E k, t, e : k > j /\ Noted(k, t, e)

(* While no wait has timed out the only event on its way is the one the    *)
(* test's thread waits for.                                                *)
AwaitedInv ==
    timeouts = 0 => \A k, t, e : Given(k, t, e) \/ Noted(k, t, e) => e = waitingFor

(* An absolute movement called when Mir was at rest is the only input, with *)
(* the distance from where the cursor really is, or has been handled.      *)
OnItsWay ==
    /\ last.ok = FALSE /\ last.target \in 0 .. Edge
    /\ \E i \in Item : /\ inputs = <<i>> /\ i.kind = "absolute"
                       /\ i.amount = last.target - position
                       /\ waitingFor # 0 => i.event = waitingFor

Landed == inputs = <<>> /\ position = last.target

LandInv ==
    /\ last \in [kind : InputKinds \cup {"none"}, target : Int, ok : BOOLEAN, settled : BOOLEAN]
    /\ last.settled = TRUE /\ last.kind = "absolute" => OnItsWay \/ Landed
    /\ timeouts = 0 => last.settled = TRUE

(* Every step of input keeps the first.                                    *)
LEMMA CursorNext ==
  ASSUME InputType, CursorInv, Input!Next \/ UNCHANGED inputVars
  PROVE  CursorInv'
<1>0. /\ observations \in Seq(Observation) /\ Len(observations) \in Nat
      /\ \A k, x : CursorAt(k, x) => k \in 1 .. Len(observations)
      /\ \A k, t, e : Noted(k, t, e) => k \in 1 .. Len(observations)
  BY DEF InputType, CursorAt, Noted
<1>1. CASE UNCHANGED <<observations, position, cursor>>
  <2>1. /\ \A k, x : CursorAt(k, x)' <=> CursorAt(k, x)
        /\ \A k, t, e : Noted(k, t, e)' <=> Noted(k, t, e)
        /\ position' = position /\ cursor' = cursor
    BY <1>1, Zenon DEF CursorAt, Noted
  <2> QED
    BY <2>1, Zenon DEF CursorInv
<1>2. CASE Input!HandlePointer
  <2>1. PICK n \in Nat, t0 \in Nat, e0 \in Nat :
           /\ n = Len(observations) + 1
           /\ t0 = Head(inputs).time /\ e0 = Head(inputs).event
           /\ \A k, x : CursorAt(k, x)' <=> CursorAt(k, x) \/ (k = n /\ x = position')
           /\ \A k, t, e : Noted(k, t, e)' <=> Noted(k, t, e) \/ (k = n + 1 /\ t = t0 /\ e = e0)
    BY <1>2, PointerObserved, Zenon
  <2>2. /\ n + 1 > n /\ \A k \in 1 .. Len(observations) : n + 1 > k /\ ~ (n <= k)
    BY <1>0, <2>1
  <2>3. CursorAt(n, position)' /\ Noted(n + 1, t0, e0)'
    BY <2>1, Zenon
  <2>4. \A k, x : CursorAt(k, x)' => n + 1 > k
    BY <1>0, <2>1, <2>2, Zenon
  <2>5. ASSUME NEW k, NEW x, CursorAt(k, x)', \A j, y : CursorAt(j, y)' => j <= k
        PROVE  x = position'
    BY <1>0, <2>1, <2>2, <2>3, <2>5, Zenon
  <2> QED
    BY <2>3, <2>4, <2>5, Zenon DEF CursorInv
<1>3. CASE Input!HandleOther
  <2>1. PICK n \in Nat, t0 \in Nat, e0 \in Nat :
           /\ n = Len(observations) + 1
           /\ t0 = Head(inputs).time /\ e0 = Head(inputs).event
           /\ \A k, x : CursorAt(k, x)' <=> CursorAt(k, x)
           /\ \A k, t, e : Noted(k, t, e)' <=> Noted(k, t, e) \/ (k = n /\ t = t0 /\ e = e0)
    BY <1>3, OtherObserved, Zenon
  <2>2. UNCHANGED <<position, cursor>>
    BY <1>3, Zenon DEF Input!HandleOther
  <2> QED
    BY <2>1, <2>2, Zenon DEF CursorInv
<1>4. CASE Input!seat_set_cursor_position \/ Input!seat_dispatch_event
  <2>1. /\ observations # <<>> /\ observations' = Tail(observations) /\ UNCHANGED position
        /\ Head(observations) \in Observation
    <3>1. observations # <<>> /\ observations' = Tail(observations) /\ UNCHANGED position
      BY <1>4, Zenon DEF Input!seat_set_cursor_position, Input!seat_dispatch_event
    <3> QED
      BY <1>0, <3>1
  <2>2. /\ \A x : Head(observations) = <<"cursor", x>> <=> CursorAt(1, x)
        /\ \A k, x : CursorAt(k, x)' <=> k \in Nat /\ k > 0 /\ CursorAt(k + 1, x)
        /\ \A k, t, e : Noted(k, t, e)' <=> k \in Nat /\ k > 0 /\ Noted(k + 1, t, e)
    BY <1>0, <2>1, NotedTaken, CursorTaken, Zenon
  <2>3. \A j, y : CursorAt(j, y) => j = 1 \/ \E i \in Nat : i > 0 /\ i + 1 = j
    <3>1. \A j \in 1 .. Len(observations) : j = 1 \/ (j - 1 \in Nat /\ j - 1 > 0 /\ (j - 1) + 1 = j)
      BY <1>0
    <3> QED
      BY <1>0, <3>1, Zenon
  <2>4. ASSUME NEW k, NEW x, CursorAt(k, x)', \A j, y : CursorAt(j, y)' => j <= k
        PROVE  x = position
    <3>1. k \in Nat /\ CursorAt(k + 1, x)
      BY <2>2, <2>4, Zenon
    <3>2. ASSUME NEW j, NEW y, CursorAt(j, y) PROVE j <= k + 1
      <4>1. CASE j = 1
        BY <3>1, <4>1
      <4>2. ASSUME NEW i \in Nat, i > 0, i + 1 = j PROVE j <= k + 1
        <5>1. i <= k
          BY <2>2, <2>4, <3>2, <4>2, Zenon
        <5> QED
          BY <3>1, <4>2, <5>1
      <4> QED
        BY <2>3, <3>2, <4>1, <4>2, Zenon
    <3> QED
      BY <3>1, <3>2, Zenon DEF CursorInv
  <2>5. ASSUME \A k, x : ~ CursorAt(k, x)' PROVE cursor' = position
    <3>1. ASSUME NEW j, NEW y, CursorAt(j, y) PROVE j = 1
      BY <2>2, <2>3, <2>5, <3>1, Zenon
    <3>2. CASE Input!seat_set_cursor_position
      <4>0. Head(observations)[1] = "cursor"
        BY <3>2, Zenon DEF Input!seat_set_cursor_position
      <4>1. PICK x : Head(observations) = <<"cursor", x>>
        BY <2>1, <4>0, Observed, Zenon
      <4>2. CursorAt(1, x)
        BY <2>2, <4>1, Zenon
      <4>3. \A j, y : CursorAt(j, y) => j <= 1
        BY <3>1
      <4>4. x = position
        BY <4>2, <4>3, Zenon DEF CursorInv
      <4>5. Head(observations)[2] = x
        BY <4>1, CursorParts, Zenon
      <4> QED
        BY <3>2, <4>4, <4>5, Zenon DEF Input!seat_set_cursor_position
    <3>3. CASE Input!seat_dispatch_event
      <4>1. UNCHANGED cursor /\ Head(observations)[1] = "event"
        BY <3>3, Zenon DEF Input!seat_dispatch_event
      <4>2. \A x : Head(observations) # <<"cursor", x>>
        BY <4>1
      <4>3. \A k, x : ~ CursorAt(k, x)
        BY <2>2, <3>1, <4>2, Zenon
      <4> QED
        BY <4>1, <4>3, Zenon DEF CursorInv
    <3> QED
      BY <1>4, <3>2, <3>3, Zenon
  <2>6. ASSUME NEW j, NEW x, CursorAt(j, x)' PROVE \E k, t, e : k > j /\ Noted(k, t, e)'
    <3>1. j \in Nat /\ j > 0 /\ CursorAt(j + 1, x)
      BY <2>2, <2>6, Zenon
    <3>2. PICK k, t, e : k > j + 1 /\ Noted(k, t, e)
      BY <3>1, Zenon DEF CursorInv
    <3>3. PICK i \in Nat : i = k - 1 /\ i > j /\ i > 0 /\ i + 1 = k
      BY <1>0, <3>1, <3>2
    <3> QED
      BY <2>2, <3>2, <3>3, Zenon
  <2> QED
    BY <2>1, <2>4, <2>5, <2>6, Zenon DEF CursorInv
<1>5. ASSUME NEW kind, NEW target, NEW amount, Emits(kind, target, amount)
      PROVE  UNCHANGED <<observations, position, cursor>>
  BY <1>5, Zenon DEF Emits, Input!emit_mir_event
<1> QED
  BY <1>1, <1>2, <1>3, <1>4, <1>5, InputSteps, Zenon
     DEF Input!WaitRaised, Input!WaitTimesOut, Input!Tick, inputVars

(* Every step of input keeps the second, as long as none is a timeout.     *)
LEMMA AwaitedNext ==
  ASSUME InputType, SuccessInv, AwaitedInv, timeouts \in Nat, timeouts' = 0 => timeouts = 0,
         Input!Next \/ UNCHANGED inputVars
  PROVE  AwaitedInv'
<1> SUFFICES ASSUME timeouts = 0, timeouts' = 0, NEW k, NEW t, NEW e,
                    Given(k, t, e)' \/ Noted(k, t, e)'
             PROVE  e = waitingFor'
  BY Zenon DEF AwaitedInv
<1>0. \A j, u, d : Given(j, u, d) \/ Noted(j, u, d) => /\ d = waitingFor /\ d # 0 /\ d \notin seen
  <2>1. \A j, u, d : Given(j, u, d) \/ Noted(j, u, d) =>
           d = waitingFor /\ d \in 1 .. emitted /\ d \notin seen
    BY Zenon DEF AwaitedInv, SuccessInv
  <2>2. \A d : d \in 1 .. emitted => d # 0
    BY DEF InputType
  <2> QED
    BY <2>1, <2>2
<1>1. ASSUME NEW kind \in InputKinds, NEW target \in Int, NEW amount \in Int,
             Emits(kind, target, amount)
      PROVE  e = waitingFor'
  <2> DEFINE i == [kind |-> kind, amount |-> amount, time |-> now, event |-> emitted + 1]
  <2>1. /\ waitingFor = 0 /\ waitingFor' = emitted + 1 /\ inputs' = Append(inputs, i)
        /\ UNCHANGED observations
    BY <1>1, Zenon DEF Emits, Input!emit_mir_event
  <2>2. i \in Item /\ i.event = emitted + 1 /\ inputs \in Seq(Item)
    BY DEF Item, InputType
  <2> HIDE DEF i
  <2>3. Given(k, t, e)' => Given(k, t, e) \/ e = emitted + 1
    BY <2>1, <2>2, GivenAppended, Zenon
  <2>4. Noted(k, t, e)' => Noted(k, t, e)
    BY <2>1, Zenon DEF Noted
  <2> QED
    BY <1>0, <2>1, <2>3, <2>4, Zenon
<1>2. CASE Input!WaitRaised
  <2>1. waitingFor \in seen
    BY <1>2, Zenon DEF Input!WaitRaised, SuccessInv, SuccessIsOwn, Input!SuccessIsOwn
  <2>2. Given(k, t, e) \/ Noted(k, t, e)
    BY <1>2, Zenon DEF Input!WaitRaised, Given, Noted
  <2> QED
    BY <1>0, <2>1, <2>2, Zenon
<1>3. CASE Input!WaitTimesOut
  BY <1>3 DEF Input!WaitTimesOut
<1>4. CASE UNCHANGED <<inputs, observations, waitingFor>>
  <2>1. (Given(k, t, e)' => Given(k, t, e)) /\ (Noted(k, t, e)' => Noted(k, t, e))
    BY <1>4, Zenon DEF Given, Noted
  <2>2. e = waitingFor
    BY <1>0, <2>1
  <2> QED
    BY <1>4, <2>2
<1>5. CASE Input!HandlePointer \/ Input!HandleOther
  <2>1. /\ inputs # <<>> /\ inputs' = Tail(inputs) /\ UNCHANGED waitingFor /\ inputs \in Seq(Item)
    BY <1>5, Zenon DEF Input!HandlePointer, Input!HandleOther, InputType
  <2>2. PICK t0, e0 : t0 = Head(inputs).time /\ e0 = Head(inputs).event
    BY Zenon
  <2>3. /\ Given(1, t0, e0)
        /\ Given(k, t, e)' => Given(k + 1, t, e)
    BY <2>1, <2>2, GivenTaken, Zenon
  <2>4. Noted(k, t, e)' => Noted(k, t, e) \/ e = e0
    <3>1. CASE Input!HandlePointer
      <4>1. PICK n \in Nat, t1 \in Nat, e1 \in Nat :
               /\ n = Len(observations) + 1
               /\ t1 = Head(inputs).time /\ e1 = Head(inputs).event
               /\ \A j, x : CursorAt(j, x)' <=> CursorAt(j, x) \/ (j = n /\ x = position')
               /\ \A j, u, d : Noted(j, u, d)' <=> Noted(j, u, d) \/ (j = n + 1 /\ u = t1 /\ d = e1)
        BY <3>1, PointerObserved, Zenon
      <4> QED
        BY <2>2, <4>1, Zenon
    <3>2. CASE Input!HandleOther
      <4>1. PICK n \in Nat, t1 \in Nat, e1 \in Nat :
               /\ n = Len(observations) + 1
               /\ t1 = Head(inputs).time /\ e1 = Head(inputs).event
               /\ \A j, x : CursorAt(j, x)' <=> CursorAt(j, x)
               /\ \A j, u, d : Noted(j, u, d)' <=> Noted(j, u, d) \/ (j = n /\ u = t1 /\ d = e1)
        BY <3>2, OtherObserved, Zenon
      <4> QED
        BY <2>2, <4>1, Zenon
    <3> QED
      BY <1>5, <3>1, <3>2, Zenon
  <2>5. e = waitingFor
    <3>1. e0 = waitingFor
      BY <1>0, <2>3
    <3> QED
      BY <1>0, <2>3, <2>4, <3>1
  <2> QED
    BY <2>1, <2>5
<1>6. CASE Input!seat_set_cursor_position \/ Input!seat_dispatch_event
  <2>1. /\ observations # <<>> /\ observations' = Tail(observations)
        /\ observations \in Seq(Observation) /\ UNCHANGED <<inputs, waitingFor>>
    BY <1>6, Zenon DEF Input!seat_set_cursor_position, Input!seat_dispatch_event, InputType
  <2>2. Noted(k, t, e)' => Noted(k + 1, t, e)
    BY <2>1, NotedTaken, Zenon
  <2>3. Given(k, t, e)' => Given(k, t, e)
    BY <2>1, Zenon DEF Given
  <2>4. e = waitingFor
    BY <1>0, <2>2, <2>3
  <2> QED
    BY <2>1, <2>4
<1> QED
  BY <1>1, <1>2, <1>3, <1>4, <1>5, <1>6, InputSteps, Zenon DEF Input!Tick, inputVars

(* Mir is at rest, until a wait times out, when the test's thread does not *)
(* wait; and when it is, the integration knows where the cursor is.        *)
LEMMA Resting ==
  ASSUME InputType, SuccessInv, CursorInv, AwaitedInv
  PROVE  /\ timeouts = 0 /\ waitingFor = 0 => Input!Settled
         /\ Input!Settled => inputs = <<>> /\ cursor = position
<1>1. ASSUME timeouts = 0, waitingFor = 0 PROVE Input!Settled
  <2>1. \A k, t, e : ~ Given(k, t, e) /\ ~ Noted(k, t, e)
    <3>1. \A k, t, e : Given(k, t, e) \/ Noted(k, t, e) => e = 0 /\ e \in 1 .. emitted
      BY <1>1, Zenon DEF AwaitedInv, SuccessInv
    <3>2. 0 \notin 1 .. emitted
      BY DEF InputType
    <3> QED
      BY <3>1, <3>2, Zenon
  <2>2. \A k, x : ~ CursorAt(k, x)
    BY <2>1, Zenon DEF CursorInv
  <2>3. inputs = <<>>
    <3>1. inputs # <<>> => 1 \in 1 .. Len(inputs)
      BY DEF InputType
    <3> QED
      BY <2>1, <3>1, Zenon DEF Given
  <2>4. ASSUME NEW n \in DOMAIN observations PROVE observations[n][1] # "cursor"
    <3>1. n \in 1 .. Len(observations) /\ observations[n] \in Observation
      BY DEF InputType
    <3>2. ASSUME observations[n][1] = "cursor" PROVE CursorAt(n, observations[n][2])
      BY <3>1, <3>2, Observed, Zenon DEF CursorAt
    <3> QED
      BY <2>2, <3>2, Zenon
  <2> QED
    BY <2>3, <2>4, Zenon DEF Input!Settled
<1>2. ASSUME Input!Settled PROVE inputs = <<>> /\ cursor = position
  <2>1. ASSUME NEW k, NEW x, CursorAt(k, x) PROVE FALSE
    <3>1. k \in DOMAIN observations /\ observations[k] = <<"cursor", x>>
      BY <2>1 DEF CursorAt, InputType
    <3>2. observations[k][1] = "cursor"
      BY <3>1, CursorParts, Zenon
    <3> QED
      BY <1>2, <3>1, <3>2, Zenon DEF Input!Settled
  <2> QED
    BY <1>2, <2>1, Zenon DEF Input!Settled, CursorInv
<1> QED
  BY <1>1, <1>2, Zenon

(* Every step of input keeps the third.                                    *)
LEMMA LandNext ==
  ASSUME InputType, SuccessInv, CursorInv, AwaitedInv, LandInv, timeouts' = 0 => timeouts = 0,
         Input!Next \/ UNCHANGED inputVars
  PROVE  LandInv'
<1>1. ASSUME NEW kind \in InputKinds, NEW target \in Int, NEW amount \in Int,
             Emits(kind, target, amount)
      PROVE  LandInv'
  <2>0. PICK s \in BOOLEAN : s = Input!Settled /\ (s = TRUE => Input!Settled)
    BY Zenon DEF Input!Settled
  <2>1. /\ waitingFor = 0 /\ waitingFor' = emitted + 1
        /\ inputs' = Append(inputs, [kind |-> kind, amount |-> amount, time |-> now,
                                     event |-> emitted + 1])
        /\ last' = [kind |-> kind, target |-> target, ok |-> FALSE, settled |-> s]
        /\ UNCHANGED <<position, timeouts>>
    BY <1>1, <2>0, Zenon DEF Emits, Input!emit_mir_event
  <2>2. /\ last' \in [kind : InputKinds \cup {"none"}, target : Int, ok : BOOLEAN,
                      settled : BOOLEAN]
        /\ last'.kind = kind /\ last'.target = target /\ last'.ok = FALSE /\ last'.settled = s
    BY <2>1, Zenon
  <2>3. timeouts' = 0 => s = TRUE
    <3>1. ASSUME timeouts' = 0 PROVE Input!Settled
      BY <2>1, <3>1, Resting, Zenon
    <3> QED
      BY <2>0, <3>1, Zenon
  <2>4. ASSUME s = TRUE, kind = "absolute" PROVE OnItsWay'
    <3>1. PICK i \in Item : i = [kind |-> kind, amount |-> amount, time |-> now,
                                 event |-> emitted + 1]
      <4>1. now \in Nat /\ emitted + 1 \in Nat
        BY DEF InputType
      <4> QED
        BY <4>1, Zenon DEF Item
    <3>2. i.kind = kind /\ i.amount = amount /\ i.event = emitted + 1
      BY <3>1, Zenon
    <3>3. inputs = <<>> /\ cursor = position
      BY <2>0, <2>4, Resting, Zenon
    <3>4. inputs' = <<i>>
      <4>1. inputs' = Append(<<>>, i)
        BY <2>1, <3>1, <3>3, Zenon
      <4>2. Append(<<>>, i) = <<i>>
        OBVIOUS
      <4> QED
        BY <4>1, <4>2, Zenon
    <3>5. target \in 0 .. Edge /\ amount = target - position
      BY <1>1, <2>4, <3>3, Zenon DEF Emits
    <3> QED
      BY <2>1, <2>2, <2>4, <3>2, <3>4, <3>5, Zenon DEF OnItsWay
  <2> QED
    BY <2>2, <2>3, <2>4, Zenon DEF LandInv
<1>2. CASE Input!WaitRaised
  <2>1. /\ waitingFor \in raised /\ last' = [last EXCEPT !.ok = TRUE]
        /\ UNCHANGED <<inputs, position, timeouts>>
    BY <1>2, Zenon DEF Input!WaitRaised
  <2>2. /\ last' \in [kind : InputKinds \cup {"none"}, target : Int, ok : BOOLEAN,
                      settled : BOOLEAN]
        /\ last'.kind = last.kind /\ last'.target = last.target /\ last'.settled = last.settled
    BY <2>1, Zenon DEF LandInv
  <2>3. waitingFor \in seen /\ waitingFor \in 1 .. emitted
    BY <2>1, Zenon DEF SuccessInv, SuccessIsOwn, Input!SuccessIsOwn
  <2>4. ~ OnItsWay
    <3>1. ASSUME NEW i \in Item, inputs = <<i>>, i.event = waitingFor PROVE FALSE
      <4>1. Given(1, i.time, waitingFor)
        BY <3>1 DEF Given
      <4> QED
        BY <2>3, <4>1, Zenon DEF SuccessInv
    <3>2. waitingFor # 0
      BY <2>3 DEF InputType
    <3> QED
      BY <3>1, <3>2, Zenon DEF OnItsWay
  <2> QED
    BY <2>1, <2>2, <2>4, Zenon DEF LandInv, Landed
<1>3. CASE Input!WaitTimesOut
  BY <1>3, Zenon DEF Input!WaitTimesOut, LandInv, OnItsWay, Landed
<1>4. CASE UNCHANGED <<inputs, position, waitingFor, last>>
  BY <1>4, Zenon DEF LandInv, OnItsWay, Landed
<1>5. CASE Input!HandlePointer
  <2>1. /\ inputs # <<>> /\ inputs' = Tail(inputs)
        /\ position' = Input!Clamped(position + Head(inputs).amount)
        /\ UNCHANGED <<waitingFor, last, timeouts>>
    BY <1>5, Zenon DEF Input!HandlePointer
  <2>2. ASSUME OnItsWay PROVE Landed'
    <3>1. PICK i \in Item : inputs = <<i>> /\ i.amount = last.target - position
      BY <2>2, Zenon DEF OnItsWay
    <3>2. Head(inputs) = i /\ inputs' = <<>>
      BY <2>1, <3>1
    <3>3. position' = Input!Clamped(position + (last.target - position))
      BY <2>1, <3>1, <3>2, Zenon
    <3>4. last.target \in 0 .. Edge
      BY <2>2, Zenon DEF OnItsWay
    <3>5. position' = last.target
      BY <3>3, <3>4, EdgeAssumption DEF Input!Clamped, InputType
    <3> QED
      BY <2>1, <3>2, <3>5, Zenon DEF Landed
  <2> QED
    BY <2>1, <2>2, Zenon DEF LandInv, Landed
<1>6. CASE Input!HandleOther
  <2>1. /\ inputs # <<>> /\ Head(inputs).kind # "absolute" /\ UNCHANGED <<last, timeouts>>
    BY <1>6, Zenon DEF Input!HandleOther
  <2>2. ~ OnItsWay
    <3>1. ASSUME NEW i \in Item, inputs = <<i>> PROVE Head(inputs) = i
      BY <3>1
    <3> QED
      BY <2>1, <3>1, Zenon DEF OnItsWay
  <2> QED
    BY <2>1, <2>2, Zenon DEF LandInv, Landed
<1> QED
  BY <1>1, <1>2, <1>3, <1>4, <1>5, <1>6, InputSteps, Zenon
     DEF Input!Tick, Input!seat_set_cursor_position, Input!seat_dispatch_event, inputVars

-----------------------------------------------------------------------------
(* Input: a finger is lifted where it is.                                  *)

(* A touch event at place k of the inputs.                                 *)
Touches(k) == inputs[k].kind \in {"down", "motion"}

(* A release at x is at the place of the last touch event before k, or     *)
(* where Mir has the contact if there is none.                             *)
Follows(k, x) ==
    /\ \A j \in 1 .. Len(inputs) :
          j < k /\ Touches(j) /\ (\A i \in 1 .. Len(inputs) : j < i /\ i < k => ~ Touches(i))
             => inputs[j].amount = x
    /\ (\A j \in 1 .. Len(inputs) : j < k => ~ Touches(j)) =>
          touched = Input!NotTouching \/ touched = x

(* Every release still to be handled is where the contact will be, and the *)
(* next one, at last_x, would be.                                          *)
ReleaseInv ==
    /\ Input!ReleaseInPlace
    /\ \A k \in 1 .. Len(inputs) : inputs[k].kind = "up" => Follows(k, inputs[k].amount)
    /\ Follows(Len(inputs) + 1, last_x)

(* Taking the first event keeps that for the others.                       *)
LEMMA FollowsTaken ==
  ASSUME inputs \in Seq(Item), inputs # <<>>, inputs' = Tail(inputs),
         NEW k \in 1 .. Len(inputs), NEW x, Follows(k + 1, x),
         Touches(1) => touched' = Input!NotTouching \/ touched' = inputs[1].amount,
         ~ Touches(1) => touched' = Input!NotTouching \/ touched' = touched
  PROVE  Follows(k, x)'
<1>1. /\ Len(inputs') + 1 = Len(inputs) /\ Len(inputs) \in Nat /\ Len(inputs) > 0
      /\ Len(inputs') \in Nat
      /\ \A j \in 1 .. Len(inputs') : inputs'[j] = inputs[j + 1]
  OBVIOUS
<1>2. \A j \in 1 .. Len(inputs') : Touches(j)' <=> Touches(j + 1)
  BY <1>1, Zenon DEF Touches
<1>3. \A j \in 2 .. Len(inputs) : \E i \in 1 .. Len(inputs') : i + 1 = j
  <2>1. ASSUME NEW j \in 2 .. Len(inputs) PROVE \E i \in 1 .. Len(inputs') : i + 1 = j
    <3>1. j - 1 \in 1 .. Len(inputs') /\ (j - 1) + 1 = j
      BY <1>1
    <3> QED
      BY <3>1, Zenon
  <2> QED
    BY <2>1, Zenon
<1>4. ASSUME NEW j \in 1 .. Len(inputs'), j < k, Touches(j)',
             \A i \in 1 .. Len(inputs') : j < i /\ i < k => ~ Touches(i)'
      PROVE  inputs'[j].amount = x
  <2>1. j + 1 \in 1 .. Len(inputs) /\ j + 1 < k + 1 /\ Touches(j + 1)
    BY <1>1, <1>2, <1>4
  <2>2. ASSUME NEW n \in 1 .. Len(inputs), j + 1 < n, n < k + 1 PROVE ~ Touches(n)
    <3>1. PICK i \in 1 .. Len(inputs') : i + 1 = n
      BY <1>1, <1>3, <2>2
    <3>2. j < i /\ i < k
      BY <1>1, <2>2, <3>1
    <3> QED
      BY <1>2, <1>4, <3>1, <3>2, Zenon
  <2>3. inputs[j + 1].amount = x
    BY <2>1, <2>2, Zenon DEF Follows
  <2> QED
    BY <1>1, <2>3, Zenon
<1>5. ASSUME \A j \in 1 .. Len(inputs') : j < k => ~ Touches(j)'
      PROVE  touched' = Input!NotTouching \/ touched' = x
  <2>1. ASSUME NEW n \in 1 .. Len(inputs), 1 < n, n < k + 1 PROVE ~ Touches(n)
    <3>1. PICK i \in 1 .. Len(inputs') : i + 1 = n
      BY <1>1, <1>3, <2>1
    <3>2. i < k
      BY <1>1, <2>1, <3>1
    <3> QED
      BY <1>2, <1>5, <3>1, <3>2, Zenon
  <2>2. CASE Touches(1)
    <3>1. inputs[1].amount = x
      BY <1>1, <2>1, <2>2 DEF Follows
    <3> QED
      BY <2>2, <3>1, Zenon
  <2>3. CASE ~ Touches(1)
    <3>1. touched = Input!NotTouching \/ touched = x
      BY <1>1, <2>1, <2>3 DEF Follows
    <3> QED
      BY <2>3, <3>1, Zenon
  <2> QED
    BY <2>2, <2>3, Zenon
<1> QED
  BY <1>4, <1>5, Zenon DEF Follows, Input!NotTouching

(* Every step of input keeps that, timeouts included.                      *)
LEMMA ReleaseNext ==
  ASSUME InputType, ReleaseInv, Input!Next \/ UNCHANGED inputVars
  PROVE  ReleaseInv'
<1>1. ASSUME NEW kind \in InputKinds, NEW target \in Int, NEW amount \in Int,
             Emits(kind, target, amount)
      PROVE  ReleaseInv'
  <2>1. PICK i \in Item : i.kind = kind /\ i.amount = amount /\ inputs' = Append(inputs, i)
    <3> DEFINE it == [kind |-> kind, amount |-> amount, time |-> now, event |-> emitted + 1]
    <3>1. it \in Item /\ it.kind = kind /\ it.amount = amount
      <4>1. now \in Nat /\ emitted + 1 \in Nat
        BY DEF InputType
      <4> QED
        BY <4>1, Zenon DEF Item
    <3>2. inputs' = Append(inputs, it)
      BY <1>1, Zenon DEF Emits, Input!emit_mir_event
    <3> QED
      BY <3>1, <3>2, Zenon
  <2>2. /\ UNCHANGED <<touched, releasedAt>> /\ (kind = "up" => amount = last_x)
        /\ kind \in {"down", "motion"} => last_x' = amount
        /\ kind \notin {"down", "motion"} => last_x' = last_x
    BY <1>1, Zenon DEF Emits, Input!emit_mir_event
  <2>3. PICK n \in Nat : n = Len(inputs) + 1
    BY SMTT(30) DEF InputType
  <2>4. /\ Len(inputs) \in Nat /\ Len(inputs') = n /\ inputs'[n] = i
        /\ \A j \in 1 .. Len(inputs) : inputs'[j] = inputs[j]
    BY <2>1, <2>3 DEF InputType
  <2>5. /\ \A j \in 1 .. Len(inputs) : Touches(j)' <=> Touches(j)
        /\ Touches(n)' <=> kind \in {"down", "motion"}
    BY <2>1, <2>4, Zenon DEF Touches
  <2>a. /\ \A j : j \in 1 .. Len(inputs') <=> j \in 1 .. Len(inputs) \/ j = n
        /\ n \in 1 .. Len(inputs') /\ n \notin 1 .. Len(inputs) /\ n < n + 1
        /\ \A k \in 1 .. n : ~ (n < k) /\ (k # n => k \in 1 .. Len(inputs))
        /\ \A j \in 1 .. Len(inputs) : j < n /\ j < n + 1
        /\ \A j \in 1 .. Len(inputs') : ~ (n < j)
    BY <2>3, <2>4
  <2>6. ASSUME NEW k \in 1 .. n, NEW x, Follows(k, x) PROVE Follows(k, x)'
    <3>1. ASSUME NEW j \in 1 .. Len(inputs'), j < k, Touches(j)',
                 \A i_1 \in 1 .. Len(inputs') : j < i_1 /\ i_1 < k => ~ Touches(i_1)'
          PROVE  inputs'[j].amount = x
      <4>1. j \in 1 .. Len(inputs) /\ Touches(j) /\ inputs'[j] = inputs[j]
        BY <2>4, <2>5, <2>a, <3>1, Zenon
      <4>2. \A i_1 \in 1 .. Len(inputs) : j < i_1 /\ i_1 < k => ~ Touches(i_1)
        BY <2>5, <2>a, <3>1, Zenon
      <4>3. inputs[j].amount = x
        BY <2>6, <3>1, <4>1, <4>2, Zenon DEF Follows
      <4> QED
        BY <4>1, <4>3, Zenon
    <3>2. ASSUME \A j \in 1 .. Len(inputs') : j < k => ~ Touches(j)'
          PROVE  touched' = Input!NotTouching \/ touched' = x
      <4>1. \A j \in 1 .. Len(inputs) : j < k => ~ Touches(j)
        BY <2>5, <2>a, <3>2, Zenon
      <4>2. touched = Input!NotTouching \/ touched = x
        BY <2>6, <4>1, Zenon DEF Follows
      <4> QED
        BY <2>2, <4>2, Zenon
    <3> QED
      BY <3>1, <3>2, Zenon DEF Follows, Input!NotTouching
  <2>7. ASSUME NEW k \in 1 .. n, inputs'[k].kind = "up" PROVE Follows(k, inputs[k].amount)'
    <3>1. PICK x : x = inputs'[k].amount
      BY Zenon
    <3>2. CASE k = n
      <4>1. x = last_x /\ Follows(n, x)
        BY <2>1, <2>2, <2>3, <2>4, <2>7, <3>1, <3>2, Zenon DEF ReleaseInv
      <4> QED
        BY <2>6, <3>1, <3>2, <4>1, Zenon
    <3>3. CASE k # n
      <4>1. k \in 1 .. Len(inputs) /\ inputs'[k] = inputs[k]
        BY <2>4, <2>a, <3>3, Zenon
      <4>2. Follows(k, x)
        BY <2>7, <3>1, <4>1, Zenon DEF ReleaseInv
      <4> QED
        BY <2>6, <3>1, <4>2, Zenon
    <3> QED
      BY <3>2, <3>3, Zenon
  <2>8. Follows(Len(inputs) + 1, last_x)'
    <3>1. PICK x : x = last_x'
      BY Zenon
    <3>2. CASE kind \in {"down", "motion"}
      <4>1. Follows(n + 1, x)'
        <5>1. inputs'[n].amount = x /\ Touches(n)'
          BY <2>1, <2>2, <2>4, <2>5, <3>1, <3>2, Zenon
        <5>2. ASSUME NEW j \in 1 .. Len(inputs'),
                     \A i_1 \in 1 .. Len(inputs') : j < i_1 /\ i_1 < n + 1 => ~ Touches(i_1)'
              PROVE  inputs'[j].amount = x
          <6>1. j = n
            BY <2>a, <5>1, <5>2, Zenon
          <6> QED
            BY <5>1, <6>1, Zenon
        <5>3. ~ \A j \in 1 .. Len(inputs') : j < n + 1 => ~ Touches(j)'
          BY <2>a, <5>1, Zenon
        <5> QED
          BY <5>2, <5>3, Zenon DEF Follows
      <4> QED
        BY <2>4, <3>1, <4>1, Zenon
    <3>3. CASE kind \notin {"down", "motion"}
      <4>1. Follows(n, x)
        BY <2>2, <2>3, <3>1, <3>3, Zenon DEF ReleaseInv
      <4>2. Follows(n, x)' /\ ~ Touches(n)'
        <5>1. n \in 1 .. n
          BY <2>3, <2>4
        <5> QED
          BY <2>5, <2>6, <3>3, <4>1, <5>1, Zenon
      <4>3. Follows(n + 1, x)'
        <5>1. ASSUME NEW j \in 1 .. Len(inputs'), Touches(j)',
                     \A i_1 \in 1 .. Len(inputs') : j < i_1 /\ i_1 < n + 1 => ~ Touches(i_1)'
              PROVE  inputs'[j].amount = x
          <6>1. j \in 1 .. Len(inputs) /\ j < n
            BY <2>a, <4>2, <5>1, Zenon
          <6>2. \A i_1 \in 1 .. Len(inputs') : j < i_1 /\ i_1 < n => ~ Touches(i_1)'
            BY <2>a, <4>2, <5>1, Zenon
          <6> QED
            BY <4>2, <5>1, <6>1, <6>2, Zenon DEF Follows
        <5>2. ASSUME \A j \in 1 .. Len(inputs') : j < n + 1 => ~ Touches(j)'
              PROVE  touched' = Input!NotTouching \/ touched' = x
          <6>1. \A j \in 1 .. Len(inputs') : j < n => ~ Touches(j)'
            BY <2>a, <5>2, Zenon
          <6> QED
            BY <4>2, <6>1, Zenon DEF Follows, Input!NotTouching
        <5> QED
          BY <5>1, <5>2, Zenon DEF Follows, Input!NotTouching
      <4> QED
        BY <2>4, <3>1, <4>3, Zenon
    <3> QED
      BY <3>2, <3>3, Zenon
  <2>9. Input!ReleaseInPlace'
    BY <2>2, Zenon DEF ReleaseInv, Input!ReleaseInPlace
  <2>10. \A k \in 1 .. Len(inputs') : inputs'[k].kind = "up" => Follows(k, inputs[k].amount)'
    BY <2>4, <2>7, Zenon
  <2> QED
    BY <2>8, <2>9, <2>10, Zenon DEF ReleaseInv
<1>2. CASE UNCHANGED <<inputs, touched, last_x, releasedAt>>
  <2>1. \A k : Touches(k)' <=> Touches(k)
    BY <1>2, Zenon DEF Touches
  <2>2. ASSUME NEW k, NEW x, Follows(k, x) PROVE Follows(k, x)'
    BY <1>2, <2>1, <2>2, Zenon DEF Follows, Input!NotTouching
  <2>3. \A k \in 1 .. Len(inputs') : inputs'[k].kind = "up" => Follows(k, inputs[k].amount)'
    <3>1. ASSUME NEW k \in 1 .. Len(inputs'), inputs'[k].kind = "up"
          PROVE  Follows(k, inputs[k].amount)'
      <4>1. PICK x : x = inputs'[k].amount
        BY Zenon
      <4>2. Follows(k, x)
        BY <1>2, <3>1, <4>1, Zenon DEF ReleaseInv
      <4>3. Follows(k, x)'
        BY <2>2, <4>2, Zenon
      <4> QED
        BY <4>1, <4>3, Zenon
    <3> QED
      BY <3>1, Zenon
  <2>4. Follows(Len(inputs) + 1, last_x)'
    <3>1. PICK x, k : x = last_x /\ k = Len(inputs) + 1
      BY Zenon
    <3>2. Follows(k, x)
      BY <3>1, Zenon DEF ReleaseInv
    <3>3. Follows(k, x)'
      BY <2>2, <3>2, Zenon
    <3>4. x = last_x' /\ k = Len(inputs') + 1
      BY <1>2, <3>1, Zenon
    <3> QED
      BY <3>3, <3>4, Zenon
  <2>5. Input!ReleaseInPlace'
    BY <1>2, Zenon DEF ReleaseInv, Input!ReleaseInPlace
  <2> QED
    BY <2>3, <2>4, <2>5, Zenon DEF ReleaseInv
<1>3. CASE Input!HandlePointer \/ Input!HandleOther
  <2>1. /\ inputs # <<>> /\ inputs \in Seq(Item) /\ inputs' = Tail(inputs) /\ UNCHANGED last_x
        /\ inputs[1] = Head(inputs)
    <3>1. inputs # <<>> /\ inputs' = Tail(inputs) /\ UNCHANGED last_x
      BY <1>3, Zenon DEF Input!HandlePointer, Input!HandleOther, Input!touchVars
    <3> QED
      BY <3>1 DEF InputType
  <2>2. /\ Touches(1) => touched' = Input!NotTouching \/ touched' = inputs[1].amount
        /\ ~ Touches(1) => touched' = Input!NotTouching \/ touched' = touched
    BY <1>3, <2>1, Zenon DEF Input!HandlePointer, Input!HandleOther, Input!touchVars, Touches
  <2>3. Input!ReleaseInPlace'
    <3>1. ASSUME inputs[1].kind = "up"
          PROVE  touched = Input!NotTouching \/ touched = inputs[1].amount
      <4>1. 1 \in 1 .. Len(inputs) /\ \A j \in 1 .. Len(inputs) : ~ (j < 1)
        BY <2>1
      <4>2. Follows(1, inputs[1].amount)
        BY <3>1, <4>1, Zenon DEF ReleaseInv
      <4> QED
        BY <4>1, <4>2, Zenon DEF Follows, Input!NotTouching
    <3>2. \/ UNCHANGED releasedAt
          \/ /\ inputs[1].kind = "up" /\ touched # Input!NotTouching
             /\ releasedAt' = <<inputs[1].amount, touched>>
      BY <1>3, <2>1, Zenon DEF Input!HandlePointer, Input!HandleOther, Input!touchVars
    <3>3. releasedAt[1] = releasedAt[2]
      BY Zenon DEF ReleaseInv, Input!ReleaseInPlace
    <3>4. releasedAt'[1] = releasedAt'[2]
      BY <3>1, <3>2, <3>3
    <3> QED
      BY <3>4, Zenon DEF Input!ReleaseInPlace
  <2>4. /\ Len(inputs') + 1 = Len(inputs) /\ Len(inputs') \in Nat
        /\ \A j \in 1 .. Len(inputs') : inputs'[j] = inputs[j + 1]
    BY <2>1
  <2>5. \A k \in 1 .. Len(inputs) : \A x : Follows(k + 1, x) => Follows(k, x)'
    BY <2>1, <2>2, FollowsTaken, Zenon
  <2>6. ASSUME NEW k \in 1 .. Len(inputs'), inputs'[k].kind = "up"
        PROVE  Follows(k, inputs[k].amount)'
    <3>1. PICK x : x = inputs'[k].amount
      BY Zenon
    <3>2. Follows(k + 1, x) /\ k \in 1 .. Len(inputs)
      <4>1. k \in 1 .. Len(inputs) /\ k + 1 \in 1 .. Len(inputs)
        BY <2>4
      <4>2. inputs[k + 1].kind = "up" /\ x = inputs[k + 1].amount
        BY <2>4, <2>6, <3>1, Zenon
      <4> QED
        BY <4>1, <4>2, Zenon DEF ReleaseInv
    <3>3. Follows(k, x)'
      BY <2>5, <3>2, Zenon
    <3> QED
      BY <3>1, <3>3, Zenon
  <2>7. Follows(Len(inputs) + 1, last_x)'
    <3>1. PICK x, k : x = last_x /\ k = Len(inputs') + 1
      BY Zenon
    <3>2. Follows(k + 1, x) /\ k \in 1 .. Len(inputs)
      <4>1. k = Len(inputs) /\ k \in 1 .. Len(inputs)
        BY <2>4, <3>1
      <4> QED
        BY <3>1, <4>1, Zenon DEF ReleaseInv
    <3>3. Follows(k, x)'
      BY <2>5, <3>2, Zenon
    <3> QED
      BY <2>1, <3>1, <3>3, Zenon
  <2>8. \A k \in 1 .. Len(inputs') : inputs'[k].kind = "up" => Follows(k, inputs[k].amount)'
    BY <2>6, Zenon
  <2> QED
    BY <2>3, <2>7, <2>8, Zenon DEF ReleaseInv
<1> QED
  BY <1>1, <1>2, <1>3, InputSteps, Zenon
     DEF Input!WaitRaised, Input!WaitTimesOut, Input!Tick, Input!seat_set_cursor_position,
         Input!seat_dispatch_event, Input!touchVars, inputVars

-----------------------------------------------------------------------------
(* Input: the theorems.                                                    *)

(* The invariant of input.                                                 *)
InputInv ==
    /\ timeouts \in Nat /\ InputType /\ SuccessInv
    /\ CursorInv /\ AwaitedInv /\ LandInv /\ ReleaseInv

(* Nothing was emitted at the start.                                       *)
LEMMA InputInit == Input!Init => InputInv
<1> SUFFICES ASSUME Input!Init PROVE InputInv
  BY Zenon
<1>1. /\ now = 0 /\ inputs = <<>> /\ observations = <<>> /\ position = 0 /\ cursor = 0
      /\ expected_events = {} /\ raised = {} /\ waitingFor = 0 /\ last_x = 0
      /\ last = [kind |-> "none", target |-> 0, ok |-> FALSE, settled |-> TRUE]
      /\ touched = -1 /\ emitted = 0 /\ seen = {} /\ timeouts = 0 /\ releasedAt = <<0, 0>>
  BY Zenon DEF Input!Init, Input!NotTouching
<1>2. InputType
  BY <1>1, EdgeAssumption DEF InputType
<1>3. /\ \A k, t, e : ~ Given(k, t, e) /\ ~ Noted(k, t, e)
      /\ \A t, e : ~ Expects(t, e)
      /\ \A k, x : ~ CursorAt(k, x)
  <2>1. Len(inputs) = 0 /\ Len(observations) = 0 /\ \A k : k \notin 1 .. 0
    BY <1>1
  <2> QED
    BY <1>1, <2>1, Zenon DEF Given, Noted, Expects, CursorAt
<1>4. SuccessInv
  BY <1>1, <1>3, Zenon DEF SuccessInv, SuccessIsOwn, Input!SuccessIsOwn
<1>5. CursorInv /\ AwaitedInv
  BY <1>1, <1>3, Zenon DEF CursorInv, AwaitedInv
<1>6. LandInv
  <2>1. /\ last \in [kind : InputKinds \cup {"none"}, target : Int, ok : BOOLEAN,
                     settled : BOOLEAN]
        /\ last.settled = TRUE
    BY <1>1
  <2>2. last.kind # "absolute"
    BY <1>1
  <2> QED
    BY <2>1, <2>2, Zenon DEF LandInv
<1>7. ReleaseInv
  <2>1. Len(inputs) = 0 /\ \A k : k \notin 1 .. 0
    BY <1>1
  <2>2. \A k, x : Follows(k, x)
    BY <1>1, <2>1, Zenon DEF Follows, Input!NotTouching
  <2>3. Input!ReleaseInPlace
    BY <1>1 DEF Input!ReleaseInPlace
  <2> QED
    BY <2>1, <2>2, <2>3, Zenon DEF ReleaseInv
<1> QED
  BY <1>1, <1>2, <1>4, <1>5, <1>6, <1>7, Zenon DEF InputInv

(* It is inductive, and implies what the run checks.                       *)
LEMMA InputCorrect ==
  /\ MirInit => InputInv
  /\ InputInv /\ [MirNext]_mirVars => InputInv'
  /\ InputInv => SuccessIsOwn /\ InputLands
<1>1. MirInit => InputInv
  BY InputInit, Zenon DEF MirInit
<1>2. ASSUME InputInv, [MirNext]_mirVars PROVE InputInv'
  <2>1. /\ timeouts \in Nat /\ timeouts' \in Nat /\ (timeouts' = 0 => timeouts = 0)
        /\ Input!Next \/ UNCHANGED inputVars
        /\ InputType /\ SuccessInv /\ CursorInv /\ AwaitedInv /\ LandInv /\ ReleaseInv
    BY <1>2, PartStep, Zenon DEF InputInv
  <2>2. InputType' /\ SuccessInv' /\ CursorInv' /\ AwaitedInv' /\ LandInv' /\ ReleaseInv'
    BY <2>1, InputTypeNext, SuccessNext, CursorNext, AwaitedNext, LandNext, ReleaseNext, Zenon
  <2> QED
    BY <2>1, <2>2, Zenon DEF InputInv
<1>3. InputInv => SuccessIsOwn /\ InputLands
  <2>1. InputInv => SuccessIsOwn /\ Input!ReleaseInPlace
    BY Zenon DEF InputInv, SuccessInv, ReleaseInv
  <2>2. InputInv => Input!PointerLands
    BY Zenon DEF InputInv, LandInv, OnItsWay, Landed, Input!PointerLands
  <2> QED
    BY <2>1, <2>2, Zenon DEF InputLands
<1> QED
  BY <1>1, <1>2, <1>3, Zenon

(* emit_mir_event() reports success only after Mir has dispatched the      *)
(* event of that very call: SuccessIsOwn for any number of calls, timeouts *)
(* and ticks of the clock.                                                 *)
THEOREM SuccessCorrect == MirSpec => []SuccessIsOwn
  BY InputCorrect, PTL DEF MirSpec

(* An absolute movement that succeeds, and was called when Mir had no other *)
(* input to handle or cursor to tell of, has brought the cursor to its     *)
(* target, timeouts or not; until a wait times out every call finds Mir so. *)
(* And a finger is always lifted where Mir has it: InputLands for an       *)
(* output of any size and any number of events.                            *)
THEOREM LandingCorrect == MirSpec => []InputLands
  BY InputCorrect, PTL DEF MirSpec
=============================================================================
