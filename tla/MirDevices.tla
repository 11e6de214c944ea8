----------------------------- MODULE MirDevices -----------------------------
(***************************************************************************)
(* The fake input devices of the example integration                       *)
(* (example/mir_integration.cpp): wlcs_server_create_pointer() and         *)
(* wlcs_server_create_touch() observe Mir's device hub, add the device and *)
(* wait until the hub has announced it, so that the events a test emits    *)
(* have a device to come from.                                             *)
(*                                                                         *)
(* The hub (external) handles observers in one queue and devices in        *)
(* another.  It tells a new observer of the devices there are; it tells    *)
(* every observer of a new device; both end with changes_complete().       *)
(*                                                                         *)
(* Every call makes a new device.  Its uid is a constant of the            *)
(* integration, "mouse-uid" or "touch-uid": all pointers have the same.    *)
(***************************************************************************)
EXTENDS Naturals, Sequences

CONSTANTS Devices, Mice,   \* the devices, and those that are pointers
          None,
          MaxTimeouts      \* bound

VARIABLES step,          \* where the create function is: "idle", "observing" or "waiting"
          creating,      \* the device it creates
          created,       \* the devices it has returned
          observerWork, deviceWork,  \* the hub's queues
          observers,     \* the devices whose DeviceObserver is registered
          present,       \* the devices of the hub
          seen_device,   \* the members of the DeviceObservers
          done,          \* the raised signals
          destroyed,
          timeouts,
          mistakable     \* history, see AddObserver

vars == <<step, creating, created, observerWork, deviceWork, observers, present, seen_device, done,
          destroyed, timeouts, mistakable>>

Init ==
    /\ step = "idle" /\ creating = None /\ created = {}
    /\ observerWork = <<>> /\ deviceWork = <<>> /\ observers = {} /\ present = {}
    /\ seen_device = {} /\ done = {} /\ destroyed = {} /\ timeouts = 0 /\ mistakable = {}

SameUid(d, e) == d \in Mice <=> e \in Mice

-----------------------------------------------------------------------------
(* A device is mistakable if, when it is made, the hub has another with    *)
(* its uid or has yet to add or to remove one.                             *)
AddObserver(d) ==
    /\ step = "idle" /\ d \notin created
    /\ step' = "observing" /\ creating' = d
    /\ observerWork' = Append(observerWork, <<"observe", d>>)
    /\ LET others == present \cup { deviceWork[n][2] : n \in DOMAIN deviceWork }
       IN mistakable' = IF \E e \in others : SameUid(d, e) THEN mistakable \cup {d} ELSE mistakable
    /\ UNCHANGED <<created, deviceWork, observers, present, seen_device, done, destroyed, timeouts>>

AddDevice ==
    /\ step = "observing"
    /\ step' = "waiting"
    /\ deviceWork' = Append(deviceWork, <<"add", creating>>)
    /\ UNCHANGED <<creating, created, observerWork, observers, present, seen_device, done, destroyed,
                   timeouts, mistakable>>

(* The observer is removed later, by the executor.                         *)
Return ==
    /\ step' = "idle" /\ creating' = None
    /\ created' = created \cup {creating}
    /\ observerWork' = Append(observerWork, <<"forget", creating>>)
    /\ UNCHANGED <<deviceWork, observers, present, seen_device, done, destroyed, mistakable>>

DeviceAdded ==
    /\ step = "waiting" /\ creating \in done
    /\ Return
    /\ UNCHANGED timeouts

(* The result of wait_for(a_long_time) is ignored.                         *)
WaitTimesOut ==
    /\ step = "waiting" /\ creating \notin done
    /\ timeouts < MaxTimeouts
    /\ timeouts' = timeouts + 1
    /\ Return

Destroy(d) ==
    /\ step = "idle" /\ d \in created \ destroyed
    /\ destroyed' = destroyed \cup {d}
    /\ deviceWork' = Append(deviceWork, <<"remove", d>>)
    /\ UNCHANGED <<step, creating, created, observerWork, observers, present, seen_device, done,
                   timeouts, mistakable>>

-----------------------------------------------------------------------------
(* Mutant: changes_complete() raises whatever was added.                   *)
AnnounceAll(to, devices) ==
    /\ seen_device' = seen_device \cup { d \in to : \E e \in devices : SameUid(d, e) }
    /\ done' = done \cup to

(* Mutant: the observer looks for another uid.                             *)
AnnounceOthers(to, devices) ==
    /\ seen_device' = seen_device \cup { d \in to : \E e \in devices : ~SameUid(d, e) }
    /\ done' = done \cup (to \cap seen_device')

(* device_added() of each of the devices, then changes_complete(), for     *)
(* each of the observers.                                                  *)
Announce(to, devices) ==
    /\ seen_device' = seen_device \cup { d \in to : \E e \in devices : SameUid(d, e) }
    /\ done' = done \cup (to \cap seen_device')

HubObserves ==
    /\ observerWork # <<>>
    /\ observerWork' = Tail(observerWork)
    /\ LET d == Head(observerWork)[2]
       IN \/ /\ Head(observerWork)[1] = "observe"
             /\ observers' = observers \cup {d}
             /\ Announce({d}, present)
          \/ /\ Head(observerWork)[1] = "forget"
             /\ observers' = observers \ {d}
             /\ UNCHANGED <<seen_device, done>>
    /\ UNCHANGED <<step, creating, created, deviceWork, present, destroyed, timeouts, mistakable>>

HubChanges ==
    /\ deviceWork # <<>>
    /\ deviceWork' = Tail(deviceWork)
    /\ LET d == Head(deviceWork)[2]
       IN \/ /\ Head(deviceWork)[1] = "add"
             /\ present' = present \cup {d}
             /\ Announce(observers, {d})
          \/ /\ Head(deviceWork)[1] = "remove"
             /\ present' = present \ {d}
             /\ Announce(observers, {})
    /\ UNCHANGED <<step, creating, created, observerWork, observers, destroyed, timeouts, mistakable>>

Next ==
    \/ \E d \in Devices : AddObserver(d) \/ Destroy(d)
    \/ AddDevice \/ DeviceAdded \/ WaitTimesOut
    \/ HubObserves \/ HubChanges

Fairness ==
    /\ WF_vars(AddDevice) /\ WF_vars(DeviceAdded)
    /\ WF_vars(HubObserves) /\ WF_vars(HubChanges)

Spec == Init /\ [][Next]_vars

FairSpec == Spec /\ Fairness

-----------------------------------------------------------------------------
(* Until a wait times out, a device that was returned and not destroyed is *)
(* one the hub has, though other devices are announced meanwhile and the   *)
(* observer hears of none or of several changes first; but for a device    *)
(* that the observer can mistake another for, which may come later.        *)
CreatedIsPresent == timeouts = 0 => created \ (destroyed \cup mistakable) \subseteq present

(* A create function returns even if no wait times out: the hub announces  *)
(* the device to its observer whichever queue it serves first.  What was   *)
(* returned is in the hub in the end, if the test does not destroy it.     *)
CreationEnds ==
    /\ step # "idle" ~> step = "idle"
    /\ \A d \in Devices : d \in created ~> d \in present \cup destroyed
=============================================================================
