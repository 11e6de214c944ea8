---------------------------- MODULE MirExecutor ----------------------------
(***************************************************************************)
(* WaylandExecutor of the example integration                              *)
(* (example/mir_integration.cpp): any thread queues work with spawn(),     *)
(* which pushes under a recursive mutex and then, without it, writes to an *)
(* eventfd; the thread of the Wayland event loop reads the eventfd once,   *)
(* takes the mutex and runs work until the queue is empty.  Work may call  *)
(* spawn() itself and may throw; the loop may be destroyed at any time it  *)
(* is not handling an event.                                               *)
(*                                                                         *)
(* Work items are numbered in the order they are pushed.                   *)
(***************************************************************************)
EXTENDS Naturals, Sequences

CONSTANTS Spawners,     \* threads that call spawn()
          MaxWork       \* bound on the work items

ASSUME MaxWorkAssumption == MaxWork \in Nat

VARIABLES workqueue, eventfd,
          holder,         \* who holds the mutex: "nobody", "loop" (a spawner holds it within a step)
          spawner,        \* "idle", or "pushed": about to write to the eventfd
          loop,           \* where the event loop's thread is
          spawned, ran    \* history: work pushed, and the sequence of work run

vars == <<workqueue, eventfd, holder, spawner, loop, spawned, ran>>

Init ==
    /\ workqueue = <<>> /\ eventfd = 0 /\ holder = "nobody"
    /\ spawner = [s \in Spawners |-> "idle"]
    /\ loop = "poll" /\ spawned = 0 /\ ran = <<>>

(* Mutant: the mutex is not recursive.                                     *)
LockablePlain(thread) == holder = "nobody"

(* Can a thread lock the std::recursive_mutex?                             *)
Lockable(thread) == holder \in {"nobody", thread}

Push ==
    /\ spawned < MaxWork
    /\ spawned' = spawned + 1
    /\ workqueue' = Append(workqueue, spawned + 1)

(* spawn(): push under the mutex ...                                       *)
Spawn(s) ==
    /\ spawner[s] = "idle" /\ Lockable(s)
    /\ Push
    /\ spawner' = [spawner EXCEPT ![s] = "pushed"]
    /\ UNCHANGED <<eventfd, holder, loop, ran>>

(* Mutant: nobody is notified.                                             *)
NotifySilent(s) ==
    /\ spawner[s] = "pushed"
    /\ spawner' = [spawner EXCEPT ![s] = "idle"]
    /\ UNCHANGED <<workqueue, eventfd, holder, loop, spawned, ran>>

(* ... then eventfd_write(), and return.                                   *)
Notify(s) ==
    /\ spawner[s] = "pushed"
    /\ spawner' = [spawner EXCEPT ![s] = "idle"]
    /\ eventfd' = eventfd + 1
    /\ UNCHANGED <<workqueue, holder, loop, spawned, ran>>

-----------------------------------------------------------------------------
(* on_notify() is called when the eventfd is readable; the eventfd counts  *)
(* as a semaphore, so the read takes one.                                  *)
NotifyRead ==
    /\ loop = "poll" /\ eventfd > 0
    /\ eventfd' = eventfd - 1
    /\ loop' = "read"
    /\ UNCHANGED <<workqueue, holder, spawner, spawned, ran>>

NotifyLock ==
    /\ loop = "read" /\ Lockable("loop")
    /\ holder' = "loop"
    /\ loop' = "draining"
    /\ UNCHANGED <<workqueue, eventfd, spawner, spawned, ran>>

(* Mutant: the newest work is taken.                                       *)
GetWorkNewest ==
    /\ loop = "draining" /\ workqueue # <<>>
    /\ workqueue' = SubSeq(workqueue, 1, Len(workqueue) - 1)
    /\ ran' = Append(ran, workqueue[Len(workqueue)])
    /\ loop' = "working"
    /\ UNCHANGED <<eventfd, holder, spawner, spawned>>

GetWork ==
    /\ loop = "draining" /\ workqueue # <<>>
    /\ workqueue' = Tail(workqueue)
    /\ ran' = Append(ran, Head(workqueue))
    /\ loop' = "working"
    /\ UNCHANGED <<eventfd, holder, spawner, spawned>>

(* Work may call spawn(), which takes the mutex the loop holds.             *)
WorkCalls ==
    /\ loop = "working" /\ spawned < MaxWork
    /\ loop' = "spawning"
    /\ UNCHANGED <<workqueue, eventfd, holder, spawner, spawned, ran>>

WorkSpawns ==
    /\ loop = "spawning" /\ Lockable("loop")
    /\ Push
    /\ loop' = "notifying"
    /\ UNCHANGED <<eventfd, holder, spawner, ran>>

WorkNotifies ==
    /\ loop = "notifying"
    /\ eventfd' = eventfd + 1
    /\ loop' = "working"
    /\ UNCHANGED <<workqueue, holder, spawner, spawned, ran>>

(* Work returns, or throws what on_notify() catches.                       *)
WorkReturns ==
    /\ loop = "working"
    /\ loop' = "draining"
    /\ UNCHANGED <<workqueue, eventfd, holder, spawner, spawned, ran>>

(* get_work() finds nothing and on_notify() returns.                       *)
NotifyReturn ==
    /\ loop = "draining" /\ workqueue = <<>>
    /\ holder' = "nobody"
    /\ loop' = "poll"
    /\ UNCHANGED <<workqueue, eventfd, spawner, spawned, ran>>

(* on_display_destruction().  spawn() still queues work that nobody runs.  *)
DisplayDestruction ==
    /\ loop = "poll" /\ holder = "nobody"
    /\ loop' = "destroyed"
    /\ UNCHANGED <<workqueue, eventfd, holder, spawner, spawned, ran>>

Drain == NotifyRead \/ NotifyLock \/ GetWork \/ WorkSpawns \/ WorkNotifies \/ WorkReturns
         \/ NotifyReturn

Next ==
    \/ \E s \in Spawners : Spawn(s) \/ Notify(s)
    \/ Drain \/ WorkCalls
    \/ DisplayDestruction

Spec == Init /\ [][Next]_vars

(* spawn() returns, and the event loop keeps dispatching until destroyed.  *)
Fairness == WF_vars(Drain) /\ \A s \in Spawners : WF_vars(Notify(s))

FairSpec == Spec /\ Fairness

-----------------------------------------------------------------------------
(* Type invariant; the mutex is held exactly while work is drained.        *)
TypeOK ==
    /\ workqueue \in Seq(1 .. MaxWork) /\ eventfd \in Nat
    /\ spawner \in [Spawners -> {"idle", "pushed"}]
    /\ loop \in {"poll", "read", "draining", "working", "spawning", "notifying", "destroyed"}
    /\ spawned \in 0 .. MaxWork /\ ran \in Seq(1 .. MaxWork)
    /\ holder = IF loop \in {"draining", "working", "spawning", "notifying"} THEN "loop"
                ELSE "nobody"

(* No wake-up is lost: when the loop goes to sleep with work in the queue, *)
(* the eventfd is readable or the thread that pushed is about to write.    *)
NoLostWakeup ==
    (loop = "poll" /\ workqueue # <<>>) =>
        eventfd > 0 \/ \E s \in Spawners : spawner[s] = "pushed"

(* Work runs once, in the order it was queued, and nothing is dropped.     *)
RunsInOrder == ran \o workqueue = [n \in 1 .. spawned |-> n]

(* Work that is queued runs, unless the loop is destroyed.                 *)
WorkRuns == \A n \in 1 .. MaxWork : spawned >= n ~> (Len(ran) >= n \/ loop = "destroyed")
=============================================================================
