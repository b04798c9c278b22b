------------------------- MODULE DigitalTwinManager -------------------------
(***************************************************************************)
(* digital_twin_manager_node.py: the supervisor that starts the permanent  *)
(* nodes, respawns the ones that exit and stops them all on shutdown, with *)
(* a lock file that keeps a second supervisor out.                         *)
(*                                                                         *)
(* Every permanent node is started with "ros2 run", so the process the     *)
(* manager holds (Popen, poll, wait) is a wrapper around the real node.    *)
(* "ros2 run" is external; a child is the pair of both:                    *)
(*   running   wrapper and node are alive                                  *)
(*   leaving   the wrapper has exited, the node is still shutting down     *)
(*   orphan    the wrapper has exited, the node does not stop              *)
(*   stuck     the wrapper did not exit within wait(timeout=5.0)           *)
(*   gone      both have exited                                            *)
(***************************************************************************)
EXTENDS Naturals, Sequences, FiniteSets

CONSTANTS
    Managers,               \* supervisor processes, one after or beside another
    Order,                  \* names of the permanent nodes, in starting order
    MaxSpawns,              \* bound: copies one manager starts of one node
    Respawning,             \* managers started with respawn_permanent_nodes = True
    None,                   \* Python's None, and nobody for the lock
    Faults                  \* what may go wrong, a subset of FaultKinds

FaultKinds == {"node_crashes", "wrapper_dies", "ignores_sigterm", "stuck",
               "unkillable", "constructor_raises", "spawn_fails", "manager_killed"}

Names == {Order[i] : i \in DOMAIN Order}
Children == Managers \X Names \X (1 .. MaxSpawns)

ASSUME ManagerAssumption ==
    /\ MaxSpawns \in Nat \ {0}
    /\ Order \in Seq(Names)
    /\ \A i, j \in DOMAIN Order : Order[i] = Order[j] => i = j  \* keys of a dict
    /\ Respawning \subseteq Managers
    /\ None \notin Managers
    /\ Faults \subseteq FaultKinds

VARIABLES
    lock,    \* holder of the lock on MANAGER_LOCK_PATH
    pc,      \* of each manager
    next,    \* index into Order of its start or stop loop
    handle,  \* ManagedProcess.process: number of the copy, 0 for None
    spawned, \* copies started so far, by manager and name
    status   \* of every child

vars == <<lock, pc, next, handle, spawned, status>>

Init ==
    /\ lock = None
    /\ pc = [m \in Managers |-> "off"]
    /\ next = [m \in Managers |-> 1]
    /\ handle = [m \in Managers |-> [n \in Names |-> 0]]
    /\ spawned = [m \in Managers |-> [n \in Names |-> 0]]
    /\ status = [c \in Children |-> "unborn"]

Child(m, n) == <<m, n, handle[m][n]>>
WrapperAlive(c) == status[c] \in {"running", "stuck"}
Live(c) == status[c] \in {"running", "leaving", "orphan", "stuck"}
EverStarted(m, n) == handle[m][n] # 0  \* mutant: poll() is not asked
\* process.poll() sees the wrapper only.
Exited(m, n) == handle[m][n] # 0 /\ status[Child(m, n)] \in {"leaving", "orphan", "gone"}
Current(m) == Order[next[m]]
LoopLeft(m) == next[m] <= Len(Order)

-----------------------------------------------------------------------------
AcquireUnlocked(m) ==  \* mutant: the file is opened but not locked
    /\ pc[m] = "off"
    /\ lock' = m
    /\ pc' = [pc EXCEPT ![m] = "starting"]
    /\ UNCHANGED <<next, handle, spawned, status>>

\* acquire_manager_lock.
AcquireLock(m) ==
    /\ pc[m] = "off"
    /\ lock = None
    /\ lock' = m
    /\ pc' = [pc EXCEPT ![m] = "starting"]
    /\ UNCHANGED <<next, handle, spawned, status>>

LockRefused(m) ==
    /\ pc[m] = "off"
    /\ lock # None
    /\ pc' = [pc EXCEPT ![m] = "exited"]
    /\ UNCHANGED <<lock, next, handle, spawned, status>>

KeepsFirstHandle(m, n) ==  \* mutant: a set handle is not replaced
    LET copy == spawned[m][n] + 1 IN
    /\ copy <= MaxSpawns
    /\ spawned' = [spawned EXCEPT ![m][n] = copy]
    /\ handle' = [handle EXCEPT ![m][n] = IF @ = 0 THEN copy ELSE @]
    /\ status' = [status EXCEPT ![<<m, n, copy>>] = "running"]

\* _start_process: another copy, and the handle on it.
StartProcess(m, n) ==
    LET copy == spawned[m][n] + 1 IN
    /\ copy <= MaxSpawns
    /\ spawned' = [spawned EXCEPT ![m][n] = copy]
    /\ handle' = [handle EXCEPT ![m][n] = copy]
    /\ status' = [status EXCEPT ![<<m, n, copy>>] = "running"]

\* start_permanent_nodes, from the constructor.
StartNext(m) ==
    /\ pc[m] = "starting"
    /\ LoopLeft(m)
    /\ StartProcess(m, Current(m))
    /\ next' = [next EXCEPT ![m] = @ + 1]
    /\ UNCHANGED <<lock, pc>>

Started(m) ==
    /\ pc[m] = "starting"
    /\ ~LoopLeft(m)
    /\ pc' = [pc EXCEPT ![m] = "running"]
    /\ UNCHANGED <<lock, next, handle, spawned, status>>

Ended == {"finished", "exited"}

\* The process ends, after its shutdown loop ("finished") or some other way
\* ("exited"); the operating system releases its lock.
Ends(m, how) ==
    /\ pc' = [pc EXCEPT ![m] = how]
    /\ lock' = IF lock = m THEN None ELSE lock

\* main() constructs the node outside its try (line 323): an exception or a
\* Ctrl-C there ends the manager and stops nothing.
ConstructorRaises(m) ==
    /\ "constructor_raises" \in Faults
    /\ pc[m] = "starting"
    /\ Ends(m, "exited")
    /\ UNCHANGED <<next, handle, spawned, status>>

RespawnOnlyForgets(m, n) ==  \* mutant
    /\ pc[m] = "running"
    /\ m \in Respawning
    /\ Exited(m, n)
    /\ handle' = [handle EXCEPT ![m][n] = 0]
    /\ UNCHANGED <<lock, pc, next, spawned, status>>

\* _monitor_permanent_nodes, one round of its loop for a node that has exited.
Respawn(m, n) ==
    /\ pc[m] = "running"
    /\ m \in Respawning
    /\ Exited(m, n)
    /\ StartProcess(m, n)
    /\ UNCHANGED <<lock, pc, next>>

ForgetExited(m, n) ==
    /\ pc[m] = "running"
    /\ m \notin Respawning
    /\ Exited(m, n)
    /\ handle' = [handle EXCEPT ![m][n] = 0]
    /\ UNCHANGED <<lock, pc, next, spawned, status>>

\* Popen raises in the timer callback: spin ends, and finally runs.
RespawnFails(m, n) ==
    /\ "spawn_fails" \in Faults
    /\ pc[m] = "running"
    /\ m \in Respawning
    /\ Exited(m, n)
    /\ handle' = [handle EXCEPT ![m][n] = 0]
    /\ pc' = [pc EXCEPT ![m] = "stopping"]
    /\ next' = [next EXCEPT ![m] = 1]
    /\ UNCHANGED <<lock, spawned, status>>

\* Ctrl-C in spin: shutdown_processes begins.
BeginShutdown(m) ==
    /\ pc[m] = "running"
    /\ pc' = [pc EXCEPT ![m] = "stopping"]
    /\ next' = [next EXCEPT ![m] = 1]
    /\ UNCHANGED <<lock, handle, spawned, status>>

\* _stop_process: nothing to stop.
NothingToStop(m) == handle[m][Current(m)] = 0 \/ Exited(m, Current(m))

StopSkips(m) ==
    /\ pc[m] = "stopping"
    /\ LoopLeft(m)
    /\ NothingToStop(m)
    /\ next' = [next EXCEPT ![m] = @ + 1]
    /\ UNCHANGED <<lock, pc, handle, spawned, status>>

\* SIGTERM to the group, and wait(timeout=5.0) for the wrapper.
AfterSigterm ==
    {"leaving"} \cup (IF "ignores_sigterm" \in Faults THEN {"orphan"} ELSE {})
                \cup (IF "stuck" \in Faults THEN {"stuck"} ELSE {})

StopTerminates(m) ==
    /\ pc[m] = "stopping"
    /\ LoopLeft(m)
    /\ ~NothingToStop(m)
    /\ \E after \in AfterSigterm :
        /\ status' = [status EXCEPT ![Child(m, Current(m))] = after]
        /\ IF after = "stuck"
           THEN pc' = [pc EXCEPT ![m] = "killing"] /\ UNCHANGED next
           ELSE next' = [next EXCEPT ![m] = @ + 1] /\ UNCHANGED pc
    /\ UNCHANGED <<lock, handle, spawned>>

KillMissesGroup(m) ==  \* mutant: SIGKILL goes to another group
    /\ pc[m] = "killing"
    /\ pc' = [pc EXCEPT ![m] = "stopping"]
    /\ next' = [next EXCEPT ![m] = @ + 1]
    /\ UNCHANGED <<lock, handle, spawned, status>>

\* SIGKILL to the group, and wait(timeout=2.0).
StopKills(m) ==
    /\ pc[m] = "killing"
    /\ status' = [status EXCEPT ![Child(m, Current(m))] = "gone"]
    /\ pc' = [pc EXCEPT ![m] = "stopping"]
    /\ next' = [next EXCEPT ![m] = @ + 1]
    /\ UNCHANGED <<lock, handle, spawned>>

\* That wait raises TimeoutExpired, which nothing catches: the loop is left.
StopRaises(m) ==
    /\ "unkillable" \in Faults
    /\ pc[m] = "killing"
    /\ Ends(m, "exited")
    /\ UNCHANGED <<next, handle, spawned, status>>

Finish(m) ==
    /\ pc[m] = "stopping"
    /\ ~LoopLeft(m)
    /\ Ends(m, "finished")
    /\ UNCHANGED <<next, handle, spawned, status>>

-----------------------------------------------------------------------------
(* The world: crashes of children and of managers.                         *)

Becomes(c, new) ==
    /\ status' = [status EXCEPT ![c] = new]
    /\ UNCHANGED <<lock, pc, next, handle, spawned>>

\* The last copy the bound allows does not crash.
NodeCrashes(c) ==
    /\ "node_crashes" \in Faults
    /\ status[c] = "running" /\ c[3] < MaxSpawns
    /\ Becomes(c, "gone")

WrapperDies(c) ==
    /\ "wrapper_dies" \in Faults
    /\ status[c] = "running" /\ c[3] < MaxSpawns
    /\ Becomes(c, "orphan")

Leaves(c) == status[c] = "leaving" /\ Becomes(c, "gone")

ManagerKilled(m) ==
    /\ "manager_killed" \in Faults
    /\ pc[m] \notin {"off"} \cup Ended
    /\ Ends(m, "exited")
    /\ UNCHANGED <<next, handle, spawned, status>>

-----------------------------------------------------------------------------
ManagerStep(m) ==
    \/ StartNext(m) \/ Started(m)
    \/ StopSkips(m) \/ StopTerminates(m) \/ StopKills(m) \/ Finish(m)

MonitorStep(m) == \E n \in Names : Respawn(m, n) \/ ForgetExited(m, n)

Next ==
    \/ \E m \in Managers :
        \/ AcquireLock(m)
        \/ LockRefused(m)
        \/ ManagerStep(m)
        \/ MonitorStep(m)
        \/ ConstructorRaises(m)
        \/ \E n \in Names : RespawnFails(m, n)
        \/ BeginShutdown(m)
        \/ StopRaises(m)
        \/ ManagerKilled(m)
    \/ \E c \in Children : NodeCrashes(c) \/ WrapperDies(c) \/ Leaves(c)

Spec == Init /\ [][Next]_vars

\* A manager's thread runs, its monitor timer fires, and a node that was told
\* to stop and obeys does stop.
Fairness ==
    /\ \A m \in Managers : WF_vars(ManagerStep(m)) /\ WF_vars(MonitorStep(m))
    /\ \A c \in Children : WF_vars(Leaves(c))

FairSpec == Spec /\ Fairness

-----------------------------------------------------------------------------
\* Every variable has its type, and a handle is None or on the newest copy.
TypeOK ==
    /\ lock \in Managers \cup {None}
    /\ pc \in [Managers -> {"off", "starting", "running", "stopping", "killing"} \cup Ended]
    /\ next \in [Managers -> 1 .. Len(Order) + 1]
    /\ handle \in [Managers -> [Names -> 0 .. MaxSpawns]]
    /\ spawned \in [Managers -> [Names -> 0 .. MaxSpawns]]
    /\ \A m \in Managers, n \in Names : handle[m][n] \in {0, spawned[m][n]}
    /\ status \in [Children -> {"unborn", "running", "leaving", "orphan", "stuck", "gone"}]

\* Only the holder of the lock supervises, through crashes of managers,
\* exceptions and refused starts: no two managers ever start nodes side by
\* side (acquire_manager_lock).
OneSupervisor ==
    \A m \in Managers : pc[m] \notin {"off"} \cup Ended => lock = m

\* One manager never has two copies of a node under it: it starts another
\* only after the one it holds has exited, as far as poll() can see
\* (_start_process, _monitor_permanent_nodes).
OneCopyPerManager ==
    \A m \in Managers, n \in Names :
        \A i, j \in 1 .. MaxSpawns :
            WrapperAlive(<<m, n, i>>) /\ WrapperAlive(<<m, n, j>>) => i = j

\* A manager that has gone through its shutdown leaves no child untold: each
\* has exited or was sent a signal, also the ones respawned just before and
\* after a respawn that failed (shutdown_processes, _stop_process).
NothingLeftRunning ==
    \A m \in Managers : pc[m] = "finished" =>
        \A c \in Children : c[1] = m => ~WrapperAlive(c)

\* "respawns them if they exit" (README.md line 178): while a manager that
\* respawns stays, an exited node comes back.
Respawns ==
    \A m \in Respawning, n \in Names :
        (pc[m] = "running" /\ Exited(m, n)) ~>
            (pc[m] # "running" \/ \E i \in 1 .. MaxSpawns : status[<<m, n, i>>] = "running")

\* "Prevent multiple supervisors from spawning competing TCP endpoints."
\* (line 18): at most one copy of a node is alive.
NoCompetingCopies ==
    \A c, d \in Children : Live(c) /\ Live(d) /\ c[2] = d[2] => c = d
=============================================================================
