---------------------- MODULE DigitalTwinManagerProofs ----------------------
(***************************************************************************)
(* The manager, for any number of managers, of nodes and of copies, and    *)
(* every set of faults.                                                    *)
(*                                                                         *)
(* A wrapper that is alive is the one its manager holds (Held), because a  *)
(* handle is only replaced or forgotten once poll() has seen an exit.  So  *)
(* a loop over the handles reaches every wrapper, and what it has passed   *)
(* stays dead (Told), since nothing is started any more.                   *)
(***************************************************************************)
EXTENDS DigitalTwinManager, TLAPS

Held ==
    \A m \in Managers, n \in Names : \A i \in 1 .. MaxSpawns :
        WrapperAlive(<<m, n, i>>) => i = handle[m][n]

\* What the starting loop has not reached has no handle.
Unstarted ==
    \A m \in Managers :
        /\ pc[m] = "off" => next[m] = 1 /\ \A n \in Names : handle[m][n] = 0
        /\ pc[m] = "starting" =>
               \A k \in DOMAIN Order : k >= next[m] => handle[m][Order[k]] = 0

\* What the shutdown loop has passed is told.
Told ==
    \A m \in Managers :
        /\ pc[m] \in {"stopping", "killing"} =>
               \A k \in DOMAIN Order : k < next[m] =>
                   \A i \in 1 .. MaxSpawns : ~WrapperAlive(<<m, Order[k], i>>)
        /\ pc[m] = "killing" => LoopLeft(m)

\* NothingLeftRunning, copy by copy.
AllTold ==
    \A m \in Managers : pc[m] = "finished" =>
        \A n \in Names, i \in 1 .. MaxSpawns : ~WrapperAlive(<<m, n, i>>)

IInv == TypeOK /\ OneSupervisor /\ Held /\ Unstarted /\ Told /\ AllTold

USE ManagerAssumption

LEMMA OrderNames == ASSUME NEW k \in DOMAIN Order PROVE Order[k] \in Names
BY DEF Names

LEMMA NamesOrdered == ASSUME NEW n \in Names PROVE \E k \in DOMAIN Order : n = Order[k]
BY DEF Names

LEMMA OrderDomain == DOMAIN Order = 1 .. Len(Order) /\ Len(Order) \in Nat
OBVIOUS

LEMMA InitIInv == Init => IInv
<1> SUFFICES ASSUME Init PROVE IInv
    OBVIOUS
<1>1. TypeOK
    BY OrderDomain DEF Init, TypeOK, Ended
<1>2. \A c \in Children : ~WrapperAlive(c)
    BY DEF Init, WrapperAlive
<1>3. \A m \in Managers : pc[m] = "off" /\ next[m] = 1 /\ \A n \in Names : handle[m][n] = 0
    BY DEF Init
<1> QED BY <1>1, <1>2, <1>3
    DEF IInv, OneSupervisor, Held, Unstarted, Told, AllTold, Children, Ended

\* A manager that only moves on in its own control: nothing it started changes.
LEMMA AcquireKeeps == ASSUME IInv, NEW m \in Managers, AcquireLock(m) PROVE IInv'
<1>1. TypeOK'
    BY DEF IInv, TypeOK, AcquireLock, Ended
<1>2. OneSupervisor'
    BY DEF IInv, TypeOK, OneSupervisor, AcquireLock
<1>3. Held'
    BY DEF IInv, Held, AcquireLock, WrapperAlive
<1>4. Unstarted'
    BY OrderNames, OrderDomain DEF IInv, TypeOK, Unstarted, AcquireLock
<1>5. Told' /\ AllTold'
    BY DEF IInv, TypeOK, Told, AllTold, AcquireLock, WrapperAlive, LoopLeft
<1> QED BY <1>1, <1>2, <1>3, <1>4, <1>5 DEF IInv

\* A manager that ends without its shutdown loop, or before its start.
LEMMA ExitKeeps ==
    ASSUME IInv, NEW m \in Managers, pc' = [pc EXCEPT ![m] = "exited"],
           lock' = lock \/ (lock = m /\ lock' = None),
           UNCHANGED <<next, handle, spawned, status>>
    PROVE  IInv'
<1>1. TypeOK'
    BY DEF IInv, TypeOK, Ended
<1>2. OneSupervisor'
    BY DEF IInv, TypeOK, OneSupervisor, Ended
<1>3. Held'
    BY DEF IInv, Held, WrapperAlive
<1>4. Unstarted'
    BY DEF IInv, TypeOK, Unstarted
<1>5. Told' /\ AllTold'
    BY DEF IInv, TypeOK, Told, AllTold, WrapperAlive, LoopLeft
<1> QED BY <1>1, <1>2, <1>3, <1>4, <1>5 DEF IInv

-----------------------------------------------------------------------------
(* Starting a copy: allowed where no wrapper is alive.                     *)

NoneAlive(m, n) == \A i \in 1 .. MaxSpawns : ~WrapperAlive(<<m, n, i>>)

LEMMA StartCopy ==
    ASSUME IInv, NEW m \in Managers, NEW n \in Names, StartProcess(m, n), NoneAlive(m, n)
    PROVE  /\ handle' \in [Managers -> [Names -> 0 .. MaxSpawns]]
           /\ spawned' \in [Managers -> [Names -> 0 .. MaxSpawns]]
           /\ \A a \in Managers, b \in Names : handle'[a][b] \in {0, spawned'[a][b]}
           /\ status' \in [Children -> {"unborn", "running", "leaving", "orphan", "stuck", "gone"}]
           /\ \A a \in Managers, b \in Names : a # m \/ b # n => handle'[a][b] = handle[a][b]
           /\ \A a \in Managers, b \in Names, i \in 1 .. MaxSpawns :
                  a # m => WrapperAlive(<<a, b, i>>)' = WrapperAlive(<<a, b, i>>)
           /\ Held'
<1> DEFINE copy == spawned[m][n] + 1
<1>1. /\ copy \in 1 .. MaxSpawns
      /\ spawned' = [spawned EXCEPT ![m][n] = copy]
      /\ handle' = [handle EXCEPT ![m][n] = copy]
      /\ status' = [status EXCEPT ![<<m, n, copy>>] = "running"]
    BY DEF StartProcess, IInv, TypeOK
<1> HIDE DEF copy
<1>2. /\ handle' \in [Managers -> [Names -> 0 .. MaxSpawns]]
      /\ spawned' \in [Managers -> [Names -> 0 .. MaxSpawns]]
    BY <1>1 DEF IInv, TypeOK
<1>3. \A a \in Managers, b \in Names :
          /\ a # m \/ b # n => handle'[a][b] = handle[a][b] /\ spawned'[a][b] = spawned[a][b]
          /\ a = m /\ b = n => handle'[a][b] = copy /\ spawned'[a][b] = copy
    BY <1>1 DEF IInv, TypeOK
<1>4. \A a \in Managers, b \in Names, i \in 1 .. MaxSpawns : <<a, b, i>> \in Children
    BY DEF Children
<1>5. \A a \in Managers, b \in Names, i \in 1 .. MaxSpawns :
          a # m \/ b # n \/ i # copy => status'[<<a, b, i>>] = status[<<a, b, i>>]
    BY <1>1, <1>4 DEF IInv, TypeOK
<1>6. status' \in [Children -> {"unborn", "running", "leaving", "orphan", "stuck", "gone"}]
    BY <1>1 DEF IInv, TypeOK
<1>7. Held'
  <2> SUFFICES ASSUME NEW a \in Managers, NEW b \in Names, NEW i \in 1 .. MaxSpawns,
                      WrapperAlive(<<a, b, i>>)'
               PROVE  i = handle'[a][b]
      BY DEF Held
  <2>1. CASE a = m /\ b = n /\ i = copy
      BY <2>1, <1>3
  <2>2. CASE a = m /\ b = n /\ i # copy
      BY <2>2, <1>5 DEF NoneAlive, WrapperAlive
  <2>3. CASE a # m \/ b # n
    <3>1. WrapperAlive(<<a, b, i>>)
        BY <2>3, <1>5 DEF WrapperAlive
    <3> QED BY <3>1, <2>3, <1>3 DEF IInv, Held
  <2> QED BY <2>1, <2>2, <2>3
<1>8. \A a \in Managers, b \in Names : handle'[a][b] \in {0, spawned'[a][b]}
  <2> TAKE a \in Managers, b \in Names
  <2>1. CASE a = m /\ b = n
      BY <2>1, <1>3
  <2>2. CASE a # m \/ b # n
    <3>1. handle[a][b] \in {0, spawned[a][b]}
        BY DEF IInv, TypeOK
    <3> QED BY <2>2, <3>1, <1>3
  <2> QED BY <2>1, <2>2
<1>9. \A a \in Managers, b \in Names, i \in 1 .. MaxSpawns :
          a # m => WrapperAlive(<<a, b, i>>)' = WrapperAlive(<<a, b, i>>)
    BY <1>5 DEF WrapperAlive
<1> QED BY <1>2, <1>3, <1>6, <1>7, <1>8, <1>9

\* No handle, or one on a process that has exited: no wrapper is alive.
LEMMA HandleFree ==
    ASSUME IInv, NEW m \in Managers, NEW n \in Names, handle[m][n] = 0 \/ Exited(m, n)
    PROVE  NoneAlive(m, n)
<1> SUFFICES ASSUME NEW i \in 1 .. MaxSpawns, WrapperAlive(<<m, n, i>>) PROVE FALSE
    BY DEF NoneAlive
<1>1. i = handle[m][n]
    BY DEF IInv, Held
<1> QED BY <1>1 DEF Exited, Child, WrapperAlive

LEMMA StartNextKeeps == ASSUME IInv, NEW m \in Managers, StartNext(m) PROVE IInv'
<1> DEFINE n == Current(m)
<1>1. next[m] \in DOMAIN Order /\ pc[m] = "starting"
    BY OrderDomain DEF StartNext, LoopLeft, IInv, TypeOK
<1>2. n \in Names /\ handle[m][n] = 0
    BY <1>1, OrderNames DEF Current, IInv, Unstarted, TypeOK
<1>3. StartProcess(m, n) /\ UNCHANGED <<lock, pc>> /\ next' = [next EXCEPT ![m] = @ + 1]
    BY DEF StartNext
<1>4. NoneAlive(m, n)
    BY <1>2, HandleFree
<1> HIDE DEF n
<1>5. TypeOK'
  <2>1. next' \in [Managers -> 1 .. Len(Order) + 1]
      BY <1>1, <1>3, OrderDomain DEF IInv, TypeOK
  <2> QED BY <2>1, <1>2, <1>3, <1>4, StartCopy DEF IInv, TypeOK
<1>6. OneSupervisor'
    BY <1>3 DEF IInv, OneSupervisor
<1>7. Held'
    BY <1>2, <1>3, <1>4, StartCopy
<1>8. Unstarted'
  <2>1. \A k \in DOMAIN Order : k >= next[m] + 1 => Order[k] # n /\ k >= next[m]
      BY <1>1, OrderDomain DEF n, Current
  <2>2. \A a \in Managers, b \in Names : a # m \/ b # n => handle'[a][b] = handle[a][b]
      BY <1>2, <1>3, <1>4, StartCopy
  <2>3. ASSUME NEW a \in Managers, NEW k \in DOMAIN Order,
               pc'[a] = "starting", k >= next'[a]
        PROVE  handle'[a][Order[k]] = 0
    <3>1. k >= next[a] /\ (a # m \/ Order[k] # n)
        BY <2>1, <2>3, <1>3, <1>1, OrderDomain DEF IInv, TypeOK
    <3> QED BY <3>1, <2>2, <2>3, <1>3, OrderNames DEF IInv, Unstarted
  <2>4. ASSUME NEW a \in Managers, pc'[a] = "off"
        PROVE  next'[a] = 1 /\ \A b \in Names : handle'[a][b] = 0
    <3>1. a # m /\ pc[a] = "off"
        BY <2>4, <1>1, <1>3
    <3>2. next'[a] = next[a]
        BY <3>1, <1>3 DEF IInv, TypeOK
    <3>3. next[a] = 1 /\ \A b \in Names : handle[a][b] = 0
        BY <3>1 DEF IInv, Unstarted
    <3> QED BY <3>1, <3>2, <3>3, <2>2
  <2> QED BY <2>3, <2>4 DEF Unstarted
<1>9. Told' /\ AllTold'
  <2>1. \A a \in Managers : pc'[a] \in {"stopping", "killing", "finished"} =>
            a # m /\ next'[a] = next[a]
      BY <1>1, <1>3 DEF IInv, TypeOK
  <2>2. \A a \in Managers, b \in Names, i \in 1 .. MaxSpawns :
            a # m => WrapperAlive(<<a, b, i>>)' = WrapperAlive(<<a, b, i>>)
      BY <1>2, <1>3, <1>4, StartCopy
  <2> QED BY <2>1, <2>2, <1>3, OrderNames DEF IInv, Told, AllTold, LoopLeft
<1> QED BY <1>5, <1>6, <1>7, <1>8, <1>9 DEF IInv

LEMMA RespawnKeeps ==
    ASSUME IInv, NEW m \in Managers, NEW n \in Names, Respawn(m, n) PROVE IInv'
<1>1. NoneAlive(m, n)
    BY HandleFree DEF Respawn
<1>2. StartProcess(m, n) /\ UNCHANGED <<lock, pc, next>> /\ pc[m] = "running"
    BY DEF Respawn
<1>3. TypeOK'
    BY <1>1, <1>2, StartCopy DEF IInv, TypeOK
<1>4. OneSupervisor'
    BY <1>2 DEF IInv, OneSupervisor
<1>5. Held'
    BY <1>1, <1>2, StartCopy
<1>6. Unstarted'
  <2>1. \A a \in Managers, b \in Names : a # m => handle'[a][b] = handle[a][b]
      BY <1>1, <1>2, StartCopy
  <2> QED BY <2>1, <1>2, OrderNames DEF IInv, Unstarted
<1>7. Told' /\ AllTold'
  <2>1. \A a \in Managers, b \in Names, i \in 1 .. MaxSpawns :
            a # m => WrapperAlive(<<a, b, i>>)' = WrapperAlive(<<a, b, i>>)
      BY <1>1, <1>2, StartCopy
  <2> QED BY <2>1, <1>2, OrderNames DEF IInv, Told, AllTold, LoopLeft
<1> QED BY <1>3, <1>4, <1>5, <1>6, <1>7 DEF IInv

-----------------------------------------------------------------------------
(* Control of a manager after its start, and its way out.                  *)

\* The control of one manager moves within or out of its monitoring.
LEMMA MoveTypes ==
    ASSUME IInv, NEW m \in Managers, NEW to \in {"running", "stopping"},
           pc' = [pc EXCEPT ![m] = to], pc[m] \in {"starting", "running"},
           UNCHANGED lock,
           (UNCHANGED next /\ to = "running") \/ next' = [next EXCEPT ![m] = 1]
    PROVE  /\ pc' \in [Managers -> {"off", "starting", "running", "stopping", "killing"} \cup Ended]
           /\ next' \in [Managers -> 1 .. Len(Order) + 1]
           /\ OneSupervisor'
           /\ \A a \in Managers : a # m => pc'[a] = pc[a] /\ next'[a] = next[a]
           /\ pc'[m] = to
           /\ to = "stopping" => next'[m] = 1
<1>1. pc' \in [Managers -> {"off", "starting", "running", "stopping", "killing"} \cup Ended]
      /\ pc'[m] = to /\ \A a \in Managers : a # m => pc'[a] = pc[a]
    BY DEF IInv, TypeOK
<1>2. next \in [Managers -> 1 .. Len(Order) + 1] /\ 1 \in 1 .. Len(Order) + 1
    BY OrderDomain DEF IInv, TypeOK
<1>3. next' \in [Managers -> 1 .. Len(Order) + 1]
      /\ (to = "stopping" => next'[m] = 1) /\ \A a \in Managers : a # m => next'[a] = next[a]
  <2>1. CASE UNCHANGED next /\ to = "running"
      BY <1>2, <2>1
  <2>2. CASE next' = [next EXCEPT ![m] = 1]
      BY <1>2, <2>2
  <2> QED BY <2>1, <2>2
<1>4. OneSupervisor'
  <2>1. \A a \in Managers : pc'[a] \notin {"off"} \cup Ended => pc[a] \notin {"off"} \cup Ended
      BY <1>1 DEF Ended
  <2> QED BY <2>1 DEF IInv, OneSupervisor
<1> QED BY <1>1, <1>3, <1>4

\* Where the shutdown loop begins, it has passed nothing.
LEMMA MoveTold ==
    ASSUME IInv, NEW m \in Managers, NEW to \in {"running", "stopping"},
           UNCHANGED status, pc'[m] = to,
           to = "stopping" => next'[m] = 1,
           \A a \in Managers : a # m => pc'[a] = pc[a] /\ next'[a] = next[a]
    PROVE  Told' /\ AllTold'
<1>1. \A a \in Managers, n \in Names, i \in 1 .. MaxSpawns :
          WrapperAlive(<<a, n, i>>)' = WrapperAlive(<<a, n, i>>)
    BY DEF WrapperAlive
<1>2. Told'
  <2> SUFFICES ASSUME NEW a \in Managers, pc'[a] \in {"stopping", "killing"}
               PROVE  /\ \A k \in DOMAIN Order : k < next'[a] => NoneAlive(a, Order[k])'
                      /\ pc'[a] = "killing" => LoopLeft(a)'
      BY DEF Told, NoneAlive
  <2>1. CASE a = m
      BY <2>1, OrderDomain
  <2>2. CASE a # m
      BY <2>2, <1>1, OrderNames DEF IInv, Told, NoneAlive, LoopLeft
  <2> QED BY <2>1, <2>2
<1>3. AllTold'
    BY <1>1 DEF IInv, AllTold
<1> QED BY <1>2, <1>3

LEMMA ForgetKeeps ==
    ASSUME IInv, NEW m \in Managers, NEW n \in Names,
           ForgetExited(m, n) \/ RespawnFails(m, n)
    PROVE  IInv'
<1>1. /\ NoneAlive(m, n)
      /\ handle' = [handle EXCEPT ![m][n] = 0]
      /\ pc[m] = "running"
      /\ UNCHANGED <<lock, spawned, status>>
    BY HandleFree DEF ForgetExited, RespawnFails
<1>2. PICK to \in {"running", "stopping"} :
          /\ pc' = [pc EXCEPT ![m] = to]
          /\ (UNCHANGED next /\ to = "running") \/ next' = [next EXCEPT ![m] = 1]
  <2>1. CASE ForgetExited(m, n)
    <3>1. pc' = [pc EXCEPT ![m] = "running"] /\ UNCHANGED next
        BY <2>1, <1>1 DEF ForgetExited, IInv, TypeOK
    <3> QED BY <3>1
  <2>2. CASE RespawnFails(m, n)
      BY <2>2 DEF RespawnFails
  <2> QED BY <2>1, <2>2
<1>3. \A a \in Managers, b \in Names :
          handle'[a][b] = IF a = m /\ b = n THEN 0 ELSE handle[a][b]
    BY <1>1 DEF IInv, TypeOK
<1>4. TypeOK'
  <2>1. handle' \in [Managers -> [Names -> 0 .. MaxSpawns]]
      BY <1>1 DEF IInv, TypeOK
  <2>2. \A a \in Managers, b \in Names : handle'[a][b] \in {0, spawned[a][b]}
      BY <1>3 DEF IInv, TypeOK
  <2> QED BY <2>1, <2>2, <1>1, <1>2, MoveTypes DEF IInv, TypeOK
<1>5. OneSupervisor'
    BY <1>1, <1>2, MoveTypes
<1>6. Held'
    BY <1>1, <1>3 DEF IInv, Held, NoneAlive, WrapperAlive
<1>7. Unstarted'
  <2>1. /\ \A a \in Managers : a # m => pc'[a] = pc[a] /\ next'[a] = next[a]
        /\ pc'[m] \notin {"off", "starting"}
      BY <1>1, <1>2, MoveTypes
  <2>2. \A a \in Managers, b \in Names : a # m => handle'[a][b] = handle[a][b]
      BY <1>3
  <2> QED BY <2>1, <2>2, OrderNames DEF IInv, Unstarted
<1>8. Told' /\ AllTold'
    BY <1>1, <1>2, MoveTypes, MoveTold
<1> QED BY <1>4, <1>5, <1>6, <1>7, <1>8 DEF IInv

LEMMA ControlKeeps ==
    ASSUME IInv, NEW m \in Managers, Started(m) \/ BeginShutdown(m) PROVE IInv'
<1>1. UNCHANGED <<lock, handle, spawned, status>> /\ pc[m] \in {"starting", "running"}
    BY DEF Started, BeginShutdown
<1>2. PICK to \in {"running", "stopping"} :
          /\ pc' = [pc EXCEPT ![m] = to]
          /\ (UNCHANGED next /\ to = "running") \/ next' = [next EXCEPT ![m] = 1]
  <2>1. CASE Started(m)
      BY <2>1 DEF Started
  <2>2. CASE BeginShutdown(m)
      BY <2>2 DEF BeginShutdown
  <2> QED BY <2>1, <2>2
<1>3. TypeOK'
    BY <1>1, <1>2, MoveTypes DEF IInv, TypeOK
<1>4. OneSupervisor'
    BY <1>1, <1>2, MoveTypes
<1>5. Held'
    BY <1>1 DEF IInv, Held, WrapperAlive
<1>6. Unstarted'
  <2>1. /\ \A a \in Managers : a # m => pc'[a] = pc[a] /\ next'[a] = next[a]
        /\ pc'[m] \notin {"off", "starting"}
      BY <1>1, <1>2, MoveTypes
  <2> QED BY <2>1, <1>1 DEF IInv, Unstarted
<1>7. Told' /\ AllTold'
    BY <1>1, <1>2, MoveTypes, MoveTold
<1> QED BY <1>3, <1>4, <1>5, <1>6, <1>7 DEF IInv

\* A turn of the shutdown loop moves on from a node with no wrapper alive.
LEMMA TurnKeeps ==
    ASSUME IInv, NEW m \in Managers, NEW n \in Names, n = Current(m),
           pc[m] \in {"stopping", "killing"}, LoopLeft(m),
           UNCHANGED <<lock, handle, spawned>>,
           pc' = [pc EXCEPT ![m] = "stopping"], next' = [next EXCEPT ![m] = @ + 1],
           status' \in [Children -> {"unborn", "running", "leaving", "orphan", "stuck", "gone"}],
           \A a \in Managers, b \in Names, i \in 1 .. MaxSpawns :
               WrapperAlive(<<a, b, i>>)' => WrapperAlive(<<a, b, i>>),
           \A i \in 1 .. MaxSpawns : ~WrapperAlive(<<m, n, i>>)'
    PROVE  IInv'
<1>1. next' \in [Managers -> 1 .. Len(Order) + 1]
  <2>1. next \in [Managers -> 1 .. Len(Order) + 1] /\ next[m] \in 1 .. Len(Order)
      BY OrderDomain DEF LoopLeft, IInv, TypeOK
  <2>2. next[m] + 1 \in 1 .. Len(Order) + 1
      BY <2>1, OrderDomain
  <2> QED BY <2>1, <2>2
<1>2. TypeOK'
    BY <1>1 DEF IInv, TypeOK
<1>3. OneSupervisor'
    BY DEF IInv, TypeOK, OneSupervisor, Ended
<1>4. Held'
    BY DEF IInv, Held
<1>5. Unstarted'
    BY DEF IInv, TypeOK, Unstarted
<1>6. Told'
  <2> SUFFICES ASSUME NEW a \in Managers, pc'[a] \in {"stopping", "killing"}
               PROVE  /\ \A k \in DOMAIN Order : k < next'[a] => NoneAlive(a, Order[k])'
                      /\ pc'[a] = "killing" => LoopLeft(a)'
      BY DEF Told, NoneAlive
  <2>1. CASE a = m
    <3>1. \A k \in DOMAIN Order : k < next'[a] => k < next[m] \/ k = next[m]
        BY <2>1, OrderDomain DEF IInv, TypeOK
    <3>2. \A k \in DOMAIN Order : k < next[m] => NoneAlive(m, Order[k])
        BY DEF IInv, Told, NoneAlive
    <3>3. pc'[m] = "stopping"
        BY DEF IInv, TypeOK
    <3>4. ASSUME NEW k \in DOMAIN Order, k < next'[a] PROVE NoneAlive(a, Order[k])'
      <4>1. CASE k < next[m]
          BY <4>1, <2>1, <3>2, OrderNames DEF NoneAlive
      <4>2. CASE k = next[m]
          BY <4>2, <2>1 DEF NoneAlive, Current
      <4> QED BY <3>1, <3>4, <4>1, <4>2
    <3> QED BY <2>1, <3>3, <3>4
  <2>2. CASE a # m
    <3>1. pc'[a] = pc[a] /\ next'[a] = next[a]
        BY <2>2 DEF IInv, TypeOK
    <3> QED BY <3>1, OrderNames DEF IInv, Told, NoneAlive, LoopLeft
  <2> QED BY <2>1, <2>2
<1>7. AllTold'
    BY DEF IInv, TypeOK, AllTold
<1> QED BY <1>2, <1>3, <1>4, <1>5, <1>6, <1>7 DEF IInv

LEMMA CurrentName == ASSUME IInv, NEW m \in Managers, LoopLeft(m) PROVE Current(m) \in Names
BY OrderNames, OrderDomain DEF IInv, TypeOK, LoopLeft, Current

LEMMA SkipKeeps == ASSUME IInv, NEW m \in Managers, StopSkips(m) PROVE IInv'
<1>1. PICK n \in Names : n = Current(m)
    BY CurrentName DEF StopSkips
<1>2. NoneAlive(m, n)
    BY <1>1, HandleFree DEF StopSkips, NothingToStop
<1>3. pc' = [pc EXCEPT ![m] = "stopping"] /\ UNCHANGED status
    BY DEF StopSkips, IInv, TypeOK
<1>4. \A a \in Managers, b \in Names, i \in 1 .. MaxSpawns :
          WrapperAlive(<<a, b, i>>)' = WrapperAlive(<<a, b, i>>)
    BY <1>3 DEF WrapperAlive
<1>5. status' \in [Children -> {"unborn", "running", "leaving", "orphan", "stuck", "gone"}]
    BY <1>3 DEF IInv, TypeOK
<1>6. n = Current(m) /\ LoopLeft(m) /\ pc[m] = "stopping"
      /\ next' = [next EXCEPT ![m] = @ + 1] /\ UNCHANGED <<lock, handle, spawned>>
    BY <1>1 DEF StopSkips
<1>7. \A i \in 1 .. MaxSpawns : ~WrapperAlive(<<m, n, i>>)'
    BY <1>1, <1>2, <1>4 DEF NoneAlive
<1> QED BY <1>1, <1>3, <1>4, <1>5, <1>6, <1>7, TurnKeeps

Signalled(m, n, copy, after) == status' = [status EXCEPT ![<<m, n, copy>>] = after]

\* A signal to the child in hand: afterwards it is leaving, orphan or gone, or
\* the only wrapper that may still be alive.
LEMMA SignalEffect ==
    ASSUME IInv, NEW m \in Managers, NEW n \in Names,
           NEW copy \in 0 .. MaxSpawns, copy = handle[m][n],
           NEW after \in {"leaving", "orphan", "stuck", "gone"},
           Signalled(m, n, copy, after)
    PROVE  /\ status' \in [Children -> {"unborn", "running", "leaving", "orphan", "stuck", "gone"}]
           /\ \A a \in Managers, b \in Names, i \in 1 .. MaxSpawns :
                 a # m \/ b # n \/ i # copy =>
                     WrapperAlive(<<a, b, i>>)' = WrapperAlive(<<a, b, i>>)
           /\ after # "stuck" => \A i \in 1 .. MaxSpawns : ~WrapperAlive(<<m, n, i>>)'
<1>1. /\ status \in [Children -> {"unborn", "running", "leaving", "orphan", "stuck", "gone"}]
      /\ \A a \in Managers, b \in Names, i \in 1 .. MaxSpawns : <<a, b, i>> \in Children
    BY DEF Children, IInv, TypeOK
<1>2. \A a \in Managers, b \in Names, i \in 1 .. MaxSpawns :
          /\ a # m \/ b # n \/ i # copy => status'[<<a, b, i>>] = status[<<a, b, i>>]
          /\ a = m /\ b = n /\ i = copy => status'[<<a, b, i>>] = after
    BY <1>1 DEF Signalled
<1>3. status' \in [Children -> {"unborn", "running", "leaving", "orphan", "stuck", "gone"}]
    BY <1>1 DEF Signalled
<1>4. \A a \in Managers, b \in Names, i \in 1 .. MaxSpawns :
          a # m \/ b # n \/ i # copy => WrapperAlive(<<a, b, i>>)' = WrapperAlive(<<a, b, i>>)
    BY <1>2 DEF WrapperAlive
<1>5. after # "stuck" => \A i \in 1 .. MaxSpawns : ~WrapperAlive(<<m, n, i>>)'
  <2> SUFFICES ASSUME after # "stuck", NEW i \in 1 .. MaxSpawns
               PROVE  ~WrapperAlive(<<m, n, i>>)'
      OBVIOUS
  <2>1. CASE i = copy
      BY <2>1, <1>2 DEF WrapperAlive
  <2>2. CASE i # copy
      BY <2>2, <1>4 DEF IInv, Held
  <2> QED BY <2>1, <2>2
<1> QED BY <1>3, <1>4, <1>5

\* A signal that ends the wrapper, and the turn of the loop with it.
LEMMA SignalledKeeps ==
    ASSUME IInv, NEW m \in Managers, pc[m] \in {"stopping", "killing"}, LoopLeft(m),
           NEW after \in {"leaving", "orphan", "gone"},
           status' = [status EXCEPT ![Child(m, Current(m))] = after],
           pc' = [pc EXCEPT ![m] = "stopping"], next' = [next EXCEPT ![m] = @ + 1],
           UNCHANGED <<lock, handle, spawned>>
    PROVE  IInv'
<1>1. PICK n \in Names : n = Current(m)
    BY CurrentName
<1>2. PICK copy \in 0 .. MaxSpawns : copy = handle[m][n]
    BY <1>1 DEF IInv, TypeOK
<1>3. status' = [status EXCEPT ![<<m, n, copy>>] = after] /\ n = Current(m)
    BY <1>1, <1>2 DEF Child
<1>4. /\ status' \in [Children -> {"unborn", "running", "leaving", "orphan", "stuck", "gone"}]
      /\ \A a \in Managers, b \in Names, i \in 1 .. MaxSpawns :
             a # m \/ b # n \/ i # copy =>
                 WrapperAlive(<<a, b, i>>)' = WrapperAlive(<<a, b, i>>)
      /\ \A i \in 1 .. MaxSpawns : ~WrapperAlive(<<m, n, i>>)'
  <2>1. after \in {"leaving", "orphan", "stuck", "gone"} /\ after # "stuck"
      OBVIOUS
  <2>2. Signalled(m, n, copy, after)
      BY <1>3 DEF Signalled
  <2> QED BY <1>2, <2>1, <2>2, SignalEffect
<1>5. \A a \in Managers, b \in Names, i \in 1 .. MaxSpawns :
          WrapperAlive(<<a, b, i>>)' => WrapperAlive(<<a, b, i>>)
    BY <1>4
<1> QED BY <1>1, <1>3, <1>4, <1>5, TurnKeeps

LEMMA TerminatesKeeps == ASSUME IInv, NEW m \in Managers, StopTerminates(m) PROVE IInv'
<1>1. PICK after \in AfterSigterm :
          /\ status' = [status EXCEPT ![Child(m, Current(m))] = after]
          /\ IF after = "stuck"
             THEN pc' = [pc EXCEPT ![m] = "killing"] /\ UNCHANGED next
             ELSE next' = [next EXCEPT ![m] = @ + 1] /\ UNCHANGED pc
    BY DEF StopTerminates
<1>2. /\ pc[m] = "stopping" /\ LoopLeft(m) /\ ~NothingToStop(m)
      /\ UNCHANGED <<lock, handle, spawned>>
    BY DEF StopTerminates
<1>3. after \in {"leaving", "orphan", "stuck"}
    BY DEF AfterSigterm
<1>4. CASE after # "stuck"
  <2>1. pc' = [pc EXCEPT ![m] = "stopping"]
      BY <1>1, <1>2, <1>4 DEF IInv, TypeOK
  <2> QED BY <1>1, <1>2, <1>3, <1>4, <2>1, SignalledKeeps
<1>5. CASE after = "stuck"
  <2>1. PICK n \in Names : n = Current(m)
      BY <1>2, CurrentName
  <2>2. PICK copy \in 0 .. MaxSpawns : copy = handle[m][n]
      BY <2>1 DEF IInv, TypeOK
  <2>3. status' = [status EXCEPT ![<<m, n, copy>>] = after] /\ n = Current(m)
      BY <1>1, <2>1, <2>2 DEF Child
  <2>4. /\ status' \in [Children -> {"unborn", "running", "leaving", "orphan", "stuck", "gone"}]
        /\ \A a \in Managers, b \in Names, i \in 1 .. MaxSpawns :
               a # m \/ b # n \/ i # copy =>
                   WrapperAlive(<<a, b, i>>)' = WrapperAlive(<<a, b, i>>)
    <3>1. after \in {"leaving", "orphan", "stuck", "gone"}
        BY <1>3
    <3>2. Signalled(m, n, copy, after)
        BY <2>3 DEF Signalled
    <3> QED BY <2>2, <3>1, <3>2, SignalEffect
  <2>5. /\ UNCHANGED next
        /\ pc'[m] = "killing"
        /\ pc' \in [Managers -> {"off", "starting", "running", "stopping", "killing"} \cup Ended]
        /\ \A a \in Managers : a # m => pc'[a] = pc[a]
      BY <1>1, <1>5 DEF IInv, TypeOK
  <2>6. TypeOK'
      BY <1>2, <2>4, <2>5 DEF IInv, TypeOK
  <2>7. OneSupervisor'
      BY <1>2, <2>5 DEF IInv, OneSupervisor, Ended
  <2>8. Held'
      BY <1>2, <2>2, <2>4 DEF IInv, Held
  <2>9. Unstarted'
      BY <1>2, <2>5 DEF IInv, Unstarted
  <2>10. Told'
    <3> SUFFICES ASSUME NEW a \in Managers, pc'[a] \in {"stopping", "killing"}
                 PROVE  /\ \A k \in DOMAIN Order : k < next'[a] => NoneAlive(a, Order[k])'
                        /\ pc'[a] = "killing" => LoopLeft(a)'
        BY DEF Told, NoneAlive
    <3>1. \A k \in DOMAIN Order : k < next[m] => Order[k] # n
        BY <2>3, <1>2, OrderDomain DEF Current, LoopLeft, IInv, TypeOK
    <3>2. CASE a = m
        BY <3>1, <3>2, <1>2, <2>4, <2>5, OrderNames DEF IInv, Told, NoneAlive, LoopLeft
    <3>3. CASE a # m
        BY <3>3, <2>4, <2>5, OrderNames DEF IInv, Told, NoneAlive, LoopLeft
    <3> QED BY <3>2, <3>3
  <2>11. AllTold'
      BY <2>4, <2>5 DEF IInv, AllTold
  <2> QED BY <2>6, <2>7, <2>8, <2>9, <2>10, <2>11 DEF IInv
<1> QED BY <1>4, <1>5

LEMMA KillsKeeps == ASSUME IInv, NEW m \in Managers, StopKills(m) PROVE IInv'
BY SignalledKeeps DEF StopKills, IInv, Told

\* The loop has passed every node, so no wrapper is left.
LEMMA FinishKeeps == ASSUME IInv, NEW m \in Managers, Finish(m) PROVE IInv'
<1>1. /\ pc[m] = "stopping" /\ ~LoopLeft(m) /\ pc' = [pc EXCEPT ![m] = "finished"]
      /\ lock' = IF lock = m THEN None ELSE lock
      /\ UNCHANGED <<next, handle, spawned, status>>
    BY DEF Finish, Ends
<1>2. TypeOK'
    BY <1>1 DEF IInv, TypeOK, Ended
<1>3. OneSupervisor'
    BY <1>1 DEF IInv, TypeOK, OneSupervisor, Ended
<1>4. Held'
    BY <1>1 DEF IInv, Held, WrapperAlive
<1>5. Unstarted'
    BY <1>1 DEF IInv, TypeOK, Unstarted
<1>6. Told'
    BY <1>1 DEF IInv, TypeOK, Told, WrapperAlive, LoopLeft
<1>7. AllTold'
  <2> SUFFICES ASSUME NEW a \in Managers, pc'[a] = "finished", NEW n \in Names
               PROVE  NoneAlive(a, n)'
      BY DEF AllTold, NoneAlive
  <2>1. CASE a = m
    <3>1. PICK k \in DOMAIN Order : n = Order[k]
        BY NamesOrdered
    <3>2. k < next[m]
        BY <1>1, OrderDomain DEF LoopLeft, IInv, TypeOK
    <3>3. NoneAlive(m, n)
        BY <3>1, <3>2, <1>1 DEF IInv, Told, NoneAlive
    <3> QED BY <2>1, <3>3, <1>1 DEF NoneAlive, WrapperAlive
  <2>2. CASE a # m
      BY <2>2, <1>1 DEF IInv, TypeOK, AllTold, NoneAlive, WrapperAlive
  <2> QED BY <2>1, <2>2
<1> QED BY <1>2, <1>3, <1>4, <1>5, <1>6, <1>7 DEF IInv

-----------------------------------------------------------------------------
(* Every step.                                                             *)

LEMMA WorldKeeps ==
    ASSUME IInv, NEW c \in Children, NodeCrashes(c) \/ WrapperDies(c) \/ Leaves(c)
    PROVE  IInv'
<1>1. PICK new \in {"gone", "orphan"} : status' = [status EXCEPT ![c] = new]
    BY DEF NodeCrashes, WrapperDies, Leaves, Becomes
<1>2. UNCHANGED <<lock, pc, next, handle, spawned>>
    BY DEF NodeCrashes, WrapperDies, Leaves, Becomes
<1>3. \A m \in Managers, n \in Names, i \in 1 .. MaxSpawns :
          WrapperAlive(<<m, n, i>>)' => WrapperAlive(<<m, n, i>>)
  <2>1. \A d \in Children : status'[d] = IF d = c THEN new ELSE status[d]
      BY <1>1 DEF IInv, TypeOK
  <2>2. \A m \in Managers, n \in Names, i \in 1 .. MaxSpawns : <<m, n, i>> \in Children
      BY DEF Children
  <2> QED BY <2>1, <2>2 DEF WrapperAlive
<1>4. TypeOK'
    BY <1>1, <1>2 DEF IInv, TypeOK
<1>5. OneSupervisor' /\ Unstarted'
    BY <1>2 DEF IInv, OneSupervisor, Unstarted
<1>6. Held' /\ AllTold'
    BY <1>2, <1>3 DEF IInv, Held, AllTold
<1>7. Told'
    BY <1>2, <1>3, OrderNames DEF IInv, Told, LoopLeft
<1> QED BY <1>4, <1>5, <1>6, <1>7 DEF IInv

LEMMA ExitsKeep ==
    ASSUME IInv, NEW m \in Managers,
           LockRefused(m) \/ ConstructorRaises(m) \/ StopRaises(m) \/ ManagerKilled(m)
    PROVE  IInv'
<1>1. /\ pc' = [pc EXCEPT ![m] = "exited"]
      /\ lock' = lock \/ (lock = m /\ lock' = None)
      /\ UNCHANGED <<next, handle, spawned, status>>
    BY DEF LockRefused, ConstructorRaises, StopRaises, ManagerKilled, Ends
<1> QED BY <1>1, ExitKeeps

LEMMA StutterKeeps == IInv /\ UNCHANGED vars => IInv'
BY DEF vars, IInv, TypeOK, OneSupervisor, Held, Unstarted, Told, AllTold, WrapperAlive, LoopLeft

LEMMA NextIInv == IInv /\ [Next]_vars => IInv'
<1> SUFFICES ASSUME IInv, [Next]_vars PROVE IInv'
    OBVIOUS
<1>1. ASSUME NEW m \in Managers, AcquireLock(m) PROVE IInv'
    BY <1>1, AcquireKeeps
<1>2. ASSUME NEW m \in Managers,
             LockRefused(m) \/ ConstructorRaises(m) \/ StopRaises(m) \/ ManagerKilled(m)
      PROVE  IInv'
    BY <1>2, ExitsKeep
<1>3. ASSUME NEW m \in Managers, ManagerStep(m) PROVE IInv'
    BY <1>3, StartNextKeeps, ControlKeeps, SkipKeeps, TerminatesKeeps, KillsKeeps, FinishKeeps
       DEF ManagerStep
<1>4. ASSUME NEW m \in Managers, BeginShutdown(m) PROVE IInv'
    BY <1>4, ControlKeeps
<1>5. ASSUME NEW m \in Managers, NEW n \in Names,
             Respawn(m, n) \/ ForgetExited(m, n) \/ RespawnFails(m, n)
      PROVE  IInv'
    BY <1>5, RespawnKeeps, ForgetKeeps
<1>6. ASSUME NEW c \in Children, NodeCrashes(c) \/ WrapperDies(c) \/ Leaves(c) PROVE IInv'
    BY <1>6, WorldKeeps
<1>7. CASE UNCHANGED vars
    BY <1>7, StutterKeeps
<1> QED BY <1>1, <1>2, <1>3, <1>4, <1>5, <1>6, <1>7 DEF Next, MonitorStep

-----------------------------------------------------------------------------
\* The invariant of the manager holds in every reachable state.
THEOREM Inductive == Spec => []IInv
BY InitIInv, NextIInv, PTL DEF Spec

\* Every variable keeps its type; a handle is None or on the newest copy.
THEOREM TypeCorrect == Spec => []TypeOK
<1>1. IInv => TypeOK
    BY DEF IInv
<1> QED BY <1>1, Inductive, PTL

\* Only the holder of the lock supervises, whatever kills managers and whenever.
THEOREM SupervisorTheorem == Spec => []OneSupervisor
<1>1. IInv => OneSupervisor
    BY DEF IInv
<1> QED BY <1>1, Inductive, PTL

\* No manager ever has two copies of one node under it, as far as poll() sees.
THEOREM CopyTheorem == Spec => []OneCopyPerManager
<1>1. IInv => OneCopyPerManager
    BY DEF IInv, Held, OneCopyPerManager
<1> QED BY <1>1, Inductive, PTL

\* A shutdown loop that came to its end has told every child, for any number
\* of nodes and whatever happened between its turns.
THEOREM ShutdownTheorem == Spec => []NothingLeftRunning
<1>1. IInv => NothingLeftRunning
  <2> SUFFICES ASSUME IInv, NEW m \in Managers, pc[m] = "finished",
                      NEW c \in Children, c[1] = m
               PROVE  ~WrapperAlive(c)
      BY DEF NothingLeftRunning
  <2>1. c = <<m, c[2], c[3]>> /\ c[2] \in Names /\ c[3] \in 1 .. MaxSpawns
      BY DEF Children
  <2> QED BY <2>1 DEF IInv, AllTold
<1> QED BY <1>1, Inductive, PTL
=============================================================================
