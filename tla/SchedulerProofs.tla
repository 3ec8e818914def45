-------------------------- MODULE SchedulerProofs --------------------------
(***************************************************************************)
(* The scheduler of module Scheduler, for every number of callers and of   *)
(* starts: the WaitGroup counts the loops that are alive, a running        *)
(* Maintainer is served, and a Stop that returns nil has waited.           *)
(***************************************************************************)
EXTENDS Scheduler, FiniteSetTheorems, TLAPS

AliveLoops == {i \in StartIds : Alive(i)}

\* The starts are numbered without gaps, and every channel and waiter
\* belongs to one of them.
Numbered ==
    /\ \A i \in StartIds : loop[i].step = "none" <=> i > done
    /\ closed \subseteq 1 .. done
    /\ \A u \in Users : user[u].step = "wait" => user[u].on \in 1 .. done

\* The counter of the WaitGroup.
Counts == wg = Cardinality(AliveLoops)

\* The channel of a running Maintainer is open, and its own loop, the one
\* the last Start spawned, has yet to read s.done or found this channel.
Served ==
    running => /\ done \in StartIds /\ done \notin closed
               /\ \/ loop[done].step = "spawned"
                  \/ Alive(done) /\ loop[done].done = done

\* A waiter that came back from wg.Wait leaves no loop behind that was
\* spawned before its channel was closed.
Waited ==
    \A i \in StartIds : waiter[i] # "none" =>
        /\ i <= done
        /\ waiter[i] = "done" => \A j \in 1 .. i : loop[j].step = "exited"

SchedInv == TypeOK /\ Numbered /\ Counts /\ Served /\ Waited

-----------------------------------------------------------------------------
(* Counting the loops *)

\* AliveLoops is finite, so wg counts it.
LEMMA AliveFinite ==
    /\ IsFiniteSet(AliveLoops) /\ Cardinality(AliveLoops) \in Nat
    /\ Cardinality(AliveLoops) = 0 <=> AliveLoops = {}
<1>1. IsFiniteSet(StartIds)
  BY FS_Interval, SchedulerAssumption DEF StartIds
<1>2. IsFiniteSet(AliveLoops)
  BY <1>1, FS_Subset DEF AliveLoops
<1> QED BY <1>2, FS_CardinalityType, FS_EmptySet

\* A Start, whose loop is a new one, raises the count by one (wg.Add).
LEMMA CountUp ==
    ASSUME NEW i \in StartIds, i \notin AliveLoops, AliveLoops' = AliveLoops \cup {i}
    PROVE  Cardinality(AliveLoops') = Cardinality(AliveLoops) + 1
BY AliveFinite, FS_AddElement

\* The end of a loop lowers it by one (wg.Done).
LEMMA CountDown ==
    ASSUME NEW i \in AliveLoops, AliveLoops' = AliveLoops \ {i}
    PROVE  Cardinality(AliveLoops') = Cardinality(AliveLoops) - 1
BY AliveFinite, FS_RemoveElement

\* With the counter at zero every loop that was spawned has exited.
LEMMA ZeroMeansExited ==
    ASSUME SchedInv, wg = 0
    PROVE  \A i \in 1 .. done : loop[i].step = "exited"
<1>1. AliveLoops = {}
  BY AliveFinite DEF SchedInv, Counts
<1>2. \A i \in 1 .. done : i \in StartIds /\ ~(i > done)
  BY SchedulerAssumption DEF SchedInv, TypeOK, StartIds
<1>3. \A i \in 1 .. done : loop[i].step # "none" /\ ~Alive(i)
  BY <1>1, <1>2 DEF SchedInv, Numbered, AliveLoops
<1> QED BY <1>2, <1>3 DEF SchedInv, TypeOK, Alive

-----------------------------------------------------------------------------
(* The inductive invariant *)

\* Nothing has been started.
LEMMA SchedInvInit ==
    ASSUME Init PROVE SchedInv
<1>0. 0 \in 0 .. MaxStarts
  BY SchedulerAssumption
<1>1. TypeOK
  BY <1>0 DEF Init, TypeOK, NoCall
<1>2. AliveLoops = {}
  BY DEF Init, AliveLoops, Alive
<1>3. Counts
  BY <1>2, FS_EmptySet DEF Init, Counts
<1>4. Numbered /\ Served /\ Waited
  BY SchedulerAssumption DEF Init, Numbered, Served, Waited, NoCall, StartIds
<1> QED BY <1>1, <1>3, <1>4 DEF SchedInv

\* Start numbers a loop, counts it and opens its channel.
LEMMA StartKeeps ==
    ASSUME SchedInv, NEW u \in Users, Start(u) PROVE SchedInv'
<1> USE SchedulerAssumption
<1> DEFINE n == done + 1
<1>0. /\ n \in StartIds /\ done \in 0 .. MaxStarts /\ TypeOK
      /\ done' = n /\ wg' = wg + 1 /\ ~running /\ running' = TRUE
      /\ loop' = [loop EXCEPT ![n].step = "spawned"]
      /\ UNCHANGED <<closed, tick, waiter, user, panicked>>
  BY DEF SchedInv, TypeOK, Start, StartIds
<1> HIDE DEF n
<1>1. loop[n].step = "none" /\ n \notin AliveLoops
  BY <1>0 DEF SchedInv, Numbered, AliveLoops, Alive, n, StartIds
<1>2. /\ loop' \in [StartIds -> [step : {"none", "spawned", "select", "maintain", "exited"},
                                 done : 0 .. MaxStarts]]
      /\ loop'[n].step = "spawned" /\ \A i \in StartIds : i # n => loop'[i] = loop[i]
  BY <1>0 DEF TypeOK
<1>3. AliveLoops' = AliveLoops \cup {n}
  BY <1>0, <1>2 DEF AliveLoops, Alive
<1>4. Counts'
  BY <1>0, <1>1, <1>3, CountUp DEF SchedInv, Counts
<1>5. TypeOK'
  BY <1>0, <1>2 DEF TypeOK, StartIds
<1>6. closed \subseteq 1 .. done /\ \A i \in 1 .. done : i \in 1 .. n /\ i # n
  BY <1>0 DEF SchedInv, Numbered, n
<1>7. Numbered'
  <2>1. \A i \in StartIds : loop'[i].step = "none" <=> i > n
    BY <1>0, <1>2 DEF SchedInv, Numbered, n, StartIds
  <2> QED BY <1>0, <1>6, <2>1 DEF SchedInv, Numbered
<1>8. Served'
  BY <1>0, <1>2, <1>6 DEF Served
<1>9. Waited'
  <2> SUFFICES ASSUME NEW i \in StartIds, waiter[i] # "none"
               PROVE  /\ i <= n
                      /\ waiter[i] = "done" => \A j \in 1 .. i : loop'[j].step = "exited"
    BY <1>0 DEF Waited
  <2>1. i <= done /\ i <= n /\ \A j \in 1 .. i : j \in StartIds /\ j # n
    BY <1>0 DEF SchedInv, Waited, n, StartIds
  <2> QED BY <1>2, <2>1 DEF SchedInv, Waited
<1> QED BY <1>4, <1>5, <1>7, <1>8, <1>9 DEF SchedInv

\* Stop closes the newest channel and has a waiter wait.
LEMMA StopKeeps ==
    ASSUME SchedInv, NEW u \in Users, Stop(u) PROVE SchedInv'
<1> USE SchedulerAssumption
<1>0. /\ TypeOK /\ done \in StartIds /\ running' = FALSE
      /\ closed' = closed \cup {done} /\ waiter' = [waiter EXCEPT ![done] = "spawned"]
      /\ user' = [user EXCEPT ![u] = [step |-> "wait", on |-> done]]
      /\ UNCHANGED <<done, wg, loop, tick, panicked>>
  BY DEF SchedInv, Served, Stop
<1>1. TypeOK'
  BY <1>0 DEF TypeOK, StartIds
<1>2. Counts'
  BY <1>0 DEF SchedInv, Counts, AliveLoops, Alive
<1>3. Numbered'
  BY <1>0 DEF SchedInv, Numbered, TypeOK, StartIds
<1>4. Served' /\ Waited'
  BY <1>0 DEF SchedInv, Served, Waited, TypeOK, StartIds
<1> QED BY <1>1, <1>2, <1>3, <1>4 DEF SchedInv

\* The other steps of a caller change only what it waits for.
LEMMA CallerKeeps ==
    ASSUME SchedInv, NEW u \in Users,
           \/ StopNotRunning(u) \/ StopReturns(u) \/ StopExpires(u) \/ Resume(u)
    PROVE  SchedInv'
<1>0. TypeOK /\ UNCHANGED <<running, done, closed, wg, loop, tick, waiter, panicked>>
  BY DEF SchedInv, StopNotRunning, StopReturns, StopExpires, Resume
<1>1. /\ user' \in [Users -> [step : {"idle", "wait", "nil", "ctx"}, on : 0 .. MaxStarts]]
      /\ \A v \in Users : user'[v].step = "wait" => user'[v] = user[v]
  BY <1>0, SchedulerAssumption
     DEF StopNotRunning, StopReturns, StopExpires, Resume, NoCall, TypeOK
<1>2. TypeOK'
  BY <1>0, <1>1 DEF TypeOK
<1>3. Counts' /\ Served' /\ Waited'
  BY <1>0 DEF SchedInv, Counts, AliveLoops, Alive, Served, Waited
<1>4. Numbered'
  BY <1>0, <1>1 DEF SchedInv, Numbered
<1> QED BY <1>2, <1>3, <1>4 DEF SchedInv

\* A step of a loop that stays alive: it has read s.done, or goes between
\* select and Maintain, or its ticker fires.
LEMMA LoopStepKeeps ==
    ASSUME SchedInv, NEW i \in StartIds, LoopStep(i) \/ Tick(i)
    PROVE  SchedInv'
<1> USE SchedulerAssumption
<1>0. TypeOK /\ UNCHANGED <<running, done, closed, wg, waiter, user, panicked>>
  BY DEF SchedInv, LoopStep, LoopReadsDone, LoopMaintains, MaintainReturns, Tick
<1>1. /\ loop' \in [StartIds -> [step : {"none", "spawned", "select", "maintain", "exited"},
                                 done : 0 .. MaxStarts]]
      /\ \A j \in StartIds : j # i => loop'[j] = loop[j]
      /\ tick' \in [StartIds -> BOOLEAN]
      /\ Alive(i) /\ Alive(i)'
      /\ loop'[i].done = loop[i].done \/ loop'[i].done = done
      /\ loop'[i].step = loop[i].step \/ loop[i].step # "spawned" \/ loop'[i].done = done
  <2>1. CASE LoopReadsDone(i)
    BY <1>0, <2>1 DEF LoopReadsDone, TypeOK, Alive
  <2>2. CASE LoopMaintains(i)
    BY <1>0, <2>2 DEF LoopMaintains, LoopGoto, TypeOK, Alive
  <2>3. CASE MaintainReturns(i)
    BY <1>0, <2>3 DEF MaintainReturns, LoopGoto, TypeOK, Alive
  <2>4. CASE Tick(i)
    BY <1>0, <2>4 DEF Tick, TypeOK, Alive
  <2> QED BY <2>1, <2>2, <2>3, <2>4 DEF LoopStep
<1>2. TypeOK'
  BY <1>0, <1>1 DEF TypeOK
<1>3. AliveLoops' = AliveLoops
  BY <1>1 DEF AliveLoops, Alive
<1>4. Counts'
  BY <1>0, <1>3 DEF SchedInv, Counts
<1>5. \A j \in StartIds : /\ loop'[j].step = "none" <=> loop[j].step = "none"
                          /\ loop[j].step = "exited" => loop'[j].step = "exited"
  BY <1>1 DEF Alive
<1>6. Numbered'
  BY <1>0, <1>5 DEF SchedInv, Numbered
<1>7. Served'
  BY <1>0, <1>1 DEF SchedInv, Served, Alive
<1>8. Waited'
  BY <1>0, <1>5 DEF SchedInv, Waited, StartIds
<1> QED BY <1>2, <1>4, <1>6, <1>7, <1>8 DEF SchedInv

\* The loop that exits is not the one a running Maintainer is served by:
\* its channel is closed.
LEMMA LoopExitsKeeps ==
    ASSUME SchedInv, NEW i \in StartIds, LoopExits(i) PROVE SchedInv'
<1> USE SchedulerAssumption
<1>0. /\ TypeOK /\ loop[i].step = "select" /\ loop[i].done \in closed
      /\ loop' = [loop EXCEPT ![i].step = "exited"] /\ wg' = wg - 1
      /\ waiter' = [j \in StartIds |->
                      IF wg = 1 /\ waiter[j] = "parked" THEN "woken" ELSE waiter[j]]
      /\ UNCHANGED <<running, done, closed, tick, user, panicked>>
  BY DEF SchedInv, LoopExits, LoopGoto
<1>1. /\ loop' \in [StartIds -> [step : {"none", "spawned", "select", "maintain", "exited"},
                                 done : 0 .. MaxStarts]]
      /\ \A j \in StartIds : j # i => loop'[j] = loop[j]
      /\ loop'[i].step = "exited"
  BY <1>0 DEF TypeOK
<1>2. i \in AliveLoops /\ AliveLoops' = AliveLoops \ {i}
  BY <1>0, <1>1 DEF AliveLoops, Alive
<1>3. Counts' /\ wg' \in Nat
  <2>1. Cardinality(AliveLoops) \in Nat /\ Cardinality(AliveLoops) # 0
    BY <1>2, AliveFinite
  <2>2. Cardinality(AliveLoops') = Cardinality(AliveLoops) - 1
    BY <1>2, CountDown
  <2>3. wg = Cardinality(AliveLoops)
    BY DEF SchedInv, Counts
  <2>4. Counts'
    BY <1>0, <2>2, <2>3 DEF Counts
  <2> QED BY <1>0, <2>1, <2>3, <2>4
<1>4. /\ waiter' \in [StartIds -> {"none", "spawned", "parked", "woken", "done"}]
      /\ \A j \in StartIds : /\ waiter'[j] # "none" => waiter[j] # "none"
                             /\ waiter'[j] = "done" => waiter[j] = "done"
  BY <1>0 DEF TypeOK
<1>5. TypeOK'
  BY <1>0, <1>1, <1>3, <1>4 DEF TypeOK
<1>6. Numbered'
  BY <1>0, <1>1 DEF SchedInv, Numbered
<1>7. Served'
  BY <1>0, <1>1 DEF SchedInv, Served, Alive
<1>8. Waited'
  BY <1>0, <1>1, <1>4 DEF SchedInv, Waited, StartIds
<1> QED BY <1>3, <1>5, <1>6, <1>7, <1>8 DEF SchedInv

\* A waiter is done only in a state where the counter is zero.
LEMMA WaiterKeeps ==
    ASSUME SchedInv, NEW i \in StartIds, WaiterStep(i) PROVE SchedInv'
<1> USE SchedulerAssumption
<1>0. /\ TypeOK /\ waiter[i] # "none" /\ panicked' \in BOOLEAN
      /\ UNCHANGED <<running, done, closed, wg, loop, tick, user>>
  BY DEF SchedInv, TypeOK, WaiterStep, WaiterWaits, WaiterWakes
<1>1. /\ waiter' \in [StartIds -> {"none", "spawned", "parked", "woken", "done"}]
      /\ \A j \in StartIds : j # i => waiter'[j] = waiter[j]
      /\ waiter'[i] = "done" => wg = 0
  <2>1. CASE WaiterWaits(i)
    BY <1>0, <2>1 DEF WaiterWaits, TypeOK
  <2>2. CASE WaiterWakes(i)
    BY <1>0, <2>2 DEF WaiterWakes, TypeOK
  <2> QED BY <2>1, <2>2 DEF WaiterStep
<1>2. TypeOK'
  BY <1>0, <1>1 DEF TypeOK
<1>3. Counts' /\ Numbered' /\ Served'
  BY <1>0 DEF SchedInv, Counts, AliveLoops, Alive, Numbered, Served
<1>4. Waited'
  <2> SUFFICES ASSUME NEW j \in StartIds, waiter'[j] # "none"
               PROVE  /\ j <= done
                      /\ waiter'[j] = "done" => \A k \in 1 .. j : loop[k].step = "exited"
    BY <1>0 DEF Waited
  <2>1. CASE j # i
    BY <1>1, <2>1 DEF SchedInv, Waited
  <2>2. CASE j = i
    <3>1. j <= done /\ \A k \in 1 .. j : k \in 1 .. done
      BY <1>0, <2>2 DEF SchedInv, Waited, TypeOK, StartIds
    <3> QED BY <1>1, <2>2, <3>1, ZeroMeansExited
  <2> QED BY <2>1, <2>2
<1> QED BY <1>2, <1>3, <1>4 DEF SchedInv

\* Each step preserves the invariant.
LEMMA SchedInvStep ==
    ASSUME SchedInv, [Next]_vars PROVE SchedInv'
<1>1. CASE UNCHANGED vars
  BY <1>1 DEF vars, SchedInv, TypeOK, Numbered, Counts, AliveLoops, Alive, Served, Waited
<1>2. CASE Next
  BY <1>2, StartKeeps, StopKeeps, CallerKeeps, LoopStepKeeps, LoopExitsKeeps, WaiterKeeps
     DEF Next, Call
<1> QED BY <1>1, <1>2

\* Every reachable state satisfies the invariant.
LEMMA SchedInvHolds == Spec => []SchedInv
<1>1. Init => SchedInv
  BY SchedInvInit
<1>2. SchedInv /\ [Next]_vars => SchedInv'
  BY SchedInvStep
<1> QED BY <1>1, <1>2, PTL DEF Spec

-----------------------------------------------------------------------------
(* The theorems *)

\* The state keeps its types, for every number of callers and starts; in
\* particular the counter of s.wg never goes below zero, where wg.Done
\* panics (scheduler.go start, loop).
THEOREM TypeCorrect == Spec => []TypeOK
<1>1. SchedInv => TypeOK
  BY DEF SchedInv
<1> QED BY <1>1, SchedInvHolds, PTL

\* While the Maintainer is running a loop listens, or is about to, on the
\* channel the next Stop closes, whatever the callers of Start and Stop did
\* before (scheduler.go loop).
THEOREM RunningIsServed == Spec => []RunningHasLoop
<1>1. SchedInv => RunningHasLoop
  BY DEF SchedInv, Served, RunningHasLoop, StartIds
<1> QED BY <1>1, SchedInvHolds, PTL

\* A Stop that waited and returns nil has seen its own loop and every
\* earlier one exit, for every number of concurrent callers (scheduler.go
\* stop, wg.Wait).
THEOREM StopHasWaited == Spec => StopWaits
<1>1. ASSUME SchedInv, [Next]_vars,
             NEW u \in Users, user[u].step = "wait", user'[u].step = "nil"
      PROVE  \A i \in 1 .. user[u].on : loop[i].step = "exited"
  <2>0. /\ user[u].on \in 1 .. done /\ user[u].on \in StartIds /\ user[u].on \in Nat
        /\ user \in [Users -> [step : {"idle", "wait", "nil", "ctx"}, on : 0 .. MaxStarts]]
    BY <1>1, SchedulerAssumption DEF SchedInv, Numbered, TypeOK, StartIds
  <2>1. waiter[user[u].on] = "done"
    <3>1. CASE UNCHANGED vars
      BY <1>1, <3>1 DEF vars
    <3>2. ASSUME NEW v \in Users, Call(v) PROVE FALSE
      BY <1>1, <2>0, <3>2
         DEF Call, Start, Stop, StopNotRunning, StopExpires, Resume, NoCall
    <3>3. ASSUME NEW v \in Users, StopReturns(v) PROVE waiter[user[u].on] = "done"
      BY <1>1, <2>0, <3>3 DEF StopReturns
    <3>4. ASSUME NEW i \in StartIds,
                 LoopStep(i) \/ LoopExits(i) \/ Tick(i) \/ WaiterStep(i)
          PROVE  FALSE
      BY <1>1, <3>4 DEF LoopStep, LoopReadsDone, LoopMaintains, MaintainReturns, LoopExits,
                        Tick, WaiterStep, WaiterWaits, WaiterWakes
    <3> QED BY <1>1, <3>1, <3>2, <3>3, <3>4 DEF Next
  <2> QED BY <1>1, <2>0, <2>1 DEF SchedInv, Waited
<1>2. SchedInv /\ [Next]_vars =>
        [\A u \in Users : user[u].step = "wait" /\ user'[u].step = "nil" =>
            \A i \in 1 .. user[u].on : loop[i].step = "exited"]_vars
  BY <1>1
<1> QED BY <1>2, SchedInvHolds, PTL DEF Spec, StopWaits
=============================================================================
