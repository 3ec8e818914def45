----------------------------- MODULE Scheduler -----------------------------
(***************************************************************************)
(* The scheduler of one Maintainer (internal/maintainer/scheduler.go): the *)
(* goroutine Start spins, the done channel Stop closes, and the WaitGroup  *)
(* Stop waits on.  Each mutex section is one step.                         *)
(*                                                                         *)
(* The i-th successful start makes channel i and spawns loop i; the Stop   *)
(* that closes channel i spawns waiter i.  A loop reads s.done only once   *)
(* it runs, so it may find a later channel than its own.                   *)
(***************************************************************************)
EXTENDS Integers, FiniteSets

CONSTANTS
    Users,         \* goroutines that call Start and Stop
    MaxStarts,     \* bound: successful calls of Start
    CtxMayExpire   \* the ctx given to Stop may expire

ASSUME SchedulerAssumption ==
    MaxStarts \in Nat /\ CtxMayExpire \in BOOLEAN

VARIABLES
    running,   \* s.running
    done,      \* s.done: the number of the channel, 0 before the first start
    closed,    \* the channels that are closed
    wg,        \* the counter of s.wg
    loop,      \* the loops, by the start that spawned them
    tick,      \* ticker.C of each loop holds a tick
    waiter,    \* the goroutines of stop that call wg.Wait
    user,      \* the call each user is in, or its result
    panicked   \* sync.WaitGroup panicked; the process is gone

vars == <<running, done, closed, wg, loop, tick, waiter, user, panicked>>

StartIds == 1 .. MaxStarts
NoCall == [step |-> "idle", on |-> 0]

TypeOK ==
    /\ running \in BOOLEAN /\ panicked \in BOOLEAN
    /\ done \in 0 .. MaxStarts
    /\ closed \subseteq StartIds
    /\ wg \in Nat
    /\ loop \in [StartIds -> [step : {"none", "spawned", "select", "maintain", "exited"},
                              done : 0 .. MaxStarts]]
    /\ tick \in [StartIds -> BOOLEAN]
    /\ waiter \in [StartIds -> {"none", "spawned", "parked", "woken", "done"}]
    /\ user \in [Users -> [step : {"idle", "wait", "nil", "ctx"}, on : 0 .. MaxStarts]]

Init ==
    /\ running = FALSE /\ done = 0 /\ closed = {} /\ wg = 0
    /\ loop = [i \in StartIds |-> [step |-> "none", done |-> 0]]
    /\ tick = [i \in StartIds |-> FALSE]
    /\ waiter = [i \in StartIds |-> "none"]
    /\ user = [u \in Users |-> NoCall]
    /\ panicked = FALSE

Alive(i) == loop[i].step \in {"spawned", "select", "maintain"}

-----------------------------------------------------------------------------
(* start and stop *)

\* A start while running returns errAlreadyStarted and changes nothing.
Start(u) ==
    /\ user[u].step = "idle" /\ ~running /\ done < MaxStarts
    /\ running' = TRUE
    /\ done' = done + 1
    /\ wg' = wg + 1
    /\ loop' = [loop EXCEPT ![done + 1].step = "spawned"]
    /\ UNCHANGED <<closed, tick, waiter, user, panicked>>

\* Mutant of Stop: the flag is not cleared.
StopKeepsRunning(u) ==
    /\ user[u].step = "idle" /\ running /\ done \notin closed
    /\ closed' = closed \cup {done}
    /\ waiter' = [waiter EXCEPT ![done] = "spawned"]
    /\ user' = [user EXCEPT ![u] = [step |-> "wait", on |-> done]]
    /\ UNCHANGED <<running, done, wg, loop, tick, panicked>>

Stop(u) ==
    /\ user[u].step = "idle" /\ running
    /\ running' = FALSE
    /\ closed' = closed \cup {done}
    /\ waiter' = [waiter EXCEPT ![done] = "spawned"]
    /\ user' = [user EXCEPT ![u] = [step |-> "wait", on |-> done]]
    /\ UNCHANGED <<done, wg, loop, tick, panicked>>

StopNotRunning(u) ==
    /\ user[u].step = "idle" /\ ~running
    /\ user' = [user EXCEPT ![u].step = "nil"]
    /\ UNCHANGED <<running, done, closed, wg, loop, tick, waiter, panicked>>

\* The select of stop: waitCh is closed, or ctx is done.
StopReturns(u) ==
    /\ user[u].step = "wait" /\ waiter[user[u].on] = "done"
    /\ user' = [user EXCEPT ![u].step = "nil"]
    /\ UNCHANGED <<running, done, closed, wg, loop, tick, waiter, panicked>>

StopExpires(u) ==
    /\ user[u].step = "wait" /\ CtxMayExpire
    /\ user' = [user EXCEPT ![u].step = "ctx"]
    /\ UNCHANGED <<running, done, closed, wg, loop, tick, waiter, panicked>>

\* The caller goes on with what Stop returned.
Resume(u) ==
    /\ user[u].step \in {"nil", "ctx"}
    /\ user' = [user EXCEPT ![u] = NoCall]
    /\ UNCHANGED <<running, done, closed, wg, loop, tick, waiter, panicked>>

-----------------------------------------------------------------------------
(* loop *)

LoopGoto(i, step) == loop' = [loop EXCEPT ![i].step = step]

LoopReadsDone(i) ==
    /\ loop[i].step = "spawned"
    /\ loop' = [loop EXCEPT ![i] = [step |-> "select", done |-> done]]
    /\ UNCHANGED <<running, done, closed, wg, tick, waiter, user, panicked>>

\* time.Ticker keeps one tick and drops those that find it there.
Tick(i) ==
    /\ loop[i].step \in {"select", "maintain"} /\ ~tick[i]
    /\ tick' = [tick EXCEPT ![i] = TRUE]
    /\ UNCHANGED <<running, done, closed, wg, loop, waiter, user, panicked>>

\* select takes any ready case: a tick also when done is closed.
LoopMaintains(i) ==
    /\ loop[i].step = "select" /\ tick[i]
    /\ tick' = [tick EXCEPT ![i] = FALSE]
    /\ LoopGoto(i, "maintain")
    /\ UNCHANGED <<running, done, closed, wg, waiter, user, panicked>>

\* Maintain returned nil or an error, which is logged.
MaintainReturns(i) ==
    /\ loop[i].step = "maintain"
    /\ LoopGoto(i, "select")
    /\ UNCHANGED <<running, done, closed, wg, tick, waiter, user, panicked>>

\* Mutants of LoopExits: every wg.Done wakes every waiter; wg.Done runs
\* twice; the select rereads s.done.
LoopExitsWakingAll(i) ==
    /\ loop[i].step = "select" /\ loop[i].done \in closed
    /\ LoopGoto(i, "exited")
    /\ wg' = wg - 1
    /\ waiter' = [j \in StartIds |-> IF waiter[j] = "parked" THEN "done" ELSE waiter[j]]
    /\ UNCHANGED <<running, done, closed, tick, user, panicked>>
LoopExitsDoneTwice(i) ==
    /\ loop[i].step = "select" /\ loop[i].done \in closed
    /\ LoopGoto(i, "exited")
    /\ wg' = wg - 2
    /\ UNCHANGED <<running, done, closed, tick, waiter, user, panicked>>
LoopExitsOnCurrent(i) ==
    /\ loop[i].step = "select" /\ done \in closed
    /\ LoopGoto(i, "exited")
    /\ wg' = wg - 1
    /\ waiter' = [j \in StartIds |->
                    IF wg = 1 /\ waiter[j] = "parked" THEN "woken" ELSE waiter[j]]
    /\ UNCHANGED <<running, done, closed, tick, user, panicked>>

\* The deferred wg.Done; the one that brings the counter to zero wakes
\* every goroutine parked in Wait.
LoopExits(i) ==
    /\ loop[i].step = "select" /\ loop[i].done \in closed
    /\ LoopGoto(i, "exited")
    /\ wg' = wg - 1
    /\ waiter' = [j \in StartIds |->
                    IF wg = 1 /\ waiter[j] = "parked" THEN "woken" ELSE waiter[j]]
    /\ UNCHANGED <<running, done, closed, tick, user, panicked>>

-----------------------------------------------------------------------------
(* wg.Wait in the goroutine of stop *)

WaiterWaits(i) ==
    /\ waiter[i] = "spawned"
    /\ waiter' = [waiter EXCEPT ![i] = IF wg = 0 THEN "done" ELSE "parked"]
    /\ UNCHANGED <<running, done, closed, wg, loop, tick, user, panicked>>

\* sync.WaitGroup panics when the counter has been raised again before a
\* woken Wait looks at it.
WaiterWakes(i) ==
    /\ waiter[i] = "woken"
    /\ IF wg = 0
         THEN waiter' = [waiter EXCEPT ![i] = "done"] /\ UNCHANGED panicked
         ELSE panicked' = TRUE /\ UNCHANGED waiter
    /\ UNCHANGED <<running, done, closed, wg, loop, tick, user>>

-----------------------------------------------------------------------------
Call(u) == Start(u) \/ Stop(u) \/ StopNotRunning(u) \/ StopExpires(u) \/ Resume(u)
LoopStep(i) == LoopReadsDone(i) \/ LoopMaintains(i) \/ MaintainReturns(i)
WaiterStep(i) == WaiterWaits(i) \/ WaiterWakes(i)

Next ==
    /\ ~panicked
    /\ \/ \E u \in Users : Call(u) \/ StopReturns(u)
       \/ \E i \in StartIds : LoopStep(i) \/ LoopExits(i) \/ Tick(i) \/ WaiterStep(i)

Spec == Init /\ [][Next]_vars

\* Goroutines that can run do run.  A closed done is ready in every select
\* of the loop, and select picks among the ready cases at random, so it is
\* not passed over for ever: strong fairness.
FairSpec ==
    /\ Spec
    /\ \A u \in Users : WF_vars(~panicked /\ StopReturns(u))
    /\ \A i \in StartIds : /\ WF_vars(~panicked /\ LoopStep(i))
                           /\ WF_vars(~panicked /\ WaiterStep(i))
                           /\ SF_vars(~panicked /\ LoopExits(i))

-----------------------------------------------------------------------------
(* Properties *)

\* While the Maintainer is running some loop is listening on the channel
\* the next Stop will close, or is about to: ticks go on being served
\* whatever sequence of Start and Stop led here (scheduler.go loop reads
\* s.done after start has returned).
RunningHasLoop ==
    running => \E i \in StartIds :
        \/ loop[i].step = "spawned"
        \/ Alive(i) /\ loop[i].done = done /\ done \notin closed

\* A Stop that waited and returns nil has seen the end of its own loop and
\* of every loop started before it, also when other goroutines start and
\* stop meanwhile (scheduler.go stop, wg.Wait).
StopWaits ==
    [][\A u \in Users : user[u].step = "wait" /\ user'[u].step = "nil" =>
          \A i \in 1 .. user[u].on : loop[i].step = "exited"]_vars

\* A loop whose channel was closed ends, also when the Stop that closed it
\* has given up waiting (scheduler.go stop: the goroutine is left to clean
\* up on its own).
LoopsEnd ==
    \A i \in StartIds :
        (Alive(i) /\ loop[i].done \in closed) ~> (loop[i].step = "exited" \/ panicked)

\* Start spins one goroutine: never two loops at a time.
OneLoop == \A i, j \in StartIds : Alive(i) /\ Alive(j) => i = j

\* The goroutine of a Stop that gave up does no harm: wg.Wait does not panic.
NoReusePanic == ~panicked

\* No Stop returns nil before the goroutine has exited.
StopMeansStopped ==
    [][\A u \in Users : user[u].step # "nil" /\ user'[u].step = "nil" =>
          \A i \in StartIds : ~Alive(i)]_vars
=============================================================================
