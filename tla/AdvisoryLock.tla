---------------------------- MODULE AdvisoryLock ----------------------------
(***************************************************************************)
(* The advisory lock of a parent, as sessions of a connection pool hold it *)
(* (internal/maintainer/advisory_lock.go, processParent of maintainer.go,  *)
(* the lock of PartitionData in internal/drain/drain.go).                  *)
(*                                                                         *)
(* The lock belongs to a session, not to a goroutine.  A maintenance pass  *)
(* keeps the session's connection out of the pool and borrows a second one *)
(* for the work it guards; a drain works on the session itself.  The lock  *)
(* is re-entrant for the session, and a connection goes back to the pool   *)
(* with whatever locks it still holds.                                     *)
(***************************************************************************)
EXTENDS Integers, FiniteSets

CONSTANTS
    Replicas,     \* processes, each with a pool of its own
    PerReplica,   \* goroutines of one process that may run passes or drains
    MaxConns,     \* connections of one pool
    Keys,         \* parents: the keys of their locks
    NoKey, NoConn,
    CtxMayCancel, \* a caller's ctx may be cancelled
    SessionsDie,  \* a session that holds a lock may be lost
    MaxFaults     \* bound: cancellations and lost sessions

ASSUME AdvisoryLockAssumption ==
    /\ PerReplica \in Nat /\ MaxConns \in Nat /\ MaxFaults \in Nat
    /\ NoKey \notin Keys /\ NoConn \notin Replicas \X (1 .. MaxConns)
    /\ CtxMayCancel \in BOOLEAN /\ SessionsDie \in BOOLEAN

Workers == Replicas \X (1 .. PerReplica)
Conns == Replicas \X (1 .. MaxConns)

VARIABLES
    call,     \* the call each worker is in
    conn,     \* the connection it holds for the lock
    work,     \* the connection it has borrowed for the work
    held,     \* pg_locks: how often each session holds each key
    dead,     \* connections in hand whose session is gone
    faults

vars == <<call, conn, work, held, dead, faults>>

NoCall == [step |-> "idle", key |-> NoKey, drain |-> FALSE, cancelled |-> FALSE]

Calls == [step : {"idle", "acquire", "try", "want", "busy", "unlock"},
          key : Keys \cup {NoKey}, drain : BOOLEAN, cancelled : BOOLEAN]

TypeOK ==
    /\ call \in [Workers -> Calls]
    /\ conn \in [Workers -> Conns \cup {NoConn}]
    /\ work \in [Workers -> Conns \cup {NoConn}]
    /\ held \in [Conns -> [Keys -> Nat]]
    /\ dead \subseteq Conns
    /\ faults \in 0 .. MaxFaults

Init ==
    /\ call = [w \in Workers |-> NoCall]
    /\ conn = [w \in Workers |-> NoConn]
    /\ work = [w \in Workers |-> NoConn]
    /\ held = [c \in Conns |-> [k \in Keys |-> 0]]
    /\ dead = {} /\ faults = 0

InUse(c) == \E w \in Workers : conn[w] = c \/ work[w] = c
\* Connections pool.Acquire may hand to worker w.
Free(w) == {c \in Conns : c[1] = w[1] /\ ~InUse(c)}
\* Between TryLock and release.
Guarded(w, k) == call[w].key = k /\ call[w].step \in {"want", "busy", "unlock"}

-----------------------------------------------------------------------------
Goto(w, step) == call' = [call EXCEPT ![w].step = step]

\* The call returns and its connection goes back to the pool; a dead one is
\* replaced by a new session.
Release(w) ==
    /\ call' = [call EXCEPT ![w] = NoCall]
    /\ conn' = [conn EXCEPT ![w] = NoConn]
    /\ dead' = dead \ {conn[w]}

\* processParent, or PartitionData, for the parent with key k.
Begin(w, k, drain) ==
    /\ call[w].step = "idle"
    /\ call' = [call EXCEPT ![w] = [step |-> "acquire", key |-> k,
                                    drain |-> drain, cancelled |-> FALSE]]
    /\ UNCHANGED <<conn, work, held, dead, faults>>

\* pool.Acquire waits for a connection, or for the end of ctx.
Acquire(w) ==
    /\ call[w].step = "acquire"
    /\ \/ /\ ~call[w].cancelled
          /\ \E c \in Free(w) : conn' = [conn EXCEPT ![w] = c]
          /\ Goto(w, "try")
       \/ /\ call[w].cancelled
          /\ call' = [call EXCEPT ![w] = NoCall]
          /\ UNCHANGED conn
    /\ UNCHANGED <<work, held, dead, faults>>

\* pg_try_advisory_lock succeeds unless another session has the key.
Grants(c, k) == \A d \in Conns : d # c => held[d][k] = 0

\* Mutant of TryLock: the Boolean that the query returns is not looked at.
TryLockIgnoringResult(w) ==
    LET c == conn[w]  k == call[w].key IN
    /\ call[w].step = "try"
    /\ IF ~call[w].cancelled /\ c \notin dead
         THEN /\ held' = IF Grants(c, k) THEN [held EXCEPT ![c][k] = @ + 1] ELSE held
              /\ Goto(w, IF call[w].drain THEN "busy" ELSE "want")
              /\ UNCHANGED <<conn, dead>>
         ELSE Release(w) /\ UNCHANGED held
    /\ UNCHANGED <<work, faults>>

\* A cancelled ctx and a dead session are errors, and nothing is sent.
TryLock(w) ==
    LET c == conn[w]  k == call[w].key IN
    /\ call[w].step = "try"
    /\ IF ~call[w].cancelled /\ c \notin dead /\ Grants(c, k)
         THEN /\ held' = [held EXCEPT ![c][k] = @ + 1]
              /\ Goto(w, IF call[w].drain THEN "busy" ELSE "want")
              /\ UNCHANGED <<conn, dead>>
         ELSE Release(w) /\ UNCHANGED held
    /\ UNCHANGED <<work, faults>>

\* The Provisioner and Retention take connections of their own from the
\* same pool; their error, the end of ctx, is logged and the pass goes on.
Borrow(w) ==
    /\ call[w].step = "want"
    /\ \/ /\ ~call[w].cancelled
          /\ \E c \in Free(w) : work' = [work EXCEPT ![w] = c]
          /\ Goto(w, "busy")
       \/ call[w].cancelled /\ Goto(w, "unlock") /\ UNCHANGED work
    /\ UNCHANGED <<conn, held, dead, faults>>

\* Mutant of WorkReturns: the borrowed connection is not given back.
WorkReturnsKeepingConn(w) ==
    /\ call[w].step = "busy"
    /\ Goto(w, "unlock")
    /\ UNCHANGED <<conn, work, held, dead, faults>>

\* The work is done; one borrowed connection stands for the many a pass
\* borrows and returns in turn.
WorkReturns(w) ==
    /\ call[w].step = "busy"
    /\ work' = [work EXCEPT ![w] = NoConn]
    /\ Goto(w, "unlock")
    /\ UNCHANGED <<conn, held, dead, faults>>

\* Mutants of Unlock: the connection is released with the lock on it; the
\* release closure runs twice.
UnlockForgotten(w) ==
    /\ call[w].step = "unlock"
    /\ UNCHANGED <<held, work, faults>>
    /\ Release(w)

UnlockTwice(w) ==
    LET c == conn[w]  k == call[w].key IN
    /\ call[w].step = "unlock"
    /\ held' = [held EXCEPT ![c][k] = @ - 2]
    /\ Release(w)
    /\ UNCHANGED <<work, faults>>

\* The release closure of TryLock, the deferred calls of PartitionData.
\* The unlock runs with the caller's ctx: once that is cancelled the query
\* is not sent, the warning is logged and the connection is released.
Unlock(w) ==
    LET c == conn[w]  k == call[w].key IN
    /\ call[w].step = "unlock"
    /\ held' = IF call[w].cancelled \/ c \in dead THEN held
               ELSE [held EXCEPT ![c][k] = @ - 1]
    /\ Release(w)
    /\ UNCHANGED <<work, faults>>

-----------------------------------------------------------------------------
(* Faults *)

Fault == faults < MaxFaults /\ faults' = faults + 1

Cancel(w) ==
    /\ CtxMayCancel /\ Fault
    /\ call[w].step # "idle" /\ ~call[w].cancelled
    /\ call' = [call EXCEPT ![w].cancelled = TRUE]
    /\ UNCHANGED <<conn, work, held, dead>>

\* The session of a connection in hand ends on the server, which frees its
\* locks; the client learns of it from its next query.
SessionLost(w) ==
    /\ SessionsDie /\ Fault
    /\ conn[w] # NoConn /\ conn[w] \notin dead
    /\ dead' = dead \cup {conn[w]}
    /\ held' = [held EXCEPT ![conn[w]] = [k \in Keys |-> 0]]
    /\ UNCHANGED <<call, conn, work>>

-----------------------------------------------------------------------------
Step(w) == Acquire(w) \/ TryLock(w) \/ Borrow(w) \/ WorkReturns(w) \/ Unlock(w)

Next == \E w \in Workers :
    \/ \E k \in Keys, drain \in BOOLEAN : Begin(w, k, drain)
    \/ Step(w) \/ Cancel(w) \/ SessionLost(w)

Spec == Init /\ [][Next]_vars

\* Goroutines run, and the pool hands a free connection to the one that has
\* waited longest, so no one waits for ever while connections come free.
FairSpec == Spec /\ \A w \in Workers : SF_vars(Step(w))

-----------------------------------------------------------------------------
(* Properties *)

\* A worker whose session lives and has the key has the parent to itself.
Protected(w, k) == Guarded(w, k) /\ conn[w] \notin dead

\* Two passes or drains whose sessions live never work on one parent at a
\* time, in one process or two, also when earlier calls left locks behind on
\* pooled connections and when sessions are lost
\* (advisory_lock.go poolLocker.TryLock, drain.go PartitionData).
MutualExclusion ==
    \A v, w \in Workers, k \in Keys : Protected(v, k) /\ Protected(w, k) => v = w

\* The parent each worker has to itself; a session that is lost leaves.
Inside == [w \in Workers |-> IF \E k \in Keys : Protected(w, k) THEN call[w].key ELSE NoKey]
Lock == INSTANCE AbstractLock WITH inside <- Inside

\* The lock does what TryLock and release promise, whatever the pool, the
\* contexts and the sessions do (advisory_lock.go TryLock).
LockPromise == Lock!Spec

\* A lock stays behind on a pooled connection only after something went
\* wrong: there are no more such connections than there were faults, that is,
\* cancelled contexts and lost sessions.  That a lost session leaves none is
\* not said here (advisory_lock.go, the release closure).
LeaksAreCancelled ==
    Cardinality({c \in Conns : ~InUse(c) /\ \E k \in Keys : held[c][k] > 0}) <= faults

\* No two passes or drains work on one parent, dead sessions included.
NeverTwoAtWork ==
    \A v, w \in Workers, k \in Keys : Guarded(v, k) /\ Guarded(w, k) => v = w

\* release frees the lock: a connection that comes back to the pool holds
\* no key, so no parent stays locked once its worker has gone.
ReleaseFrees == \A c \in Conns, k \in Keys : ~InUse(c) => held[c][k] = 0

\* A pass that began ends: no one waits for ever for the connection that
\* another pass, itself waiting for one, keeps for its lock.
CallsReturn == \A w \in Workers : call[w].step # "idle" ~> call[w].step = "idle"
=============================================================================
