------------------------- MODULE AdvisoryLockProofs -------------------------
(***************************************************************************)
(* Mutual exclusion of module AdvisoryLock, for every number of replicas,  *)
(* goroutines, connections and parents, and that it implements             *)
(* AbstractLock.                                                           *)
(***************************************************************************)
EXTENDS AdvisoryLock, FiniteSetTheorems, TLAPS

\* A worker past Acquire has a connection, and no two have the same.
Sole ==
    \A w \in Workers :
        /\ call[w].step \in {"try", "want", "busy", "unlock"} =>
              call[w].key \in Keys /\ conn[w] \in Conns
        /\ \A v \in Workers : conn[v] = conn[w] /\ conn[v] \in Conns => v = w

\* No two sessions hold one key.
OneSession ==
    \A c, d \in Conns, k \in Keys : held[c][k] > 0 /\ held[d][k] > 0 => c = d

\* A worker that was granted the key, and has not lost its session, works
\* under a session that has it.
GuardHolds == \A w \in Workers, k \in Keys : Protected(w, k) => held[conn[w]][k] > 0

\* The inductive invariant: a leaked lock keeps its session, and only the
\* worker that has this session's connection can take the lock again.
LockInv == TypeOK /\ Sole /\ OneSession /\ GuardHolds
           /\ \A w \in Workers : call[w].step = "acquire" => call[w].key \in Keys

\* A step keeps the invariant: one case per action, one step per conjunct.
LEMMA LockInvStep ==
    ASSUME LockInv, Next
    PROVE  LockInv'
<1> USE AdvisoryLockAssumption
<1>0. /\ call \in [Workers -> Calls]
      /\ conn \in [Workers -> Conns \cup {NoConn}] /\ work \in [Workers -> Conns \cup {NoConn}]
      /\ held \in [Conns -> [Keys -> Nat]] /\ faults \in 0 .. MaxFaults
      /\ dead \subseteq Conns /\ Sole /\ OneSession /\ GuardHolds
      /\ \A w \in Workers : call[w].step = "acquire" => call[w].key \in Keys
  BY DEF LockInv, TypeOK
<1>a. NoCall \in Calls /\ NoCall.step = "idle" /\ NoConn \notin Conns
  BY DEF NoCall, Calls, Conns
<1>1. ASSUME NEW w \in Workers, NEW k \in Keys, NEW drain \in BOOLEAN, Begin(w, k, drain)
      PROVE  LockInv'
  BY <1>0, <1>1 DEF Begin, LockInv, TypeOK, Calls, Sole, OneSession, GuardHolds, Protected, Guarded
<1>b. ASSUME NEW w \in Workers, NEW step \in {"try", "want", "busy", "unlock"}, Goto(w, step)
      PROVE  /\ call' \in [Workers -> Calls]
             /\ \A v \in Workers : call'[v].key = call[v].key
             /\ \A v \in Workers : v # w => call'[v] = call[v]
             /\ call'[w].step = step
  BY <1>0, <1>b DEF Goto, Calls
<1>2. ASSUME NEW w \in Workers, Acquire(w) PROVE LockInv'
  <2>1. CASE call[w].cancelled
    <3>1. call' = [call EXCEPT ![w] = NoCall] /\ UNCHANGED conn
      BY <1>2, <2>1 DEF Acquire
    <3> QED BY <1>0, <1>2, <1>a, <3>1
          DEF Acquire, LockInv, TypeOK, Sole, OneSession, GuardHolds, Protected, Guarded
  <2>2. CASE ~call[w].cancelled
    <3>1. PICK c \in Free(w) : conn' = [conn EXCEPT ![w] = c] /\ Goto(w, "try")
      BY <1>2, <2>2 DEF Acquire
    <3>2. c \in Conns /\ \A v \in Workers : conn[v] # c
      BY DEF Free, InUse
    <3>3. call[w].key \in Keys /\ call[w].step = "acquire"
      BY <1>0, <1>2 DEF Acquire
    <3>4. Sole'
      BY <1>0, <1>b, <3>1, <3>2, <3>3 DEF Sole
    <3>5. GuardHolds' /\ OneSession'
      BY <1>0, <1>2, <1>b, <3>1 DEF Acquire, GuardHolds, OneSession, Protected, Guarded
    <3> QED BY <1>0, <1>2, <1>b, <3>1, <3>2, <3>4, <3>5 DEF Acquire, LockInv, TypeOK
  <2> QED BY <2>1, <2>2
<1>c. ASSUME NEW w \in Workers, Release(w), call[w].step \in {"try", "unlock"}
      PROVE  /\ call' \in [Workers -> Calls] /\ conn' \in [Workers -> Conns \cup {NoConn}]
             /\ dead' \subseteq Conns /\ Sole'
             /\ \A v \in Workers : v # w => (conn[v] \in dead' <=> conn[v] \in dead)
             /\ call'[w].step = "idle"
             /\ \A v \in Workers : v # w => call'[v] = call[v] /\ conn'[v] = conn[v]
  BY <1>0, <1>a, <1>c DEF Release, Sole
<1>3. ASSUME NEW w \in Workers, TryLock(w) PROVE LockInv'
  <2> DEFINE c == conn[w]  k == call[w].key
  <2>0. call[w].step = "try" /\ c \in Conns /\ k \in Keys /\ UNCHANGED <<work, faults>>
    BY <1>0, <1>3 DEF TryLock, Sole
  <2>1. CASE Release(w) /\ UNCHANGED held
    <3>1. GuardHolds' /\ OneSession'
      BY <1>0, <1>c, <2>0, <2>1 DEF GuardHolds, OneSession, Protected, Guarded
    <3> QED BY <1>0, <1>c, <2>0, <2>1, <3>1 DEF LockInv, TypeOK
  <2>2. CASE /\ Grants(c, k) /\ held' = [held EXCEPT ![c][k] = @ + 1]
             /\ Goto(w, IF call[w].drain THEN "busy" ELSE "want")
             /\ UNCHANGED <<conn, dead>>
    <3>1. PICK step \in {"busy", "want"} : Goto(w, step)
      BY <2>2
    <3>2. /\ held' \in [Conns -> [Keys -> Nat]]
          /\ \A d \in Conns, j \in Keys : held'[d][j] >= held[d][j]
          /\ held'[c][k] > 0
          /\ \A d \in Conns, j \in Keys : (d # c \/ j # k) => held'[d][j] = held[d][j]
      BY <1>0, <2>0, <2>2
    <3>3. OneSession'
      BY <1>0, <2>0, <2>2, <3>2 DEF OneSession, Grants
    <3>4. Sole'
      BY <1>0, <1>b, <2>0, <2>2, <3>1 DEF Sole
    <3>5. GuardHolds'
      <4> SUFFICES ASSUME NEW v \in Workers, NEW j \in Keys, Protected(v, j)'
                   PROVE  held'[conn[v]][j] > 0
        BY <2>2 DEF GuardHolds
      <4>1. CASE v = w
        BY <1>b, <3>1, <3>2, <4>1 DEF Protected, Guarded
      <4>2. CASE v # w
        <5>1. Protected(v, j)
          BY <1>b, <2>2, <3>1, <4>2 DEF Protected, Guarded
        <5>2. held[conn[v]][j] > 0 /\ conn[v] \in Conns
          BY <1>0, <5>1 DEF GuardHolds, Sole, Protected, Guarded
        <5> QED BY <1>0, <3>2, <5>2
      <4> QED BY <4>1, <4>2
    <3> HIDE DEF c, k
    <3>6. TypeOK'
      BY <1>0, <1>b, <2>0, <2>2, <3>1, <3>2 DEF TypeOK
    <3>7. \A v \in Workers : call'[v].step = "acquire" => call'[v].key \in Keys
      BY <1>0, <1>b, <3>1
    <3> QED BY <3>3, <3>4, <3>5, <3>6, <3>7 DEF LockInv
  <2> QED BY <1>3, <2>1, <2>2 DEF TryLock
<1>4. ASSUME NEW w \in Workers, Borrow(w) PROVE LockInv'
  <2>1. PICK step \in {"busy", "unlock"} : Goto(w, step)
    BY <1>4 DEF Borrow
  <2>2. call[w].step = "want" /\ UNCHANGED <<conn, held, dead, faults>>
    BY <1>4 DEF Borrow
  <2>3. work' \in [Workers -> Conns \cup {NoConn}]
    BY <1>0, <1>4 DEF Borrow, Free
  <2>4. Sole' /\ OneSession' /\ GuardHolds'
    <3>1. OneSession'
      BY <1>0, <2>2 DEF OneSession
    <3>4. \A v \in Workers :
            call'[v].step \in {"try", "want", "busy", "unlock"} =>
               /\ call[v].step \in {"try", "want", "busy", "unlock"}
               /\ call'[v].key = call[v].key
      BY <1>0, <1>b, <2>1, <2>2
    <3>5. Sole'
      BY <1>0, <2>2, <3>4 DEF Sole
    <3>2. \A v \in Workers, j \in Keys : Protected(v, j)' => Protected(v, j)
      BY <1>0, <1>b, <2>1, <2>2 DEF Protected, Guarded
    <3>3. GuardHolds'
      BY <1>0, <2>2, <3>2 DEF GuardHolds
    <3> QED BY <3>1, <3>3, <3>5
  <2> QED BY <1>0, <1>b, <2>1, <2>2, <2>3, <2>4 DEF LockInv, TypeOK
<1>5. ASSUME NEW w \in Workers, WorkReturns(w) PROVE LockInv'
  <2>1. /\ Goto(w, "unlock") /\ call[w].step = "busy"
        /\ work' = [work EXCEPT ![w] = NoConn] /\ UNCHANGED <<conn, held, dead, faults>>
    BY <1>5 DEF WorkReturns
  <2>2. Sole' /\ OneSession'
    BY <1>0, <1>b, <2>1 DEF Sole, OneSession
  <2>3. GuardHolds'
    BY <1>0, <1>b, <2>1 DEF GuardHolds, Protected, Guarded
  <2> QED BY <1>0, <1>b, <2>1, <2>2, <2>3 DEF LockInv, TypeOK
<1>6. ASSUME NEW w \in Workers, Unlock(w) PROVE LockInv'
  <2> DEFINE c == conn[w]  k == call[w].key
  <2>0. /\ call[w].step = "unlock" /\ c \in Conns /\ k \in Keys /\ Release(w)
        /\ UNCHANGED <<work, faults>>
    BY <1>0, <1>6 DEF Unlock, Sole
  <2>1. c \notin dead => held[c][k] > 0
    BY <1>0, <2>0 DEF GuardHolds, Protected, Guarded
  <2>2. /\ held' \in [Conns -> [Keys -> Nat]]
        /\ \A d \in Conns, j \in Keys : held'[d][j] <= held[d][j]
        /\ \A d \in Conns, j \in Keys : d # c => held'[d][j] = held[d][j]
    <3>1. CASE held' = held
      BY <1>0, <3>1
    <3>2. CASE c \notin dead /\ held' = [held EXCEPT ![c][k] = @ - 1]
      BY <1>0, <2>0, <2>1, <3>2
    <3> QED BY <1>6, <3>1, <3>2 DEF Unlock
  <2>3. OneSession'
    BY <1>0, <2>2 DEF OneSession
  <2>4. GuardHolds'
    <3> SUFFICES ASSUME NEW v \in Workers, NEW j \in Keys, Protected(v, j)'
                 PROVE  held'[conn'[v]][j] > 0
      BY DEF GuardHolds
    <3>1. v # w
      BY <1>c, <2>0 DEF Protected, Guarded
    <3>2. Protected(v, j) /\ conn'[v] = conn[v]
      BY <1>c, <2>0, <3>1 DEF Protected, Guarded
    <3>3. conn[v] \in Conns /\ conn[v] # c
      BY <1>0, <2>0, <3>1, <3>2 DEF Protected, Guarded, Sole
    <3> QED BY <1>0, <2>2, <3>2, <3>3 DEF GuardHolds
  <2> HIDE DEF c, k
  <2> QED BY <1>0, <1>c, <2>0, <2>2, <2>3, <2>4 DEF LockInv, TypeOK
<1>7. ASSUME NEW w \in Workers, Cancel(w) PROVE LockInv'
  <2>1. /\ call' \in [Workers -> Calls]
        /\ \A v \in Workers : call'[v].key = call[v].key /\ call'[v].step = call[v].step
    <3>1. call' = [call EXCEPT ![w].cancelled = TRUE]
      BY <1>7 DEF Cancel
    <3>2. \A v \in Workers : call[v] \in Calls
      BY <1>0
    <3>3. [call[w] EXCEPT !.cancelled = TRUE] \in Calls
      BY <3>2 DEF Calls
    <3>4. \A v \in Workers : v # w => call'[v] = call[v]
      BY <1>0, <3>1
    <3>5. call'[w] = [call[w] EXCEPT !.cancelled = TRUE]
      BY <1>0, <3>1
    <3> QED BY <1>0, <3>1, <3>3, <3>4, <3>5 DEF Calls
  <2>2. UNCHANGED <<conn, work, held, dead>> /\ faults' \in 0 .. MaxFaults
    BY <1>0, <1>7 DEF Cancel, Fault
  <2>3. Sole' /\ OneSession' /\ GuardHolds'
    BY <1>0, <2>1, <2>2 DEF Sole, OneSession, GuardHolds, Protected, Guarded
  <2> QED BY <1>0, <2>1, <2>2, <2>3 DEF LockInv, TypeOK
<1>8. ASSUME NEW w \in Workers, SessionLost(w) PROVE LockInv'
  <2> DEFINE c == conn[w]
  <2>1. /\ c \in Conns /\ dead' = dead \cup {c}
        /\ held' = [held EXCEPT ![c] = [k \in Keys |-> 0]]
        /\ UNCHANGED <<call, conn, work>> /\ faults' \in 0 .. MaxFaults
    BY <1>0, <1>8 DEF SessionLost, Fault
  <2>2. /\ held' \in [Conns -> [Keys -> Nat]]
        /\ \A d \in Conns, j \in Keys : held'[d][j] = IF d = c THEN 0 ELSE held[d][j]
    BY <1>0, <2>1
  <2> HIDE DEF c
  <2>3. Sole' /\ OneSession'
    BY <1>0, <2>1, <2>2 DEF Sole, OneSession
  <2>4. GuardHolds'
    <3> SUFFICES ASSUME NEW v \in Workers, NEW j \in Keys, Protected(v, j)'
                 PROVE  held'[conn'[v]][j] > 0
      BY DEF GuardHolds
    <3>1. Protected(v, j) /\ conn'[v] = conn[v] /\ conn[v] # c
      BY <2>1 DEF Protected, Guarded
    <3>2. conn[v] \in Conns
      BY <1>0, <3>1 DEF Protected, Guarded, Sole
    <3> QED BY <1>0, <2>2, <3>1, <3>2 DEF GuardHolds
  <2> QED BY <1>0, <2>1, <2>2, <2>3, <2>4 DEF LockInv, TypeOK
<1> QED BY <1>1, <1>2, <1>3, <1>4, <1>5, <1>6, <1>7, <1>8 DEF Next, Step

\* The invariant holds in every behaviour.
LEMMA LockInvHolds == Spec => []LockInv
<1>1. Init => LockInv
  <2> SUFFICES ASSUME Init PROVE LockInv
    OBVIOUS
  <2>1. TypeOK
    BY AdvisoryLockAssumption DEF Init, TypeOK, NoCall, Calls
  <2> QED BY <2>1, AdvisoryLockAssumption
        DEF Init, LockInv, Sole, OneSession, GuardHolds, Protected, Guarded, NoCall, Conns
<1>2. LockInv /\ [Next]_vars => LockInv'
  <2>1. LockInv /\ UNCHANGED vars => LockInv'
    BY DEF vars, LockInv, TypeOK, Sole, OneSession, GuardHolds, Protected, Guarded
  <2> QED BY <2>1, LockInvStep
<1> QED BY <1>1, <1>2, PTL DEF Spec

\* In a state of the invariant, no two workers are protected in one parent.
LEMMA InvExcludes == LockInv => MutualExclusion
BY DEF LockInv, Sole, OneSession, GuardHolds, MutualExclusion, Protected, Guarded

\* The advisory lock excludes: no two passes or drains that have their
\* sessions work on one parent, whatever is cancelled, whatever locks
\* cancelled calls leave behind on pooled connections and whichever sessions
\* are lost.
THEOREM LockExcludes == Spec => []MutualExclusion
BY LockInvHolds, InvExcludes, PTL

\* The state keeps its types; in particular no unlock is sent for a key that
\* the session does not hold, where pg_advisory_unlock would warn
\* (advisory_lock.go, the release closure).
THEOREM TypeCorrect == Spec => []TypeOK
<1>1. LockInv => TypeOK
  BY DEF LockInv
<1> QED BY <1>1, LockInvHolds, PTL

-----------------------------------------------------------------------------
(* AdvisoryLock implements AbstractLock *)

Guarding == {"want", "busy", "unlock"}

\* A worker is inside the parent it is protected in, and in no other.
LEMMA InsideIsProtected ==
    ASSUME NEW w \in Workers, NEW k \in Keys
    PROVE  Inside[w] = k <=> Protected(w, k)
BY AdvisoryLockAssumption DEF Inside, Protected, Guarded

\* A worker stays where it is, outside or under its session, if its session
\* is not touched.
LEMMA InsideStays ==
    ASSUME NEW w \in Workers,
           \/ call[w].step \notin Guarding /\ call'[w].step \notin Guarding
           \/ /\ call'[w].key = call[w].key
              /\ call[w].step \in Guarding <=> call'[w].step \in Guarding
              /\ conn'[w] = conn[w] /\ (conn[w] \in dead' <=> conn[w] \in dead)
    PROVE  Inside'[w] = Inside[w]
BY DEF Inside, Protected, Guarded, Guarding

\* What changes for one worker at most is an update of the mapping.
LEMMA InsideUpdate ==
    ASSUME NEW w \in Workers, \A v \in Workers : v # w => Inside'[v] = Inside[v]
    PROVE  Inside' = [Inside EXCEPT ![w] = Inside'[w]]
<1>1. Inside = [v \in Workers |-> Inside[v]] /\ Inside' = [v \in Workers |-> Inside'[v]]
  BY DEF Inside
<1> QED BY <1>1

\* One worker leaves, or nothing changes.
LEMMA LeavesOrStays ==
    ASSUME NEW w \in Workers, \A v \in Workers : v # w => Inside'[v] = Inside[v],
           Inside'[w] \in {Inside[w], NoKey}
    PROVE  [Lock!Next]_Inside
<1>1. Inside' = [Inside EXCEPT ![w] = Inside'[w]]
  BY InsideUpdate
<1>2. CASE Inside'[w] = Inside[w]
  <2>1. Inside = [v \in Workers |-> Inside[v]]
    BY DEF Inside
  <2> QED BY <1>1, <1>2, <2>1
<1>3. CASE Inside'[w] = NoKey /\ Inside[w] # NoKey
  BY <1>1, <1>3 DEF Lock!Next, Lock!Leave
<1> QED BY <1>2, <1>3

\* A step of the advisory lock enters, leaves or is not seen: one case per
\* action.
LEMMA LockStep ==
    ASSUME LockInv, [Next]_vars
    PROVE  [Lock!Next]_Inside
<1>0. /\ call \in [Workers -> Calls] /\ conn \in [Workers -> Conns \cup {NoConn}]
      /\ Sole /\ NoConn \notin Conns
  BY AdvisoryLockAssumption DEF LockInv, TypeOK, Conns
<1>a. NoCall.step = "idle"
  BY DEF NoCall
<1>1. CASE UNCHANGED vars
  BY <1>1 DEF vars, Inside, Protected, Guarded
<1>2. ASSUME NEW w \in Workers, NEW k \in Keys, NEW drain \in BOOLEAN, Begin(w, k, drain)
      PROVE  [Lock!Next]_Inside
  <2>1. \A v \in Workers : Inside'[v] = Inside[v]
    BY <1>0, <1>2, InsideStays DEF Begin, Guarding
  <2> QED BY <2>1, LeavesOrStays
<1>b. ASSUME NEW w \in Workers, NEW step \in {"try", "want", "busy", "unlock"}, Goto(w, step)
      PROVE  /\ \A v \in Workers : call'[v].key = call[v].key
             /\ \A v \in Workers : v # w => call'[v] = call[v]
             /\ call'[w].step = step
  BY <1>0, <1>b DEF Goto, Calls
<1>3. ASSUME NEW w \in Workers, Acquire(w) PROVE [Lock!Next]_Inside
  <2>1. /\ call'[w].step \notin Guarding /\ call[w].step \notin Guarding
        /\ \A v \in Workers : v # w => call'[v] = call[v] /\ conn'[v] = conn[v]
        /\ UNCHANGED dead
    BY <1>0, <1>3, <1>a, <1>b DEF Acquire, Guarding
  <2>2. \A v \in Workers : Inside'[v] = Inside[v]
    BY <2>1, InsideStays
  <2> QED BY <2>2, LeavesOrStays
\* The call ends: the worker is outside, the others keep their sessions.
<1>c. ASSUME NEW w \in Workers, Release(w), call[w].step \in {"try", "unlock"}
      PROVE  [Lock!Next]_Inside
  <2>1. \A v \in Workers : v # w => /\ call'[v] = call[v] /\ conn'[v] = conn[v]
                                    /\ conn[v] \in dead' <=> conn[v] \in dead
    BY <1>0, <1>c DEF Release, Sole
  <2>2. \A v \in Workers : v # w => Inside'[v] = Inside[v]
    BY <2>1, InsideStays
  <2>3. Inside'[w] = NoKey
    BY <1>0, <1>a, <1>c DEF Release, Inside, Protected, Guarded
  <2> QED BY <2>2, <2>3, LeavesOrStays
<1>4. ASSUME NEW w \in Workers, TryLock(w) PROVE [Lock!Next]_Inside
  <2> DEFINE c == conn[w]  k == call[w].key
  <2>0. call[w].step = "try" /\ c \in Conns /\ k \in Keys
    BY <1>0, <1>4 DEF TryLock, Sole
  <2>1. CASE Release(w)
    BY <1>c, <2>0, <2>1
  <2>2. CASE /\ c \notin dead /\ Grants(c, k)
             /\ Goto(w, IF call[w].drain THEN "busy" ELSE "want")
             /\ UNCHANGED <<conn, dead>>
    <3>1. PICK step \in {"busy", "want"} : Goto(w, step)
      BY <2>2
    <3>2. \A v \in Workers : v # w => Inside'[v] = Inside[v]
      BY <1>b, <2>2, <3>1, InsideStays
    <3>3. Inside[w] = NoKey /\ Inside'[w] = k
      BY <1>b, <2>0, <2>2, <3>1 DEF Inside, Protected, Guarded
    <3>4. ASSUME NEW v \in Workers, Inside[v] = k PROVE FALSE
      <4>1. Protected(v, k)
        BY <2>0, <3>4, InsideIsProtected
      <4>2. held[conn[v]][k] > 0 /\ conn[v] \in Conns
        BY <1>0, <2>0, <4>1 DEF LockInv, GuardHolds, Protected, Guarded, Sole
      <4>3. conn[v] # c
        BY <1>0, <2>0, <4>1 DEF Protected, Guarded, Sole
      <4> QED BY <2>2, <4>2, <4>3 DEF Grants
    <3>5. Lock!Enter(w, k)
      BY <3>2, <3>3, <3>4, InsideUpdate DEF Lock!Enter
    <3> QED BY <2>0, <3>5 DEF Lock!Next
  <2> QED BY <1>4, <2>1, <2>2 DEF TryLock
<1>5. ASSUME NEW w \in Workers, Borrow(w) \/ WorkReturns(w) PROVE [Lock!Next]_Inside
  <2>1. PICK step \in {"busy", "unlock"} : Goto(w, step)
    BY <1>5 DEF Borrow, WorkReturns
  <2>2. call[w].step \in {"want", "busy"} /\ UNCHANGED <<conn, dead>>
    BY <1>5 DEF Borrow, WorkReturns
  <2>3. \A v \in Workers : Inside'[v] = Inside[v]
    BY <1>b, <2>1, <2>2, InsideStays DEF Guarding
  <2> QED BY <2>3, LeavesOrStays
<1>6. ASSUME NEW w \in Workers, Unlock(w) PROVE [Lock!Next]_Inside
  BY <1>c, <1>6 DEF Unlock
<1>7. ASSUME NEW w \in Workers, Cancel(w) PROVE [Lock!Next]_Inside
  <2>1. /\ \A v \in Workers : call'[v].key = call[v].key /\ call'[v].step = call[v].step
        /\ UNCHANGED <<conn, dead>>
    BY <1>0, <1>7 DEF Cancel, Calls
  <2>2. \A v \in Workers : Inside'[v] = Inside[v]
    BY <2>1, InsideStays
  <2> QED BY <2>2, LeavesOrStays
<1>8. ASSUME NEW w \in Workers, SessionLost(w) PROVE [Lock!Next]_Inside
  <2>1. /\ conn[w] \in Conns /\ dead' = dead \cup {conn[w]} /\ UNCHANGED <<call, conn>>
    BY <1>0, <1>8 DEF SessionLost
  <2>2. \A v \in Workers : v # w => Inside'[v] = Inside[v]
    BY <1>0, <2>1, InsideStays DEF Sole
  <2>3. Inside'[w] = NoKey
    BY <2>1 DEF Inside, Protected, Guarded
  <2> QED BY <2>2, <2>3, LeavesOrStays
<1> QED BY <1>1, <1>2, <1>3, <1>4, <1>5, <1>6, <1>7, <1>8 DEF Next, Step

\* The lock of the pool does what TryLock and release promise: every
\* behaviour of sessions, pools, cancelled contexts and lost sessions is one
\* of a lock that workers enter only while nobody is inside.
THEOREM LockImplements == Spec => LockPromise
<1>1. Init => Lock!Init
  BY DEF Init, Lock!Init, Inside, Protected, Guarded, NoCall
<1>2. LockInv /\ [Next]_vars => [Lock!Next]_Inside
  BY LockStep
<1> QED BY <1>1, <1>2, LockInvHolds, PTL DEF Spec, LockPromise, Lock!Spec

-----------------------------------------------------------------------------
(* Leaked locks *)

\* Worker v will unlock key k on connection c.
Owes(v, c, k) == conn[v] = c /\ Protected(v, k)
Owed(c, k) == \E v \in Workers : Owes(v, c, k)

\* Connections, pooled or in hand, whose session has a key more often than
\* the worker that holds the connection will unlock it.
Tainted == {c \in Conns : \E k \in Keys : held[c][k] > IF Owed(c, k) THEN 1 ELSE 0}
Cancelled == {w \in Workers : call[w].cancelled}

\* Each fault pays for one cancelled call, and the connection the call
\* leaves tainted is paid for by the cancellation.
LeakInv ==
    /\ IsFiniteSet(Tainted) /\ IsFiniteSet(Cancelled)
    /\ Cardinality(Tainted) + Cardinality(Cancelled) <= faults

\* What worker v will unlock does not change in this step.
Undisturbed(v) ==
    \/ call[v].step \notin Guarding /\ call'[v].step \notin Guarding
    \/ /\ call'[v].key = call[v].key
       /\ call[v].step \in Guarding <=> call'[v].step \in Guarding
       /\ conn'[v] = conn[v] /\ (conn[v] \in dead' <=> conn[v] \in dead)

\* What an undisturbed worker will unlock stays.
LEMMA OwesStays ==
    ASSUME NEW v \in Workers, Undisturbed(v), NEW c, NEW k PROVE Owes(v, c, k)' <=> Owes(v, c, k)
BY DEF Undisturbed, Owes, Protected, Guarded, Guarding

\* With nobody disturbed and no lock taken or given up, nothing is tainted.
LEMMA TaintedStays ==
    ASSUME \A v \in Workers : Undisturbed(v), UNCHANGED held PROVE Tainted' = Tainted
<1>1. \A c \in Conns, k \in Keys : Owed(c, k)' <=> Owed(c, k)
  BY OwesStays DEF Owed
<1> QED BY <1>1 DEF Tainted

\* When only worker w is disturbed only its connection can be tainted.
LEMMA OthersStay ==
    ASSUME LockInv, NEW w \in Workers, NEW c \in Conns, conn[w] = c,
           conn'[w] = c \/ call'[w].step \notin Guarding,
           \A v \in Workers : v # w => Undisturbed(v),
           \A d \in Conns, k \in Keys : d # c => held'[d][k] = held[d][k]
    PROVE  Tainted' \ {c} = Tainted \ {c}
<1>1. ASSUME NEW d \in Conns, NEW k \in Keys, d # c PROVE Owed(d, k)' <=> Owed(d, k)
  <2>1. ~Owes(w, d, k) /\ ~Owes(w, d, k)'
    BY <1>1 DEF Owes, Protected, Guarded, Guarding
  <2>2. \A v \in Workers : v # w => (Owes(v, d, k)' <=> Owes(v, d, k))
    BY OwesStays
  <2> QED BY <2>1, <2>2 DEF Owed
<1> QED BY <1>1 DEF Tainted

\* Only the worker that has a connection owes anything on it.
LEMMA OnlyHolderOwes ==
    ASSUME LockInv, NEW w \in Workers, conn[w] \in Conns, NEW k \in Keys
    PROVE  Owed(conn[w], k) <=> Protected(w, k)
BY DEF LockInv, Sole, Owed, Owes

\* A smaller set is paid for as well.
LEMMA Smaller ==
    ASSUME NEW S, IsFiniteSet(S), NEW T \in SUBSET S
    PROVE  IsFiniteSet(T) /\ Cardinality(T) \in Nat /\ Cardinality(S) \in Nat
           /\ Cardinality(T) <= Cardinality(S)
BY FS_Subset, FS_CardinalityType

\* An element more is at most one more to count.
LEMMA AtMostOneMore ==
    ASSUME NEW S, IsFiniteSet(S), NEW x
    PROVE  /\ IsFiniteSet(S \cup {x}) /\ Cardinality(S \cup {x}) <= Cardinality(S) + 1
           /\ Cardinality(S) \in Nat
<1>1. Cardinality(S) \in Nat
  BY FS_CardinalityType
<1>2. CASE x \in S
  <2>1. S \cup {x} = S
    BY <1>2
  <2>2. Cardinality(S) <= Cardinality(S) + 1
    BY <1>1
  <2> QED BY <1>1, <2>1, <2>2
<1>3. CASE x \notin S
  <2>1. IsFiniteSet(S \cup {x}) /\ Cardinality(S \cup {x}) = Cardinality(S) + 1
    BY <1>3, FS_AddElement
  <2> QED BY <1>1, <2>1
<1> QED BY <1>2, <1>3

\* The three ways in which a step changes the account.
LEMMA NothingAdded ==
    ASSUME LeakInv, Tainted' \subseteq Tainted, Cancelled' \subseteq Cancelled,
           faults \in Nat, faults' \in Nat, faults' >= faults
    PROVE  LeakInv'
<1>1. /\ IsFiniteSet(Tainted') /\ Cardinality(Tainted') <= Cardinality(Tainted)
      /\ Cardinality(Tainted') \in Nat /\ Cardinality(Tainted) \in Nat
  BY Smaller DEF LeakInv
<1>2. /\ IsFiniteSet(Cancelled') /\ Cardinality(Cancelled') <= Cardinality(Cancelled)
      /\ Cardinality(Cancelled') \in Nat /\ Cardinality(Cancelled) \in Nat
  BY Smaller DEF LeakInv
<1> QED BY <1>1, <1>2 DEF LeakInv

\* A fault cancels one call.
LEMMA CancelledAdded ==
    ASSUME LeakInv, Tainted' \subseteq Tainted, NEW w, Cancelled' = Cancelled \cup {w},
           w \notin Cancelled, faults \in Nat, faults' = faults + 1
    PROVE  LeakInv'
<1>1. /\ IsFiniteSet(Tainted') /\ Cardinality(Tainted') <= Cardinality(Tainted)
      /\ Cardinality(Tainted') \in Nat /\ Cardinality(Tainted) \in Nat
  BY Smaller DEF LeakInv
<1>2. IsFiniteSet(Cancelled') /\ Cardinality(Cancelled') = Cardinality(Cancelled) + 1
  BY FS_AddElement DEF LeakInv
<1>3. Cardinality(Cancelled) \in Nat
  BY FS_CardinalityType DEF LeakInv
<1> QED BY <1>1, <1>2, <1>3 DEF LeakInv

\* A cancelled call that ends is replaced by the connection it leaves tainted.
LEMMA CancelledLeaks ==
    ASSUME LeakInv, NEW c, Tainted' \subseteq Tainted \cup {c}, NEW w \in Cancelled,
           Cancelled' = Cancelled \ {w}, faults \in Nat, UNCHANGED faults
    PROVE  LeakInv'
<1>1. /\ IsFiniteSet(Tainted \cup {c}) /\ Cardinality(Tainted \cup {c}) <= Cardinality(Tainted) + 1
      /\ Cardinality(Tainted) \in Nat
  BY AtMostOneMore DEF LeakInv
<1>2. /\ IsFiniteSet(Tainted') /\ Cardinality(Tainted') <= Cardinality(Tainted \cup {c})
      /\ Cardinality(Tainted') \in Nat /\ Cardinality(Tainted \cup {c}) \in Nat
  BY <1>1, Smaller
<1>3. /\ IsFiniteSet(Cancelled') /\ Cardinality(Cancelled') = Cardinality(Cancelled) - 1
      /\ Cardinality(Cancelled) \in Nat
  BY FS_RemoveElement, FS_CardinalityType DEF LeakInv
<1> QED BY <1>1, <1>2, <1>3 DEF LeakInv

\* One step: one case per action.
LEMMA LeakStep ==
    ASSUME LockInv, LeakInv, [Next]_vars PROVE LeakInv'
<1>0. /\ call \in [Workers -> Calls] /\ conn \in [Workers -> Conns \cup {NoConn}]
      /\ held \in [Conns -> [Keys -> Nat]] /\ dead \subseteq Conns
      /\ faults \in Nat /\ Sole /\ NoConn \notin Conns
  BY AdvisoryLockAssumption DEF LockInv, TypeOK, Conns
<1>a. NoCall \in Calls /\ NoCall.step = "idle" /\ NoCall.cancelled = FALSE
  BY DEF NoCall, Calls
<1>1. CASE UNCHANGED vars
  <2>1. Tainted' = Tainted /\ Cancelled' = Cancelled /\ faults' = faults
    BY <1>1 DEF vars, Tainted, Owed, Owes, Protected, Guarded, Cancelled
  <2> QED BY <1>0, <2>1, NothingAdded
<1>2. ASSUME NEW w \in Workers, NEW k \in Keys, NEW drain \in BOOLEAN, Begin(w, k, drain)
      PROVE  LeakInv'
  <2>1. \A v \in Workers : Undisturbed(v)
    BY <1>0, <1>2 DEF Begin, Undisturbed, Guarding
  <2>2. Cancelled' \subseteq Cancelled /\ UNCHANGED <<held, faults>>
    BY <1>0, <1>2 DEF Begin, Cancelled
  <2> QED BY <1>0, <2>1, <2>2, TaintedStays, NothingAdded
<1>b. ASSUME NEW w \in Workers, NEW step \in {"try", "want", "busy", "unlock"}, Goto(w, step)
      PROVE  /\ \A v \in Workers : /\ call'[v].key = call[v].key
                                   /\ call'[v].cancelled = call[v].cancelled
             /\ \A v \in Workers : v # w => call'[v] = call[v]
             /\ call'[w].step = step
  BY <1>0, <1>b DEF Goto, Calls
<1>3. ASSUME NEW w \in Workers, Acquire(w) PROVE LeakInv'
  <2>1. /\ call'[w].step \notin Guarding /\ call[w].step \notin Guarding
        /\ call'[w].cancelled => call[w].cancelled
        /\ \A v \in Workers : v # w => call'[v] = call[v] /\ conn'[v] = conn[v]
        /\ UNCHANGED <<held, dead, faults>>
    BY <1>0, <1>3, <1>a, <1>b DEF Acquire, Guarding
  <2>2. \A v \in Workers : Undisturbed(v)
    BY <2>1 DEF Undisturbed
  <2>3. Cancelled' \subseteq Cancelled
    BY <2>1 DEF Cancelled
  <2> QED BY <1>0, <2>1, <2>2, <2>3, TaintedStays, NothingAdded
<1>c. ASSUME NEW w \in Workers, Release(w), call[w].step \in {"try", "unlock"}
      PROVE  /\ call'[w].step \notin Guarding
             /\ \A v \in Workers : v # w => Undisturbed(v)
             /\ Cancelled' = Cancelled \ {w}
  <2>1. \A v \in Workers : v # w => /\ call'[v] = call[v] /\ conn'[v] = conn[v]
                                    /\ conn[v] \in dead' <=> conn[v] \in dead
    BY <1>0, <1>c DEF Release, Sole
  <2>2. call'[w] = NoCall
    BY <1>0, <1>c DEF Release
  <2> QED BY <1>a, <2>1, <2>2 DEF Undisturbed, Cancelled, Guarding
<1>4. ASSUME NEW w \in Workers, TryLock(w) PROVE LeakInv'
  <2>0. /\ call[w].step = "try" /\ conn[w] \in Conns /\ call[w].key \in Keys
        /\ UNCHANGED faults
    BY <1>0, <1>4 DEF TryLock, Sole
  <2>1. CASE Release(w) /\ UNCHANGED held
    <3>1. \A v \in Workers : Undisturbed(v)
      BY <1>c, <2>0, <2>1 DEF Undisturbed, Guarding
    <3> QED BY <1>0, <1>c, <2>0, <2>1, <3>1, TaintedStays, NothingAdded
  <2>2. CASE /\ conn[w] \notin dead
             /\ held' = [held EXCEPT ![conn[w]][call[w].key] = @ + 1]
             /\ Goto(w, IF call[w].drain THEN "busy" ELSE "want")
             /\ UNCHANGED <<conn, dead>>
    <3>1. PICK step \in {"busy", "want"} : Goto(w, step)
      BY <2>2
    <3>2. PICK c \in Conns, k \in Keys : c = conn[w] /\ k = call[w].key
      BY <2>0
    <3>3. /\ \A d \in Conns, j \in Keys :
                held'[d][j] = IF d = c /\ j = k THEN held[d][j] + 1 ELSE held[d][j]
      BY <1>0, <2>2, <3>2
    <3>4. LockInv'
      BY <1>4, LockInvStep DEF Next, Step
    <3>5. \A j \in Keys : ~Protected(w, j) /\ (Protected(w, j)' <=> j = k)
      BY <1>b, <2>0, <2>2, <3>1, <3>2 DEF Protected, Guarded
    <3>6. \A j \in Keys : ~Owed(c, j)
      BY <2>0, <3>2, <3>5, OnlyHolderOwes
    <3>7. \A j \in Keys : Owed(c, j)' <=> j = k
      <4>1. /\ conn'[w] = c /\ \A v \in Workers : conn'[v] = c => v = w
        BY <1>0, <2>2, <3>2 DEF Sole
      <4> QED BY <3>5, <4>1 DEF Owed, Owes
    <3>8. c \in Tainted' <=> c \in Tainted
      <4>1. \A j \in Keys : held[c][j] \in Nat
        BY <1>0
      <4> QED BY <3>3, <3>6, <3>7, <4>1 DEF Tainted
    <3>9. Tainted' \ {c} = Tainted \ {c}
      <4>1. \A v \in Workers : v # w => Undisturbed(v)
        BY <1>b, <2>2, <3>1 DEF Undisturbed
      <4> QED BY <2>2, <3>2, <3>3, <4>1, OthersStay
    <3>10. Cancelled' = Cancelled
      BY <1>b, <3>1 DEF Cancelled
    <3> QED BY <1>0, <2>0, <3>8, <3>9, <3>10, NothingAdded
  <2> QED BY <1>4, <2>1, <2>2 DEF TryLock
<1>5. ASSUME NEW w \in Workers, Borrow(w) \/ WorkReturns(w) PROVE LeakInv'
  <2>1. PICK step \in {"busy", "unlock"} : Goto(w, step)
    BY <1>5 DEF Borrow, WorkReturns
  <2>2. call[w].step \in {"want", "busy"} /\ UNCHANGED <<conn, held, dead, faults>>
    BY <1>5 DEF Borrow, WorkReturns
  <2>3. \A v \in Workers : Undisturbed(v)
    BY <1>b, <2>1, <2>2 DEF Undisturbed, Guarding
  <2>4. Cancelled' = Cancelled
    BY <1>b, <2>1 DEF Cancelled
  <2> QED BY <1>0, <2>2, <2>3, <2>4, TaintedStays, NothingAdded
<1>6. ASSUME NEW w \in Workers, Unlock(w) PROVE LeakInv'
  <2>0. /\ call[w].step = "unlock" /\ conn[w] \in Conns /\ call[w].key \in Keys /\ Release(w)
        /\ UNCHANGED faults
    BY <1>0, <1>6 DEF Unlock, Sole
  <2>1. PICK c \in Conns, k \in Keys : c = conn[w] /\ k = call[w].key
    BY <2>0
  <2>2. /\ call'[w].step \notin Guarding /\ \A v \in Workers : v # w => Undisturbed(v)
        /\ Cancelled' = Cancelled \ {w}
    BY <1>c, <2>0
  <2>3. \A d \in Conns, j \in Keys : d # c => held'[d][j] = held[d][j]
    BY <1>0, <1>6, <2>1 DEF Unlock
  <2>4. Tainted' \ {c} = Tainted \ {c}
    BY <2>1, <2>2, <2>3, OthersStay
  <2>5. CASE call[w].cancelled
    <3>1. w \in Cancelled /\ Tainted' \subseteq Tainted \cup {c}
      BY <2>4, <2>5 DEF Cancelled
    <3> QED BY <1>0, <2>0, <2>2, <3>1, CancelledLeaks
  <2>6. CASE ~call[w].cancelled
    <3>1. \A j \in Keys : ~Owed(c, j)'
      <4>1. \A v \in Workers : conn'[v] # c
        BY <1>0, <2>0, <2>1 DEF Release, Sole
      <4> QED BY <4>1 DEF Owed, Owes
    <3>2. c \in Tainted' => c \in Tainted
      <4>1. \A j \in Keys : held[c][j] \in Nat
        BY <1>0
      <4>2. \A j \in Keys : Owed(c, j) <=> j = k /\ c \notin dead
        BY <2>0, <2>1, OnlyHolderOwes DEF Protected, Guarded
      <4>3. CASE c \in dead
        <5>1. held' = held
          BY <1>6, <2>1, <4>3 DEF Unlock
        <5> QED BY <3>1, <4>2, <4>3, <5>1 DEF Tainted
      <4>4. CASE c \notin dead
        <5>1. \A j \in Keys : held'[c][j] = IF j = k THEN held[c][j] - 1 ELSE held[c][j]
          BY <1>0, <1>6, <2>1, <2>6, <4>4 DEF Unlock
        <5> QED BY <3>1, <4>1, <4>2, <4>4, <5>1 DEF Tainted
      <4> QED BY <4>3, <4>4
    <3> QED BY <1>0, <2>0, <2>2, <2>4, <3>2, NothingAdded
  <2> QED BY <2>5, <2>6
<1>7. ASSUME NEW w \in Workers, Cancel(w) PROVE LeakInv'
  <2>1. call' = [call EXCEPT ![w].cancelled = TRUE] /\ ~call[w].cancelled
        /\ UNCHANGED <<conn, work, held, dead>> /\ faults' = faults + 1
    BY <1>7 DEF Cancel, Fault
  <2>2. /\ \A v \in Workers : v # w => call'[v] = call[v]
        /\ call'[w].key = call[w].key /\ call'[w].step = call[w].step /\ call'[w].cancelled
    BY <1>0, <2>1 DEF Calls
  <2>3. \A v \in Workers : Undisturbed(v)
    BY <2>1, <2>2 DEF Undisturbed
  <2>4. Cancelled' = Cancelled \cup {w} /\ w \notin Cancelled
    BY <2>1, <2>2 DEF Cancelled
  <2> QED BY <1>0, <2>1, <2>3, <2>4, TaintedStays, CancelledAdded
<1>8. ASSUME NEW w \in Workers, SessionLost(w) PROVE LeakInv'
  <2>0. conn[w] \in Conns
    BY <1>0, <1>8 DEF SessionLost
  <2>1. PICK c \in Conns : c = conn[w]
    BY <2>0
  <2>2. /\ dead' = dead \cup {c} /\ UNCHANGED <<call, conn>> /\ faults' = faults + 1
        /\ held' = [held EXCEPT ![c] = [k \in Keys |-> 0]]
    BY <1>8, <2>1 DEF SessionLost, Fault
  <2>3. \A d \in Conns, j \in Keys : held'[d][j] = IF d = c THEN 0 ELSE held[d][j]
    BY <1>0, <2>2
  <2>4. \A v \in Workers : v # w => Undisturbed(v)
    BY <1>0, <2>1, <2>2 DEF Undisturbed, Sole
  <2>5. Tainted' \ {c} = Tainted \ {c}
    BY <2>1, <2>2, <2>3, <2>4, OthersStay
  <2>6. c \notin Tainted'
    BY <2>3 DEF Tainted
  <2>7. Cancelled' = Cancelled
    BY <2>2 DEF Cancelled
  <2> QED BY <1>0, <2>2, <2>5, <2>6, <2>7, NothingAdded
<1> QED BY <1>1, <1>2, <1>3, <1>4, <1>5, <1>6, <1>7, <1>8 DEF Next, Step

\* A lock stays behind on a pooled connection only after something went
\* wrong: for every number of processes, connections and calls, and however
\* often a leaked connection is used again, the connections of the pools that
\* hold a lock are no more than there were faults, cancelled contexts and lost
\* sessions together (advisory_lock.go, the release closure; drain.go, the
\* deferred unlock).
THEOREM LeaksArePaidFor == Spec => []LeaksAreCancelled
<1>1. Init => LeakInv
  <2> SUFFICES ASSUME Init PROVE LeakInv
    OBVIOUS
  <2>1. Tainted = {} /\ Cancelled = {}
    BY DEF Init, Tainted, Cancelled, NoCall
  <2> QED BY <2>1, FS_EmptySet DEF Init, LeakInv
<1>2. LockInv /\ LeakInv /\ [Next]_vars => LeakInv'
  BY LeakStep
<1>3. LockInv /\ LeakInv => LeaksAreCancelled
  <2> SUFFICES ASSUME LockInv, LeakInv PROVE LeaksAreCancelled
    OBVIOUS
  <2> DEFINE Leaked == {c \in Conns : ~InUse(c) /\ \E k \in Keys : held[c][k] > 0}
  <2>1. Leaked \subseteq Tainted
    BY DEF InUse, Tainted, Owed, Owes
  <2>2. Cardinality(Leaked) <= Cardinality(Tainted)
        /\ Cardinality(Leaked) \in Nat /\ Cardinality(Tainted) \in Nat
    BY <2>1, Smaller DEF LeakInv
  <2>3. Cardinality(Cancelled) \in Nat /\ faults \in Nat
    BY FS_CardinalityType, AdvisoryLockAssumption DEF LeakInv, LockInv, TypeOK
  <2> HIDE DEF Leaked
  <2>4. Cardinality(Leaked) <= faults
    BY <2>2, <2>3 DEF LeakInv
  <2> QED BY <2>4 DEF LeaksAreCancelled, Leaked
<1> QED BY <1>1, <1>2, <1>3, LockInvHolds, PTL DEF Spec
=============================================================================
