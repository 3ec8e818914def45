-------------------------- MODULE MaintainerProofs --------------------------
(***************************************************************************)
(* Proofs about module Maintainer, for any number of loops and replicas,   *)
(* parents, tenants, attempts and faults.                                  *)
(***************************************************************************)
EXTENDS Maintainer, FiniteSetTheorems, TLAPS

WorkSteps == {"tenants", "ensure", "create", "sweep", "apply"}

AllUnits == UNION {Units(p) : p \in Parents}

Passes == [step : Steps, todo : SUBSET Parents, at : Parents \cup {NoParent},
           units : SUBSET AllUnits, attempt : 0 .. MaxAttempts,
           failed : BOOLEAN, listed : Nat, turns : Nat]

\* A pass has a parent at hand from NextParent until its turn is over.
AtHand(q) == q.at # NoParent <=> q.step = "lock" \/ q.step \in WorkSteps

\* Of the automatic parents that were listed, each has had its turn, is at
\* hand or is still to come.
Counted(q) == /\ q.turns + Cardinality(q.todo \ Manual)
                   + (IF q.at = NoParent THEN 0 ELSE 1) = q.listed
              /\ q.listed <= Cardinality(Parents)

GoodPass(q) == q \in Passes /\ AtHand(q) /\ Counted(q)

\* What a maintainer has locked in pass q.
LockedIn(q) == IF q.step \in WorkSteps THEN q.at ELSE NoParent

PassInv ==
    /\ pass \in [Maintainers -> Passes]
    /\ inside \in [Maintainers -> Parents \cup {NoParent}]
    /\ \A w \in Maintainers : GoodPass(pass[w]) /\ inside[w] = LockedIn(pass[w])

RestTypes ==
    /\ parents \subseteq Parents /\ due \subseteq Parents
    /\ leaked \in [Parents -> Pools \cup {NoPool}]
    /\ poolOf \in Deployments /\ ended \subseteq Maintainers
    /\ faults \in 0 .. MaxFaults

\* Nobody is inside a parent together with another maintainer.
Alone == \A w, v \in Maintainers : inside[w] = inside[v] /\ inside[w] # NoParent => w = v

\* A lock that was left behind is in a pool of which a ctx has ended, and
\* whoever is inside is on its connection.
Excused(p) ==
    leaked[p] # NoPool =>
       /\ \E w \in ended : poolOf[w] = leaked[p]
       /\ \A w \in Maintainers : inside[w] = p => poolOf[w] = leaked[p]

LockInv == Alone /\ \A p \in Parents : Excused(p)

Inv == PassInv /\ RestTypes /\ LockInv

-----------------------------------------------------------------------------
(* Passes *)

\* Cardinalities of sets of parents.
LEMMA ParentSets ==
    ASSUME NEW S \in SUBSET Parents
    PROVE  /\ IsFiniteSet(S) /\ Cardinality(S) \in Nat
           /\ Cardinality(S) <= Cardinality(Parents)
BY MaintainerAssumption, FS_Subset, FS_CardinalityType

\* A pass that has not begun.
LEMMA EmptyPass == GoodPass(NoPass) /\ LockedIn(NoPass) = NoParent
<1>1. NoPass \in Passes
  BY MaintainerAssumption DEF NoPass, Passes, Steps
<1>2. Cardinality({} \ Manual) = 0
  <2>1. {} \ Manual = {}
    OBVIOUS
  <2> QED BY <2>1, FS_EmptySet
<1>3. Cardinality(Parents) \in Nat
  BY ParentSets
<1> QED BY <1>1, <1>2, <1>3 DEF GoodPass, AtHand, Counted, LockedIn, NoPass, WorkSteps

\* The pass that Maintain begins.
LEMMA FirstPass ==
    ASSUME NEW S \in SUBSET Parents,
           NEW q, q = [NoPass EXCEPT !.step = "parent", !.todo = S,
                                     !.listed = Cardinality(S \ Manual)]
    PROVE  GoodPass(q) /\ LockedIn(q) = NoParent
<1>1. Cardinality(S \ Manual) \in Nat /\ Cardinality(S \ Manual) <= Cardinality(Parents)
  BY ParentSets
<1>2. NoPass \in Passes
  BY EmptyPass DEF GoodPass
<1>3. q \in Passes
  BY <1>1, <1>2 DEF Passes, Steps
<1> QED BY <1>1, <1>3 DEF GoodPass, AtHand, Counted, LockedIn, NoPass, WorkSteps

\* The pass after NextParent.
LEMMA ParentTaken ==
    ASSUME NEW r, GoodPass(r), r.step = "parent", NEW p \in r.todo, NEW q,
           q = IF p \in Manual THEN [r EXCEPT !.todo = @ \ {p}]
               ELSE [r EXCEPT !.todo = @ \ {p}, !.at = p, !.step = "lock"]
    PROVE  GoodPass(q) /\ LockedIn(q) = NoParent /\ LockedIn(r) = NoParent
<1>1. r \in Passes /\ r.at = NoParent /\ p \in Parents /\ p # NoParent
  BY MaintainerAssumption DEF GoodPass, AtHand, WorkSteps, Passes
<1>2. q \in Passes
  BY <1>1 DEF Passes, Steps
<1>3. Counted(q)
  <2>1. CASE p \in Manual
    <3>1. q.todo \ Manual = r.todo \ Manual
      BY <1>1, <2>1 DEF Passes
    <3> QED BY <1>1, <2>1, <3>1 DEF GoodPass, Counted, Passes
  <2>2. CASE p \notin Manual
    <3>1. q.todo \ Manual = (r.todo \ Manual) \ {p} /\ p \in r.todo \ Manual
      BY <1>1, <2>2 DEF Passes
    <3>2. IsFiniteSet(r.todo \ Manual) /\ Cardinality(r.todo \ Manual) \in Nat
      BY <1>1, ParentSets DEF Passes
    <3>3. Cardinality(q.todo \ Manual) = Cardinality(r.todo \ Manual) - 1
      <4>1. ASSUME NEW T, IsFiniteSet(T), p \in T
            PROVE  Cardinality(T \ {p}) = Cardinality(T) - 1
        BY <4>1, FS_RemoveElement
      <4> QED BY <3>1, <3>2, <4>1, Zenon
    <3>4. q.at # NoParent /\ q.turns = r.turns /\ q.listed = r.listed
      BY <1>1, <2>2 DEF Passes
    <3>5. r.turns \in Nat /\ r.listed \in Nat
      BY <1>1 DEF Passes
    <3>6. r.turns + Cardinality(r.todo \ Manual) = r.listed /\ r.listed <= Cardinality(Parents)
      BY <1>1, <3>2, <3>5 DEF GoodPass, Counted
    <3>7. q.turns + Cardinality(q.todo \ Manual) + 1 = q.listed
      BY <3>2, <3>3, <3>4, <3>5, <3>6
    <3> QED BY <3>4, <3>6, <3>7 DEF Counted
  <2> QED BY <2>1, <2>2
<1>4. AtHand(q) /\ LockedIn(q) = NoParent /\ LockedIn(r) = NoParent
  BY <1>1 DEF AtHand, LockedIn, WorkSteps, Passes
<1> QED BY <1>2, <1>3, <1>4 DEF GoodPass

\* The pass after a turn, however it went.
LEMMA TurnIsOver ==
    ASSUME PassInv, NEW w \in Maintainers, pass[w].step = "lock" \/ pass[w].step \in WorkSteps
    PROVE  GoodPass(TurnOver(w)) /\ LockedIn(TurnOver(w)) = NoParent
<1> DEFINE r == pass[w]
           q == TurnOver(w)
<1>1. GoodPass(r) /\ r \in Passes /\ r.at # NoParent
  BY DEF PassInv, GoodPass, AtHand
<1>2. q \in Passes
  <2>1. 0 \in 0 .. MaxAttempts /\ {} \in SUBSET AllUnits /\ r.turns + 1 \in Nat
    BY <1>1, MaintainerAssumption DEF Passes
  <2> QED BY <1>1, <2>1 DEF Passes, Steps, TurnOver
<1>3. q.turns = r.turns + 1 /\ q.todo = r.todo /\ q.listed = r.listed /\ q.at = NoParent
      /\ q.step = "parent"
  BY <1>1 DEF Passes, TurnOver
<1>4. r.turns \in Nat /\ r.listed \in Nat /\ Cardinality(r.todo \ Manual) \in Nat
  BY <1>1, ParentSets DEF Passes
<1> HIDE DEF q
<1>5. Counted(q)
  BY <1>1, <1>3, <1>4 DEF GoodPass, Counted
<1>6. GoodPass(q) /\ LockedIn(q) = NoParent
  BY <1>2, <1>3, <1>5 DEF GoodPass, AtHand, LockedIn, WorkSteps
<1> QED BY <1>6 DEF q

\* Steps during a turn move between its stages.
LEMMA SameTurn ==
    ASSUME NEW r, GoodPass(r), NEW q \in Passes,
           r.step = "lock" \/ r.step \in WorkSteps, q.step \in WorkSteps,
           q.todo = r.todo, q.at = r.at, q.turns = r.turns, q.listed = r.listed
    PROVE  GoodPass(q) /\ LockedIn(q) = r.at
BY DEF GoodPass, AtHand, Counted, LockedIn

\* One maintainer's pass changes, and with it what it has locked.
LEMMA PassChanges ==
    ASSUME PassInv, NEW w \in Maintainers, NEW q, GoodPass(q),
           pass' = [pass EXCEPT ![w] = q],
           \/ inside' = [inside EXCEPT ![w] = LockedIn(q)]
           \/ inside' = inside /\ LockedIn(q) = LockedIn(pass[w])
    PROVE  PassInv'
<1>1. q \in Passes /\ LockedIn(q) \in Parents \cup {NoParent}
  BY DEF GoodPass, LockedIn, Passes
<1>2. pass' \in [Maintainers -> Passes] /\ inside' \in [Maintainers -> Parents \cup {NoParent}]
  BY <1>1 DEF PassInv
<1>3. ASSUME NEW v \in Maintainers
      PROVE  GoodPass(pass'[v]) /\ inside'[v] = LockedIn(pass'[v])
  <2>1. CASE v = w
    <3>1. pass'[v] = q
      BY <2>1 DEF PassInv
    <3>2. inside'[v] = LockedIn(q)
      BY <2>1 DEF PassInv
    <3> QED BY <3>1, <3>2
  <2>2. CASE v # w
    <3>1. pass'[v] = pass[v] /\ inside'[v] = inside[v]
      BY <2>2 DEF PassInv
    <3> QED BY <3>1 DEF PassInv
  <2> QED BY <2>1, <2>2
<1> QED BY <1>2, <1>3 DEF PassInv

-----------------------------------------------------------------------------
(* Steps of a pass *)

\* What the invariant says of the pass of w.
LEMMA PassOf ==
    ASSUME PassInv, NEW w \in Maintainers
    PROVE  /\ pass[w] \in Passes /\ GoodPass(pass[w]) /\ inside[w] = LockedIn(pass[w])
           /\ Working(w) <=> pass[w].step \in WorkSteps
BY DEF PassInv, Working, WorkSteps

\* Maintain and its loop.
LEMMA LoopStep ==
    ASSUME Inv, NEW w \in Maintainers,
           Maintain(w) \/ NextParent(w) \/ PassCancelled(w) \/ PassEnds(w)
    PROVE  PassInv'
<1>1. CASE Maintain(w)
  <2>1. CASE UNCHANGED pass
    BY <1>1, <2>1 DEF Inv, PassInv, Maintain, dbVars
  <2>2. CASE pass' # pass
    <3> DEFINE q == [NoPass EXCEPT !.step = "parent", !.todo = parents,
                                   !.listed = Cardinality(parents \ Manual)]
    <3>1. pass' = [pass EXCEPT ![w] = q] /\ inside' = inside
      BY <1>1, <2>2 DEF Maintain, Pass, dbVars
    <3>2. GoodPass(q) /\ LockedIn(q) = NoParent
      BY FirstPass DEF Inv, RestTypes
    <3>3. LockedIn(pass[w]) = NoParent
      BY <1>1 DEF Maintain, LockedIn, WorkSteps
    <3> HIDE DEF q
    <3> QED BY <3>1, <3>2, <3>3, PassChanges DEF Inv
  <2> QED BY <2>1, <2>2
<1>2. CASE NextParent(w)
  <2>1. PICK p \in pass[w].todo :
          pass' = [pass EXCEPT ![w] = IF p \in Manual THEN [pass[w] EXCEPT !.todo = @ \ {p}]
                     ELSE [pass[w] EXCEPT !.todo = @ \ {p}, !.at = p, !.step = "lock"]]
    BY <1>2 DEF NextParent, Pass
  <2> DEFINE q == IF p \in Manual THEN [pass[w] EXCEPT !.todo = @ \ {p}]
                  ELSE [pass[w] EXCEPT !.todo = @ \ {p}, !.at = p, !.step = "lock"]
  <2>2. GoodPass(pass[w]) /\ pass[w].step = "parent" /\ inside' = inside
    BY <1>2, PassOf DEF Inv, NextParent, dbVars
  <2>3. GoodPass(q) /\ LockedIn(q) = NoParent /\ LockedIn(pass[w]) = NoParent
    BY <2>2, ParentTaken
  <2>4. pass' = [pass EXCEPT ![w] = q]
    BY <2>1
  <2> HIDE DEF q
  <2> QED BY <2>2, <2>3, <2>4, PassChanges DEF Inv
<1>3. CASE PassCancelled(w) \/ PassEnds(w)
  <2>1. pass' = [pass EXCEPT ![w] = NoPass] /\ inside' = inside /\ pass[w].step = "parent"
    BY <1>3 DEF PassCancelled, PassEnds, Pass, dbVars
  <2>2. LockedIn(pass[w]) = NoParent
    BY <2>1 DEF LockedIn, WorkSteps
  <2> QED BY <2>1, <2>2, EmptyPass, PassChanges DEF Inv
<1> QED BY <1>1, <1>2, <1>3

\* A turn that ends without the lock.
LEMMA SkipStep ==
    ASSUME Inv, NEW w \in Maintainers, pass[w].step = "lock", Skip(w), UNCHANGED inside
    PROVE  PassInv'
<1>1. pass' = [pass EXCEPT ![w] = TurnOver(w)]
  BY DEF Skip, Pass
<1>2. LockedIn(pass[w]) = NoParent
  BY DEF LockedIn, WorkSteps
<1> QED BY <1>1, <1>2, TurnIsOver, PassChanges DEF Inv

\* A turn that ends with the deferred release.
LEMMA LeaveStep ==
    ASSUME Inv, NEW w \in Maintainers, pass[w].step \in WorkSteps, Leaves(w)
    PROVE  PassInv'
<1>1. pass' = [pass EXCEPT ![w] = TurnOver(w)] /\ inside' = [inside EXCEPT ![w] = NoParent]
  BY DEF Leaves, Pass, Lock!Leave
<1> QED BY <1>1, TurnIsOver, PassChanges DEF Inv

\* A step from one stage of a turn to another, under the lock.
LEMMA WorkStep ==
    ASSUME Inv, NEW w \in Maintainers, pass[w].step \in WorkSteps, UNCHANGED inside,
           NEW q \in Passes, pass' = [pass EXCEPT ![w] = q], q.step \in WorkSteps,
           q.todo = pass[w].todo, q.at = pass[w].at, q.turns = pass[w].turns,
           q.listed = pass[w].listed
    PROVE  PassInv'
<1>1. GoodPass(pass[w])
  BY PassOf DEF Inv
<1>2. GoodPass(q) /\ LockedIn(q) = pass[w].at
  BY <1>1, SameTurn
<1>3. LockedIn(q) = LockedIn(pass[w])
  BY <1>2 DEF LockedIn
<1> QED BY <1>2, <1>3, PassChanges DEF Inv

\* Taking the lock, or not getting it.
LEMMA TryLockStep ==
    ASSUME Inv, NEW w \in Maintainers, TryLock(w)
    PROVE  PassInv'
<1> DEFINE p == pass[w].at
           q == [pass[w] EXCEPT !.step = IF TenantsOf[p] = {} THEN "ensure" ELSE "tenants",
                                !.units = Units(p)]
<1>1. pass[w].step = "lock"
  BY DEF TryLock
<1>2. CASE Skip(w) /\ UNCHANGED inside
  BY <1>1, <1>2, SkipStep
<1>3. CASE Lock!Enter(w, p) /\ Pass(w, q)
  <2>1. pass[w] \in Passes /\ GoodPass(pass[w]) /\ p \in Parents
    BY <1>1, PassOf DEF Inv, GoodPass, AtHand, Passes
  <2>2. Units(p) \in SUBSET AllUnits
    BY <2>1 DEF AllUnits
  <2>3. q \in Passes /\ q.step \in WorkSteps /\ q.todo = pass[w].todo /\ q.at = p
        /\ q.turns = pass[w].turns /\ q.listed = pass[w].listed
    BY <2>1, <2>2 DEF Passes, Steps, WorkSteps
  <2>4. pass' = [pass EXCEPT ![w] = q] /\ inside' = [inside EXCEPT ![w] = p]
    BY <1>3 DEF Pass, Lock!Enter
  <2> HIDE DEF q
  <2>5. GoodPass(q) /\ LockedIn(q) = p
    BY <1>1, <2>1, <2>3, SameTurn
  <2> QED BY <2>4, <2>5, PassChanges DEF Inv
<1> QED BY <1>2, <1>3 DEF TryLock

\* A unit of work is over.
LEMMA UnitStep ==
    ASSUME Inv, NEW w \in Maintainers, pass[w].step \in WorkSteps, UNCHANGED inside,
           NEW fails \in BOOLEAN, NextUnit(w, fails)
    PROVE  PassInv'
<1> DEFINE rest == pass[w].units \ {CHOOSE u \in pass[w].units : TRUE}
           q == [pass[w] EXCEPT !.units = rest, !.attempt = 0, !.failed = @ \/ fails,
                                !.step = IF rest = {} THEN "sweep" ELSE "ensure"]
<1>1. pass[w] \in Passes
  BY PassOf DEF Inv
<1>2. rest \in SUBSET AllUnits /\ 0 \in 0 .. MaxAttempts /\ (pass[w].failed \/ fails) \in BOOLEAN
  BY <1>1, MaintainerAssumption DEF Passes
<1>3. pass' = [pass EXCEPT ![w] = q]
  BY DEF NextUnit, Pass
<1> HIDE DEF rest
<1>4. q \in Passes /\ q.step \in WorkSteps /\ q.todo = pass[w].todo /\ q.at = pass[w].at
      /\ q.turns = pass[w].turns /\ q.listed = pass[w].listed
  BY <1>1, <1>2 DEF Passes, Steps, WorkSteps
<1> HIDE DEF q
<1> QED BY <1>3, <1>4, WorkStep

\* The first attempt, and another one.
LEMMA AttemptStep ==
    ASSUME Inv, NEW w \in Maintainers, pass[w].step \in WorkSteps, UNCHANGED inside,
           \/ \E s \in {"create", "apply"} : Pass(w, [pass[w] EXCEPT !.step = s, !.attempt = 1])
           \/ Retry(w)
    PROVE  PassInv'
<1>1. pass[w] \in Passes
  BY PassOf DEF Inv
<1>2. CASE \E s \in {"create", "apply"} : Pass(w, [pass[w] EXCEPT !.step = s, !.attempt = 1])
  <2>1. PICK s \in {"create", "apply"} : Pass(w, [pass[w] EXCEPT !.step = s, !.attempt = 1])
    BY <1>2
  <2> DEFINE q == [pass[w] EXCEPT !.step = s, !.attempt = 1]
  <2>2. 1 \in 0 .. MaxAttempts
    BY MaintainerAssumption
  <2>3. q \in Passes /\ q.step \in WorkSteps /\ q.todo = pass[w].todo /\ q.at = pass[w].at
        /\ q.turns = pass[w].turns /\ q.listed = pass[w].listed
    BY <1>1, <2>2 DEF Passes, Steps, WorkSteps
  <2>4. pass' = [pass EXCEPT ![w] = q]
    BY <2>1 DEF Pass
  <2> HIDE DEF q
  <2> QED BY <2>3, <2>4, WorkStep
<1>3. CASE Retry(w)
  <2> DEFINE q == [pass[w] EXCEPT !.attempt = @ + 1]
  <2>1. pass[w].attempt + 1 \in 0 .. MaxAttempts
    BY <1>1, <1>3, MaintainerAssumption DEF Retry, Passes
  <2>2. q \in Passes /\ q.step \in WorkSteps /\ q.todo = pass[w].todo /\ q.at = pass[w].at
        /\ q.turns = pass[w].turns /\ q.listed = pass[w].listed
    BY <1>1, <2>1 DEF Passes
  <2>3. pass' = [pass EXCEPT ![w] = q]
    BY <1>3 DEF Retry, Pass
  <2> HIDE DEF q
  <2> QED BY <2>2, <2>3, WorkStep
<1> QED BY <1>2, <1>3

\* processParent up to the sweep.
LEMMA ProvideStep ==
    ASSUME Inv, NEW w \in Maintainers,
           ListTenants(w) \/ EnsurePartitions(w) \/ CreateInTx(w)
    PROVE  PassInv'
<1>1. pass[w].step \in WorkSteps /\ inside' = inside
  BY DEF ListTenants, EnsurePartitions, CreateInTx, WorkSteps, dbVars
<1>2. CASE ListTenants(w)
  <2>1. PICK q \in {[pass[w] EXCEPT !.step = "ensure"],
                    [pass[w] EXCEPT !.step = "sweep", !.failed = TRUE]} :
          pass' = [pass EXCEPT ![w] = q]
    BY <1>2 DEF ListTenants, Goto, Pass
  <2>2. pass[w] \in Passes
    BY PassOf DEF Inv
  <2>3. q \in Passes /\ q.step \in WorkSteps /\ q.todo = pass[w].todo /\ q.at = pass[w].at
        /\ q.turns = pass[w].turns /\ q.listed = pass[w].listed
    BY <2>1, <2>2 DEF Passes, Steps, WorkSteps
  <2> QED BY <1>1, <2>1, <2>3, WorkStep
<1>3. CASE EnsurePartitions(w)
  <2>1. \/ Pass(w, [pass[w] EXCEPT !.step = "create", !.attempt = 1])
        \/ NextUnit(w, TRUE) \/ NextUnit(w, FALSE)
    BY <1>3 DEF EnsurePartitions
  <2> QED BY <1>1, <2>1, UnitStep, AttemptStep
<1>4. CASE CreateInTx(w)
  <2>1. Retry(w) \/ NextUnit(w, TRUE) \/ NextUnit(w, FALSE)
    BY <1>4 DEF CreateInTx
  <2> QED BY <1>1, <2>1, UnitStep, AttemptStep
<1> QED BY <1>2, <1>3, <1>4

\* The sweep, and the end of the turn.
LEMMA SweepStep ==
    ASSUME Inv, NEW w \in Maintainers, Sweep(w) \/ ApplyDecision(w) \/ Panics(w)
    PROVE  PassInv'
<1>1. pass[w].step \in WorkSteps
  BY DEF Sweep, ApplyDecision, Panics, WorkSteps
<1>2. CASE Leaves(w)
  BY <1>1, <1>2, LeaveStep
<1>3. CASE /\ UNCHANGED <<inside, leaked>>
           /\ Pass(w, [pass[w] EXCEPT !.step = "apply", !.attempt = 1]) \/ Retry(w)
  BY <1>1, <1>3, AttemptStep
<1> QED BY <1>2, <1>3 DEF Sweep, ApplyDecision, Panics

-----------------------------------------------------------------------------
(* Locks *)

\* Nobody enters or leaves, and no lock stays behind.
LEMMA LockStays ==
    ASSUME LockInv, UNCHANGED <<inside, leaked, poolOf>>, ended \subseteq ended'
    PROVE  LockInv'
BY DEF LockInv, Alone, Excused

\* A maintainer enters a parent: nobody is inside, and a lock that was left
\* behind is in its own pool.
LEMMA LockEntered ==
    ASSUME Inv, NEW w \in Maintainers, NEW p \in Parents,
           leaked[p] \in {poolOf[w], NoPool}, Lock!Enter(w, p), UNCHANGED <<leaked, poolOf, ended>>
    PROVE  LockInv'
<1>1. /\ inside' = [inside EXCEPT ![w] = p] /\ \A v \in Maintainers : inside[v] # p
      /\ inside \in [Maintainers -> Parents \cup {NoParent}]
  BY DEF Lock!Enter, Inv, PassInv
<1>2. /\ inside'[w] = p
      /\ \A v \in Maintainers \ {w} : inside'[v] = inside[v]
  BY <1>1
<1>3. Alone'
  BY <1>1, <1>2 DEF Inv, LockInv, Alone
<1>4. ASSUME NEW q \in Parents
      PROVE  Excused(q)'
  <2>1. Excused(q)
    BY DEF Inv, LockInv
  <2>2. CASE q = p
    <3>1. \A v \in Maintainers : inside'[v] = q => v = w
      BY <1>1, <1>2, <2>2
    <3> QED BY <2>1, <2>2, <3>1 DEF Excused
  <2>3. CASE q # p
    <3>1. \A v \in Maintainers : inside'[v] = q => inside[v] = q
      BY <1>2, <2>3
    <3> QED BY <2>1, <3>1 DEF Excused
  <2> QED BY <2>2, <2>3
<1> QED BY <1>3, <1>4 DEF LockInv

\* A maintainer leaves: the lock goes, or its ctx has ended and the lock
\* stays behind in its pool.
LEMMA LockLeft ==
    ASSUME Inv, NEW w \in Maintainers, pass[w].step \in WorkSteps, Leaves(w),
           UNCHANGED <<poolOf, ended>>
    PROVE  LockInv' /\ leaked' \in [Parents -> Pools \cup {NoPool}]
<1>1. PICK p : p = pass[w].at
  OBVIOUS
<1>2. p \in Parents /\ p # NoParent /\ inside[w] = p
  BY <1>1, PassOf DEF Inv, GoodPass, AtHand, Passes, LockedIn
<1>3. /\ inside' = [inside EXCEPT ![w] = NoParent]
      /\ inside \in [Maintainers -> Parents \cup {NoParent}]
  BY DEF Leaves, Lock!Leave, Inv, PassInv
<1>4. /\ inside'[w] = NoParent
      /\ \A v \in Maintainers \ {w} : inside'[v] = inside[v]
  BY <1>3
<1>5. leaked \in [Parents -> Pools \cup {NoPool}] /\ poolOf[w] \in Pools
  BY MaintainerAssumption DEF Inv, RestTypes
<1>6. \/ leaked' = leaked
      \/ w \in ended /\ leaked' = [leaked EXCEPT ![p] = poolOf[w]]
  BY <1>1 DEF Leaves
<1>7. leaked' \in [Parents -> Pools \cup {NoPool}]
  BY <1>5, <1>6
<1>8. Alone'
  BY <1>4 DEF Inv, LockInv, Alone
<1>9. ASSUME NEW q \in Parents
      PROVE  Excused(q)'
  <2>1. Excused(q)
    BY DEF Inv, LockInv
  <2>2. \A v \in Maintainers : inside'[v] = q => inside[v] = q /\ v # w
    BY <1>2, <1>4, MaintainerAssumption
  <2>3. CASE leaked'[q] = leaked[q]
    BY <2>1, <2>2, <2>3 DEF Excused
  <2>4. CASE leaked'[q] # leaked[q]
    <3>1. q = p /\ w \in ended /\ leaked'[q] = poolOf[w]
      BY <1>5, <1>6, <2>4
    <3>2. \A v \in Maintainers : inside'[v] # q
      BY <1>2, <2>2, <3>1 DEF Inv, LockInv, Alone
    <3> QED BY <3>1, <3>2 DEF Excused
  <2> QED BY <2>3, <2>4
<1> QED BY <1>7, <1>8, <1>9 DEF LockInv

\* The pool closes a connection that nobody has.
LEMMA LockRecycled ==
    ASSUME Inv, NEW p \in Parents, Recycle(p)
    PROVE  LockInv' /\ leaked' \in [Parents -> Pools \cup {NoPool}]
<1>1. /\ leaked' = [leaked EXCEPT ![p] = NoPool] /\ UNCHANGED <<inside, poolOf, ended>>
      /\ leaked \in [Parents -> Pools \cup {NoPool}]
  BY DEF Recycle, Inv, RestTypes, ctxVars
<1>2. leaked' \in [Parents -> Pools \cup {NoPool}]
  BY <1>1
<1>3. \A q \in Parents : leaked'[q] = leaked[q] \/ leaked'[q] = NoPool
  BY <1>1
<1>4. \A q \in Parents : Excused(q)'
  BY <1>1, <1>3 DEF Inv, LockInv, Excused
<1> QED BY <1>1, <1>2, <1>4 DEF Inv, LockInv, Alone

-----------------------------------------------------------------------------
(* The invariant *)

\* A step of a maintainer keeps the passes in order.
LEMMA PassStep ==
    ASSUME Inv, NEW w \in Maintainers, Step(w) \/ CtxEnds(w)
    PROVE  PassInv'
<1>1. CASE CtxEnds(w)
  <2>1. UNCHANGED <<pass, inside>>
    BY <1>1 DEF CtxEnds, dbVars
  <2> QED BY <2>1 DEF Inv, PassInv
<1>2. CASE Step(w)
  BY <1>2, LoopStep, TryLockStep, ProvideStep, SweepStep DEF Step
<1> QED BY <1>1, <1>2

\* What a step of a maintainer does to contexts: one may end.
LEMMA CtxStep ==
    ASSUME Inv, NEW w \in Maintainers, Step(w) \/ CtxEnds(w)
    PROVE  /\ poolOf' = poolOf /\ ended \subseteq ended' /\ ended' \subseteq Maintainers
           /\ ended' = ended \/ CtxEnds(w)
           /\ faults' \in 0 .. MaxFaults
<1> USE DEF Inv, RestTypes, ctxVars
<1>1. ASSUME Fault \/ UNCHANGED faults
      PROVE  faults' \in 0 .. MaxFaults
  BY <1>1, MaintainerAssumption DEF Fault
<1>2. CASE CtxEnds(w)
  BY <1>1, <1>2 DEF CtxEnds
<1>3. CASE Maintain(w) \/ NextParent(w) \/ PassCancelled(w) \/ PassEnds(w)
  BY <1>1, <1>3 DEF Maintain, NextParent, PassCancelled, PassEnds, Goes, Errs
<1>4. CASE TryLock(w) \/ ListTenants(w)
  BY <1>1, <1>4 DEF TryLock, ListTenants, Goes, Errs
<1>5. CASE EnsurePartitions(w) \/ CreateInTx(w)
  BY <1>1, <1>5 DEF EnsurePartitions, CreateInTx, Retry, Goes, Errs
<1>6. CASE Sweep(w)
  BY <1>1, <1>6 DEF Sweep, Goes, Errs
<1>7. CASE ApplyDecision(w)
  BY <1>1, <1>7 DEF ApplyDecision, Retry, Goes, Errs
<1>8. CASE Panics(w)
  BY <1>1, <1>8 DEF Panics
<1> QED BY <1>2, <1>3, <1>4, <1>5, <1>6, <1>7, <1>8 DEF Step

\* A step of a maintainer keeps the locks in order.
LEMMA LockStep ==
    ASSUME Inv, NEW w \in Maintainers, Step(w) \/ CtxEnds(w)
    PROVE  LockInv' /\ leaked' \in [Parents -> Pools \cup {NoPool}]
<1>1. poolOf' = poolOf /\ ended \subseteq ended' /\ (ended' = ended \/ CtxEnds(w))
  BY CtxStep
<1>2. CASE UNCHANGED <<inside, leaked>>
  BY <1>1, <1>2, LockStays DEF Inv, RestTypes
<1>3. CASE TryLock(w) /\ inside' # inside
  <2>1. PICK p : p = pass[w].at
    OBVIOUS
  <2>2. /\ leaked[p] \in {poolOf[w], NoPool} /\ Lock!Enter(w, p)
        /\ UNCHANGED <<leaked, poolOf, ended>>
    BY <1>3, <2>1 DEF TryLock, Goes, ctxVars
  <2>3. p \in Parents
    BY <1>3, <2>1, PassOf DEF TryLock, Inv, GoodPass, AtHand, Passes
  <2> QED BY <2>2, <2>3, LockEntered DEF Inv, RestTypes
<1>4. CASE (Sweep(w) \/ ApplyDecision(w) \/ Panics(w)) /\ Leaves(w)
  <2>1. pass[w].step \in WorkSteps
    BY <1>4 DEF Sweep, ApplyDecision, Panics, WorkSteps
  <2>2. UNCHANGED ended
    BY <1>4 DEF Sweep, ApplyDecision, Panics, Retry, Goes, Errs, ctxVars
  <2> QED BY <1>1, <1>4, <2>1, <2>2, LockLeft
<1>5. CASE CtxEnds(w)
  BY <1>2, <1>5 DEF CtxEnds, dbVars
<1>6. CASE Maintain(w) \/ NextParent(w) \/ PassCancelled(w) \/ PassEnds(w)
           \/ ListTenants(w) \/ EnsurePartitions(w) \/ CreateInTx(w)
  BY <1>2, <1>6 DEF Maintain, NextParent, PassCancelled, PassEnds, ListTenants,
                    EnsurePartitions, CreateInTx, dbVars
<1>7. CASE TryLock(w)
  BY <1>2, <1>3, <1>7 DEF TryLock
<1>8. CASE Sweep(w) \/ ApplyDecision(w) \/ Panics(w)
  BY <1>2, <1>4, <1>8 DEF Sweep, ApplyDecision, Panics
<1> QED BY <1>5, <1>6, <1>7, <1>8 DEF Step

\* What a step of a maintainer does to parents and to what is due.
LEMMA WorkDone ==
    ASSUME Inv, NEW w \in Maintainers, Step(w) \/ CtxEnds(w)
    PROVE  parents' \subseteq Parents /\ due' \subseteq Parents
<1>1. parents' = parents
  BY DEF Step, CtxEnds, Maintain, NextParent, PassCancelled, PassEnds, TryLock, ListTenants,
         EnsurePartitions, CreateInTx, Sweep, ApplyDecision, Panics, dbVars
<1>2. due' = due \/ FullTurn(w)
  BY DEF Step, CtxEnds, Maintain, NextParent, PassCancelled, PassEnds, TryLock, ListTenants,
         EnsurePartitions, CreateInTx, Sweep, ApplyDecision, Panics, dbVars
<1> QED BY <1>1, <1>2 DEF FullTurn, Inv, RestTypes

\* Each step preserves the invariant.
LEMMA InvStep == Inv /\ [Next]_vars => Inv'
<1> SUFFICES ASSUME Inv, [Next]_vars
             PROVE  Inv'
  OBVIOUS
<1>1. CASE \E w \in Maintainers : Step(w) \/ CtxEnds(w)
  <2>1. PICK w \in Maintainers : Step(w) \/ CtxEnds(w)
    BY <1>1
  <2>2. PassInv' /\ LockInv' /\ leaked' \in [Parents -> Pools \cup {NoPool}]
    BY <2>1, PassStep, LockStep
  <2>3. RestTypes'
    BY <2>1, <2>2, CtxStep, WorkDone DEF Inv, RestTypes
  <2> QED BY <2>2, <2>3 DEF Inv
<1>2. CASE \E p \in Parents : Recycle(p) \/ RemoveParent(p) \/ RegisterParent(p) \/ Age(p)
  <2>1. PICK p \in Parents : Recycle(p) \/ RemoveParent(p) \/ RegisterParent(p) \/ Age(p)
    BY <1>2
  <2>2. UNCHANGED <<pass, inside, ctxVars>>
    BY <2>1 DEF Recycle, RemoveParent, RegisterParent, Age
  <2>3. LockInv' /\ leaked' \in [Parents -> Pools \cup {NoPool}]
    <3>1. CASE Recycle(p)
      BY <3>1, LockRecycled
    <3>2. CASE RemoveParent(p) \/ RegisterParent(p) \/ Age(p)
      <4>1. UNCHANGED <<inside, leaked, poolOf, ended>>
        BY <3>2 DEF RemoveParent, RegisterParent, Age, ctxVars
      <4> QED BY <4>1, LockStays DEF Inv, RestTypes
    <3> QED BY <2>1, <3>1, <3>2
  <2>4. parents' \subseteq Parents /\ due' \subseteq Parents
    BY <2>1 DEF Recycle, RemoveParent, RegisterParent, Age, Inv, RestTypes
  <2>5. RestTypes'
    BY <2>2, <2>3, <2>4 DEF Inv, RestTypes, ctxVars
  <2> QED BY <2>2, <2>3, <2>5 DEF Inv, PassInv
<1>3. CASE UNCHANGED vars
  BY <1>3 DEF vars, Inv, PassInv, RestTypes, LockInv, Alone, Excused
<1> QED BY <1>1, <1>2, <1>3 DEF Next

\* Every reachable state satisfies the invariant.
LEMMA InvHolds == Spec => []Inv
<1>1. Init => Inv
  <2> SUFFICES ASSUME Init
               PROVE  Inv
    OBVIOUS
  <2>1. \A w \in Maintainers : pass[w] = NoPass /\ inside[w] = NoParent
    BY DEF Init
  <2>2. NoPass \in Passes
    BY EmptyPass DEF GoodPass
  <2>3. PassInv
    BY <2>1, <2>2, EmptyPass DEF Init, PassInv
  <2>4. LockInv
    BY <2>1 DEF Init, LockInv, Alone, Excused
  <2>5. RestTypes
    BY MaintainerAssumption DEF Init, RestTypes
  <2> QED BY <2>3, <2>4, <2>5 DEF Inv
<1> QED BY <1>1, InvStep, PTL DEF Spec

-----------------------------------------------------------------------------
(* Theorems *)

\* Every reachable state has the declared types; in particular no call is
\* tried more than MaxAttempts times (retry.go Do) and no pass gives more
\* turns than there are parents.
THEOREM TypeCorrect == Spec => []TypeOK
<1>1. Inv => TypeOK
  <2> SUFFICES ASSUME Inv
               PROVE  TypeOK
    OBVIOUS
  <2>1. ASSUME NEW w \in Maintainers
        PROVE  /\ pass[w].step \in Steps /\ pass[w].at \in Parents \cup {NoParent}
               /\ pass[w].todo \subseteq Parents /\ pass[w].attempt \in 0 .. MaxAttempts
               /\ {pass[w].listed, pass[w].turns} \subseteq 0 .. Cardinality(Parents)
    <3>1. pass[w] \in Passes /\ Counted(pass[w])
      BY PassOf DEF Inv, GoodPass
    <3>2. pass[w].listed \in Nat /\ pass[w].turns \in Nat /\ pass[w].todo \subseteq Parents
      BY <3>1 DEF Passes
    <3>3. Cardinality(pass[w].todo \ Manual) \in Nat /\ Cardinality(Parents) \in Nat
      BY <3>2, ParentSets
    <3>4. pass[w].turns <= pass[w].listed /\ pass[w].listed <= Cardinality(Parents)
      BY <3>1, <3>2, <3>3 DEF Counted
    <3> QED BY <3>1, <3>2, <3>3, <3>4 DEF Passes
  <2> QED BY <2>1 DEF Inv, PassInv, RestTypes, TypeOK
<1> QED BY <1>1, InvHolds, PTL

\* Two maintainers never work on one parent, and a lock that is held without
\* work under it was left in a pool of which a ctx has ended, where only that
\* pool's maintainers get in (maintainer.go processParent, advisory_lock.go
\* release), for any number of loops, pools and parents.
THEOREM LocksFollow == Spec => []LocksFollowWork
<1>1. Inv => LocksFollowWork
  <2> SUFFICES ASSUME Inv
               PROVE  LocksFollowWork
    OBVIOUS
  <2>1. \A w \in Maintainers : inside[w] = IF Working(w) THEN pass[w].at ELSE NoParent
    BY PassOf DEF Inv, LockedIn
  <2>2. \A w \in Maintainers : Working(w) => pass[w].at # NoParent
    BY PassOf DEF Inv, GoodPass, AtHand
  <2>3. ASSUME NEW w \in Maintainers, NEW v \in Maintainers, w # v, Working(w), Working(v)
        PROVE  pass[w].at # pass[v].at
    BY <2>1, <2>2, <2>3 DEF Inv, LockInv, Alone
  <2>4. ASSUME NEW p \in Parents, leaked[p] # NoPool
        PROVE  /\ \E w \in ended : poolOf[w] = leaked[p]
               /\ \A w \in Maintainers : Working(w) /\ pass[w].at = p => poolOf[w] = leaked[p]
    <3>1. Excused(p)
      BY DEF Inv, LockInv
    <3> QED BY <2>1, <2>4, <3>1 DEF Excused
  <2> QED BY <2>1, <2>3, <2>4 DEF LocksFollowWork
<1> QED BY <1>1, InvHolds, PTL

\* A pass whose ctx has not ended gives each automatic parent it listed its
\* turn (maintainer.go Maintain), for any number of replicas and parents.
THEOREM TurnsAreGiven == Spec => EveryParentHasItsTurn
<1>1. Inv /\ [Next]_vars =>
        [\A w \in Maintainers :
            pass[w].step = "parent" /\ w \notin ended /\ pass'[w].step = "idle" =>
               pass[w].turns = pass[w].listed]_vars
  <2> SUFFICES ASSUME Inv, Next, NEW w \in Maintainers,
                      pass[w].step = "parent", w \notin ended, pass'[w].step = "idle"
               PROVE  pass[w].turns = pass[w].listed
    OBVIOUS
  <2>1. pass \in [Maintainers -> Passes] /\ pass[w] \in Passes /\ GoodPass(pass[w])
    BY PassOf DEF Inv, PassInv
  <2>2. PICK v \in Maintainers : Step(v) \/ CtxEnds(v)
    BY <2>1 DEF Next, Recycle, RemoveParent, RegisterParent, Age
  <2>3. v = w
    <3> SUFFICES ASSUME v # w
                 PROVE  pass'[w] = pass[w]
      OBVIOUS
    <3>1. pass' = pass \/ \E q : pass' = [pass EXCEPT ![v] = q]
      BY <2>2 DEF Step, CtxEnds, Maintain, NextParent, PassCancelled, PassEnds, TryLock,
                  ListTenants, EnsurePartitions, CreateInTx, Sweep, ApplyDecision, Panics,
                  NextUnit, Retry, Leaves, Skip, Goto, Pass
    <3> QED BY <2>1, <3>1
  <2>4. PassEnds(w)
    <3>1. ~CtxEnds(w)
      BY DEF CtxEnds
    <3>2. ~NextParent(w)
      <4> SUFFICES ASSUME NextParent(w)
                   PROVE  FALSE
        OBVIOUS
      <4>1. PICK p \in pass[w].todo :
              pass' = [pass EXCEPT ![w] = IF p \in Manual THEN [pass[w] EXCEPT !.todo = @ \ {p}]
                         ELSE [pass[w] EXCEPT !.todo = @ \ {p}, !.at = p, !.step = "lock"]]
        BY DEF NextParent, Pass
      <4>2. pass'[w].step \in {"parent", "lock"}
        BY <2>1, <4>1 DEF Passes
      <4> QED BY <4>2
    <3> QED BY <2>2, <2>3, <3>1, <3>2 DEF Step, Maintain, PassCancelled, TryLock, ListTenants,
               EnsurePartitions, CreateInTx, Sweep, ApplyDecision, Panics
  <2>5. pass[w].todo \ Manual = {} /\ pass[w].at = NoParent
    BY <2>1, <2>4 DEF PassEnds, GoodPass, AtHand, WorkSteps
  <2>6. Cardinality(pass[w].todo \ Manual) = 0
    BY <2>5, FS_EmptySet
  <2> QED BY <2>1, <2>5, <2>6 DEF GoodPass, Counted, Passes
<1> QED BY <1>1, InvHolds, PTL DEF Spec, EveryParentHasItsTurn
=============================================================================
