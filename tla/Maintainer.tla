----------------------------- MODULE Maintainer -----------------------------
(***************************************************************************)
(* Maintenance passes over all parents (Maintain and processParent of      *)
(* internal/maintainer/maintainer.go) with the retries of their work       *)
(* (internal/retry/retry.go).                                              *)
(*                                                                         *)
(* A maintainer is the loop of one Start, with the one ctx that every tick *)
(* of it hands to Maintain (scheduler.go loop).  The loop does not look at *)
(* that ctx: once it has ended, each pass fails at its first statement.  A *)
(* later Start is another maintainer, of the same pool when it is in the   *)
(* same process.  Stop, which ends no ctx, is in module Scheduler; nobody  *)
(* stops the loops of this module.                                         *)
(*                                                                         *)
(* The work on one parent is what modules Provisioner and Retention say;   *)
(* here it succeeds, fails for good, fails in a way that is retried, or    *)
(* panics in a hook.  The lock is used through what it promises, module    *)
(* AbstractLock, which module AdvisoryLock implements.                     *)
(***************************************************************************)
EXTENDS Integers, FiniteSets

CONSTANTS
    Maintainers,   \* the loops
    Pools, NoPool, \* connection pools, one in each replica
    Deployments,   \* the ways to put the loops into replicas: pool by loop
    Parents, NoParent,
    TenantsOf,     \* the tenants of each parent; empty without a tenant column
    Manual,        \* parents with automatic_maintenance = false
    Panicking,     \* parents with an expired partition on which the hook panics
    Leaving,       \* parents that are removed and registered again
    MaxAttempts,   \* Policy.MaxAttempts
    MaxFaults      \* bound: failed statements and contexts that end

ASSUME MaintainerAssumption ==
    /\ Deployments \subseteq [Maintainers -> Pools] /\ NoPool \notin Pools
    /\ IsFiniteSet(Parents) /\ NoParent \notin Parents
    /\ Manual \cup Panicking \cup Leaving \subseteq Parents
    /\ MaxAttempts \in Nat \ {0} /\ MaxFaults \in Nat

VARIABLES
    parents,  \* rows of partman.parent_tables
    inside,   \* the parent each maintainer has locked
    leaked,   \* by parent, the pool on whose connection its lock stayed behind
    pass,     \* the pass each maintainer is in
    poolOf,   \* the pool of each maintainer, which stays the same
    ended,    \* maintainers whose ctx, the one given to Start, has ended
    due,      \* parents to which time has given work since their last full turn
    faults

vars == <<parents, inside, leaked, pass, poolOf, ended, due, faults>>
dbVars == <<parents, inside, leaked, due>>
ctxVars == <<poolOf, ended, faults>>

Lock == INSTANCE AbstractLock WITH Workers <- Maintainers, Keys <- Parents, NoKey <- NoParent

\* The one unit of work of a parent without tenants.
WholeParent == "parent"
Units(p) == IF TenantsOf[p] = {} THEN {WholeParent} ELSE TenantsOf[p]

NoPass == [step |-> "idle", todo |-> {}, at |-> NoParent, units |-> {}, attempt |-> 0,
           failed |-> FALSE, listed |-> 0, turns |-> 0]

Steps == {"idle", "parent", "lock", "tenants", "ensure", "create", "sweep", "apply"}
\* Between TryLock and the deferred release.
Working(w) == pass[w].step \in {"tenants", "ensure", "create", "sweep", "apply"}

TypeOK ==
    /\ parents \subseteq Parents /\ due \subseteq Parents
    /\ poolOf \in Deployments /\ ended \subseteq Maintainers
    /\ inside \in [Maintainers -> Parents \cup {NoParent}]
    /\ leaked \in [Parents -> Pools \cup {NoPool}]
    /\ \A w \in Maintainers :
         /\ pass[w].step \in Steps /\ pass[w].at \in Parents \cup {NoParent}
         /\ pass[w].todo \subseteq Parents /\ pass[w].attempt \in 0 .. MaxAttempts
         /\ {pass[w].listed, pass[w].turns} \subseteq 0 .. Cardinality(Parents)
    /\ faults \in 0 .. MaxFaults

Init ==
    /\ parents = Parents /\ due = Parents
    /\ inside = [w \in Maintainers |-> NoParent]
    /\ leaked = [p \in Parents |-> NoPool]
    /\ pass = [w \in Maintainers |-> NoPass]
    /\ poolOf \in Deployments /\ ended = {} /\ faults = 0

Fault == faults < MaxFaults /\ faults' = faults + 1
\* A statement fails with an error that is not retried: the ctx has
\* ended, or anything else.
Errs(w) == /\ \/ w \in ended /\ UNCHANGED faults
              \/ w \notin ended /\ Fault
           /\ UNCHANGED <<poolOf, ended>>
Goes(w) == w \notin ended /\ UNCHANGED ctxVars

Pass(w, p) == pass' = [pass EXCEPT ![w] = p]
Goto(w, s) == Pass(w, [pass[w] EXCEPT !.step = s])

-----------------------------------------------------------------------------
(* Maintain *)

\* The pass begins with ListParents; an error of that ends it, which is
\* what each tick comes to once ctx has ended.
Maintain(w) ==
    /\ pass[w].step = "idle"
    /\ \/ Goes(w) /\ Pass(w, [NoPass EXCEPT !.step = "parent", !.todo = parents,
                                            !.listed = Cardinality(parents \ Manual)])
       \/ Errs(w) /\ UNCHANGED pass
    /\ UNCHANGED dbVars

\* The head of the loop, at a parent boundary.
NextParent(w) ==
    /\ pass[w].step = "parent" /\ w \notin ended
    /\ \E p \in pass[w].todo :
         Pass(w, IF p \in Manual THEN [pass[w] EXCEPT !.todo = @ \ {p}]
                 ELSE [pass[w] EXCEPT !.todo = @ \ {p}, !.at = p, !.step = "lock"])
    /\ UNCHANGED <<dbVars, ctxVars>>

PassCancelled(w) ==
    /\ pass[w].step = "parent" /\ pass[w].todo # {} /\ w \in ended
    /\ Pass(w, NoPass)
    /\ UNCHANGED <<dbVars, ctxVars>>

PassEnds(w) ==
    /\ pass[w].step = "parent" /\ pass[w].todo = {}
    /\ Pass(w, NoPass)
    /\ UNCHANGED <<dbVars, ctxVars>>

-----------------------------------------------------------------------------
(* processParent *)

\* A parent is processed, skipped or has panicked; the counters that tell
\* these apart are for the log.
TurnOver(w) == [pass[w] EXCEPT !.step = "parent", !.at = NoParent, !.units = {}, !.attempt = 0,
                               !.failed = FALSE, !.turns = @ + 1]

\* Mutant of Skip: the pass ends at a parent that someone else has locked.
SkipBreaks(w) == Pass(w, [TurnOver(w) EXCEPT !.todo = {}])

Skip(w) == Pass(w, TurnOver(w))

TryLock(w) ==
    LET p == pass[w].at IN
    /\ pass[w].step = "lock"
    /\ \/ /\ Goes(w) /\ leaked[p] \in {poolOf[w], NoPool} /\ Lock!Enter(w, p)
          /\ Pass(w, [pass[w] EXCEPT !.step = IF TenantsOf[p] = {} THEN "ensure" ELSE "tenants",
                                     !.units = Units(p)])
       \/ /\ Goes(w) /\ (leaked[p] # NoPool \/ \E v \in Maintainers : inside[v] = p)
          /\ Skip(w) /\ UNCHANGED inside
       \/ Errs(w) /\ Skip(w) /\ UNCHANGED inside
    /\ UNCHANGED <<parents, leaked, due>>

\* An error is logged and the sweep follows.
ListTenants(w) ==
    /\ pass[w].step = "tenants"
    /\ \/ Goes(w) /\ Goto(w, "ensure")
       \/ Errs(w) /\ Pass(w, [pass[w] EXCEPT !.step = "sweep", !.failed = TRUE])
    /\ UNCHANGED dbVars

\* The call after a unit of work has returned: the next unit, then the sweep.
NextUnit(w, fails) ==
    LET rest == pass[w].units \ {CHOOSE u \in pass[w].units : TRUE} IN
    Pass(w, [pass[w] EXCEPT !.units = rest, !.attempt = 0, !.failed = @ \/ fails,
                            !.step = IF rest = {} THEN "sweep" ELSE "ensure"])

\* EnsurePartitions up to retry.Do: reads, each of which may end it, and
\* the early return when nothing is missing.
EnsurePartitions(w) ==
    /\ pass[w].step = "ensure"
    /\ \/ /\ Goes(w) /\ pass[w].at \in parents
          /\ \/ Pass(w, [pass[w] EXCEPT !.step = "create", !.attempt = 1])
             \/ NextUnit(w, FALSE)
       \/ Goes(w) /\ pass[w].at \notin parents /\ NextUnit(w, TRUE)
       \/ Errs(w) /\ NextUnit(w, TRUE)
    /\ UNCHANGED dbVars

\* Mutant of Retry: the number of attempts is not bounded.
RetryUnbounded(w) ==
    /\ w \notin ended /\ Fault /\ UNCHANGED <<poolOf, ended>>
    /\ Pass(w, [pass[w] EXCEPT !.attempt = @ + 1])

\* retry.Do after an error that is transient: another attempt after the
\* delay, unless this was the last or ctx ends meanwhile.
Retry(w) ==
    /\ w \notin ended /\ Fault /\ UNCHANGED <<poolOf, ended>>
    /\ pass[w].attempt < MaxAttempts
    /\ Pass(w, [pass[w] EXCEPT !.attempt = @ + 1])

CreateInTx(w) ==
    /\ pass[w].step = "create"
    /\ \/ Goes(w) /\ NextUnit(w, FALSE)
       \/ Retry(w)
       \/ Errs(w) /\ NextUnit(w, TRUE)
    /\ UNCHANGED dbVars

\* Mutant of Leaves: release gives the connection back without unlocking.
LeavesUnlocked(w) ==
    /\ Pass(w, TurnOver(w))
    /\ Lock!Leave(w)
    /\ leaked' = [leaked EXCEPT ![pass[w].at] = poolOf[w]]

\* processParent returns and its deferred release runs, with the same ctx:
\* once that has ended the lock stays on the pooled connection.  A lock that
\* was left there before is taken and given up once more, and stays.
Leaves(w) ==
    /\ Pass(w, TurnOver(w))
    /\ Lock!Leave(w)
    /\ leaked' = IF w \in ended THEN [leaked EXCEPT ![pass[w].at] = poolOf[w]] ELSE leaked

\* The turn was full: everything was done without an error.
FullTurn(w) == due' = IF pass[w].failed THEN due ELSE due \ {pass[w].at}

\* Sweep up to its first candidate, if there is one.
Sweep(w) ==
    /\ pass[w].step = "sweep"
    /\ \/ /\ Goes(w) /\ pass[w].at \in parents
          /\ Pass(w, [pass[w] EXCEPT !.step = "apply", !.attempt = 1])
          /\ UNCHANGED <<inside, leaked, due>>
       \/ Goes(w) /\ pass[w].at \in parents \ Panicking /\ Leaves(w) /\ FullTurn(w)
       \/ Goes(w) /\ pass[w].at \notin parents /\ Leaves(w) /\ UNCHANGED due
       \/ Errs(w) /\ Leaves(w) /\ UNCHANGED due
    /\ UNCHANGED parents

\* The rest of Sweep; one candidate stands for all of them.
ApplyDecision(w) ==
    /\ pass[w].step = "apply" /\ pass[w].at \notin Panicking
    /\ \/ Goes(w) /\ Leaves(w) /\ FullTurn(w)
       \/ Retry(w) /\ UNCHANGED <<inside, leaked, due>>
       \/ Errs(w) /\ Leaves(w) /\ UNCHANGED due
    /\ UNCHANGED parents

\* Mutant of Panics: nothing recovers, and the panic ends the pass.
PanicsEscaping(w) ==
    /\ pass[w].step = "apply" /\ pass[w].at \in Panicking
    /\ Pass(w, NoPass) /\ Lock!Leave(w)
    /\ UNCHANGED <<parents, leaked, due, ctxVars>>

\* The hook panics; release runs, then the panic is recovered and logged.
Panics(w) ==
    /\ pass[w].step = "apply" /\ pass[w].at \in Panicking
    /\ Leaves(w)
    /\ UNCHANGED <<parents, due, ctxVars>>

-----------------------------------------------------------------------------
(* Around the passes *)

\* The ctx given to Start ends, for good: it is cancelled, or its deadline
\* passes.  The loop goes on.
CtxEnds(w) ==
    /\ w \notin ended /\ Fault
    /\ ended' = ended \cup {w}
    /\ UNCHANGED <<dbVars, pass, poolOf>>

\* pgxpool closes connections that are idle or old, with their locks, while
\* nobody has them.
Recycle(p) ==
    /\ leaked[p] # NoPool /\ \A w \in Maintainers : inside[w] # p
    /\ leaked' = [leaked EXCEPT ![p] = NoPool]
    /\ UNCHANGED <<parents, inside, pass, due, ctxVars>>

RemoveParent(p) ==
    /\ p \in Leaving /\ p \in parents
    /\ parents' = parents \ {p}
    /\ UNCHANGED <<inside, leaked, pass, due, ctxVars>>

RegisterParent(p) ==
    /\ p \notin parents
    /\ parents' = parents \cup {p}
    /\ UNCHANGED <<inside, leaked, pass, due, ctxVars>>

\* Time passes: there is a period to provide for, or one to drop.
Age(p) ==
    /\ p \notin due
    /\ due' = due \cup {p}
    /\ UNCHANGED <<parents, inside, leaked, pass, ctxVars>>

-----------------------------------------------------------------------------
Step(w) ==
    \/ Maintain(w) \/ NextParent(w) \/ PassCancelled(w) \/ PassEnds(w)
    \/ TryLock(w) \/ ListTenants(w) \/ EnsurePartitions(w) \/ CreateInTx(w)
    \/ Sweep(w) \/ ApplyDecision(w) \/ Panics(w)

Next ==
    \/ \E w \in Maintainers : Step(w) \/ CtxEnds(w)
    \/ \E p \in Parents : Recycle(p) \/ RemoveParent(p) \/ RegisterParent(p) \/ Age(p)

Spec == Init /\ [][Next]_vars

\* The ticker fires again and again, statements return, and the pool does
\* not keep a connection for ever.
FairSpec ==
    /\ Spec
    /\ \A w \in Maintainers : WF_vars(Step(w))
    /\ \A p \in Parents : WF_vars(Recycle(p))

-----------------------------------------------------------------------------
(* Properties *)

\* Two maintainers never work on one parent, and the lock goes with the
\* work: it is held while its taker works and given up however the work ends,
\* in an error or a panic, unless the ctx of a maintainer of that pool has
\* ended.  Then it may stay behind, and only maintainers of that pool, who
\* may be given the connection it is on, work on the parent (maintainer.go
\* processParent, advisory_lock.go release).
LocksFollowWork ==
    /\ \A w \in Maintainers : inside[w] = IF Working(w) THEN pass[w].at ELSE NoParent
    /\ \A w, v \in Maintainers :
         w # v /\ Working(w) /\ Working(v) => pass[w].at # pass[v].at
    /\ \A p \in Parents : leaked[p] # NoPool =>
         /\ \E w \in ended : poolOf[w] = leaked[p]
         /\ \A w \in Maintainers : Working(w) /\ pass[w].at = p => poolOf[w] = leaked[p]

\* No parent is left out: when a pass returns nil, each automatic parent it
\* listed has been processed, skipped for its lock or has panicked, whatever
\* failed for the others (maintainer.go Maintain, the loop over parents).
EveryParentHasItsTurn ==
    [][\A w \in Maintainers : pass[w].step = "parent" /\ w \notin ended /\ pass'[w].step = "idle" =>
          pass[w].turns = pass[w].listed]_vars

\* Faults are isolated: for as long as the ctx of some loop lives, a parent
\* that stays registered is brought up to date again and again, next to one
\* whose hook always panics, loops that skip each other's parents, transient
\* errors, loops whose ctx has ended, which maintain nothing more, and the
\* locks these have left behind (maintainer.go Maintain, ADR-0007).
ParentsAreMaintained ==
    \A p \in Parents \ (Manual \cup Panicking) :
       <>[](p \in parents /\ ended # Maintainers) => []<>(p \notin due)
=============================================================================
