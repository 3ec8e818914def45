------------------------------ MODULE Partman ------------------------------
(***************************************************************************)
(* The library around one parent table: the Registry's operations          *)
(* (internal/registry/registry.go) and the Maintainer's pass               *)
(* (internal/maintainer/maintainer.go), run by several workers at once and *)
(* built on the Provisioner and Retention.  A worker is one goroutine of   *)
(* one replica; all of them share the database and the clock.              *)
(*                                                                         *)
(* job[w] is the operation worker w is in.  Only a maintenance pass takes  *)
(* the parent's advisory lock; how sessions hold it is module              *)
(* AdvisoryLock.                                                           *)
(***************************************************************************)
EXTENDS Provisioner, Retention

CONSTANTS
    AllowCascade,    \* RemoveParent may be called WithCascadeDrop
    MaxStall,        \* periods an EnsurePartitions call may stay in flight
    MaxFaults,       \* bound: failed round trips, lost replies and crashes
    NoWorker

ASSUME PartmanAssumption ==
    /\ AllowCascade \in BOOLEAN
    /\ MaxStall \in Nat /\ MaxFaults \in Nat
    /\ NoWorker \notin Workers

VARIABLES
    job,     \* the operation each worker is in
    lock,    \* the worker whose session holds the parent's advisory lock
    faults   \* faults so far

vars == <<catalogVars, ens, swp, job, lock, faults>>

Idle == [op |-> "idle", step |-> "none", tenant |-> NoTenant, pid |-> 0, queue |-> {}]

Ops == {"idle", "registerParent", "registerTenant", "removeParent",
        "cascadeParent", "removeTenant", "maintain"}

Jobs == [op : Ops,
         step : {"none", "upsert", "delete", "lock", "tenants", "ensure", "sweep"},
         tenant : Tenants \cup {NoTenant}, pid : Nat, queue : SUBSET Tenants]

TypeOK ==
    /\ TypeOKCatalog /\ TypeOKProvisioner /\ TypeOKRetention
    /\ job \in [Workers -> Jobs]
    /\ lock \in Workers \cup {NoWorker}
    /\ faults \in 0 .. MaxFaults

Init ==
    /\ InitCatalog
    /\ ens = [w \in Workers |-> NoEnsure]
    /\ swp = [w \in Workers |-> NoSweep]
    /\ job = [w \in Workers |-> Idle]
    /\ lock = NoWorker
    /\ faults = 0

-----------------------------------------------------------------------------
(* How an operation moves on *)

At(w, op, step) == job[w].op = op /\ job[w].step = step
Return(w) == job' = [job EXCEPT ![w] = Idle]
Goto(w, step) == job' = [job EXCEPT ![w].step = step]
Begin(w, op, step) ==
    /\ job[w].op = "idle"
    /\ job' = [job EXCEPT ![w] = [Idle EXCEPT !.op = op, !.step = step]]

CallEnsure(w, t) == ens' = [ens EXCEPT ![w] = EnsureCall(t)]
EnsureReturned(w) == ens[w].step \in {"ok", "err"} /\ ens' = [ens EXCEPT ![w] = NoEnsure]
RetentionReturned(w, results) ==
    swp[w].step \in results /\ swp' = [swp EXCEPT ![w] = NoSweep]

-----------------------------------------------------------------------------
(* Registry *)

\* The bound on registrations, counting the tenant inserts under way.
EpochLeft ==
    epoch + Cardinality({w \in Workers : At(w, "registerTenant", "upsert")}) < MaxEpoch

\* Validation passed; the insert either adds the row or reports
\* ErrParentAlreadyExists and changes nothing.  Tenantless parents are
\* provisioned at once, tenanted ones tenant by tenant.
RegisterParent(w) ==
    /\ parent = 0 /\ EpochLeft
    /\ epoch' = epoch + 1 /\ parent' = epoch + 1
    /\ IF HasTenantColumn
         THEN job[w].op = "idle" /\ UNCHANGED <<job, ens>>
         ELSE Begin(w, "registerParent", "ensure") /\ CallEnsure(w, NoTenant)
    /\ UNCHANGED <<now, tenants, parts, tables, archive, stray, swp, lock, faults>>

\* GetParentTable of RegisterTenant and of RemoveTenant; without a parent
\* both return.
LoadParent(w, op, step, t) ==
    /\ HasTenantColumn /\ parent # 0
    /\ op = "registerTenant" => EpochLeft
    /\ job[w].op = "idle"
    /\ job' = [job EXCEPT ![w] = [Idle EXCEPT !.op = op, !.step = step,
                                              !.tenant = t, !.pid = parent]]
    /\ UNCHANGED <<catalogVars, ens, swp, lock, faults>>

RegisterTenant(w, t) == LoadParent(w, "registerTenant", "upsert", t)
RemoveTenant(w, t)   == LoadParent(w, "removeTenant", "delete", t)

\* A new row starts the provisioning.  A row that exists is
\* ErrTenantAlreadyExists; a parent that has gone breaks the foreign key.
UpsertTenant(w) ==
    /\ At(w, "registerTenant", "upsert")
    /\ IF job[w].pid = parent /\ job[w].tenant \notin tenants
         THEN /\ epoch' = epoch + 1
              /\ tenants' = tenants \cup {job[w].tenant}
              /\ Goto(w, "ensure") /\ CallEnsure(w, job[w].tenant)
         ELSE Return(w) /\ UNCHANGED <<epoch, tenants, ens>>
    /\ UNCHANGED <<now, parent, parts, tables, archive, stray, swp, lock, faults>>

RemoveTenantRow(w) ==
    /\ At(w, "removeTenant", "delete")
    /\ DeleteTenant(job[w].pid, job[w].tenant)
    /\ Return(w)
    /\ UNCHANGED <<now, epoch, parent, tables, archive, stray, ens, swp, lock, faults>>

\* The provisioning of a registration returns, and the registration with it.
RegisterReturns(w) ==
    /\ job[w].op \in {"registerParent", "registerTenant"} /\ job[w].step = "ensure"
    /\ EnsureReturned(w)
    /\ Return(w)
    /\ UNCHANGED <<catalogVars, swp, lock, faults>>

RemoveParent(w, cascade) ==
    /\ \/ ~cascade /\ Begin(w, "removeParent", "delete") /\ UNCHANGED swp
       \/ /\ cascade /\ AllowCascade
          /\ Begin(w, "cascadeParent", "sweep")
          /\ swp' = [swp EXCEPT ![w] = DropAllCall]
    /\ UNCHANGED <<catalogVars, ens, lock, faults>>

\* DropAll returned nil, or an error that ends RemoveParent.
CascadeReturns(w) ==
    /\ At(w, "cascadeParent", "sweep")
    /\ \/ RetentionReturned(w, {"ok"}) /\ Goto(w, "delete")
       \/ RetentionReturned(w, {"err"}) /\ Return(w)
    /\ UNCHANGED <<catalogVars, ens, lock, faults>>

\* The delete is by schema and table name: it takes whichever row is there.
RemoveParentRow(w) ==
    /\ job[w].op \in {"removeParent", "cascadeParent"} /\ job[w].step = "delete"
    /\ DeleteParentTable
    /\ Return(w)
    /\ UNCHANGED <<now, epoch, tables, archive, stray, ens, swp, lock, faults>>

-----------------------------------------------------------------------------
(* Maintainer: one pass over the parent *)

\* ListParents returns the parent; an empty list ends the pass.
Maintain(w) ==
    /\ parent # 0
    /\ Begin(w, "maintain", "lock")
    /\ UNCHANGED <<catalogVars, ens, swp, lock, faults>>

\* pg_try_advisory_lock: another session's lock makes the pass skip the parent.
TryLock(w) ==
    /\ At(w, "maintain", "lock")
    /\ IF lock # NoWorker
         THEN Return(w) /\ UNCHANGED <<lock, ens>>
         ELSE /\ lock' = w
              /\ IF HasTenantColumn
                   THEN Goto(w, "tenants") /\ UNCHANGED ens
                   ELSE Goto(w, "ensure") /\ CallEnsure(w, NoTenant)
    /\ UNCHANGED <<catalogVars, swp, faults>>

\* Provision the next tenant of the queue, or go on to the sweep.
NextTenant(w, queue) ==
    \/ \E t \in queue :
         /\ job' = [job EXCEPT ![w] = [@ EXCEPT !.step = "ensure", !.queue = queue \ {t}]]
         /\ CallEnsure(w, t)
         /\ UNCHANGED swp
    \/ /\ queue = {}
       /\ Goto(w, "sweep")
       /\ swp' = [swp EXCEPT ![w] = SweepCall]
       /\ ens' = [ens EXCEPT ![w] = NoEnsure]

\* ListTenants: an absent parent is an error, and the pass sweeps anyway.
ListTenants(w) ==
    /\ At(w, "maintain", "tenants")
    /\ NextTenant(w, IF parent = 0 THEN {} ELSE tenants)
    /\ UNCHANGED <<catalogVars, lock, faults>>

\* EnsurePartitions returned; an error is logged and the pass goes on.
PassContinues(w) ==
    /\ At(w, "maintain", "ensure")
    /\ ens[w].step \in {"ok", "err"}
    /\ NextTenant(w, job[w].queue)
    /\ UNCHANGED <<catalogVars, lock, faults>>

\* Mutant of PassEnds: the deferred release is missing.
PassEndsLocked(w) ==
    /\ At(w, "maintain", "sweep")
    /\ RetentionReturned(w, {"ok", "err"})
    /\ Return(w)
    /\ UNCHANGED <<catalogVars, ens, lock, faults>>

\* Sweep returned, with a report or an error; the deferred release unlocks.
PassEnds(w) ==
    /\ At(w, "maintain", "sweep")
    /\ RetentionReturned(w, {"ok", "err"})
    /\ lock' = IF lock = w THEN NoWorker ELSE lock
    /\ Return(w)
    /\ UNCHANGED <<catalogVars, ens, faults>>

-----------------------------------------------------------------------------
(* Components at work inside an operation *)

ProvisionerStep(w) ==
    /\ \/ EnsureLoad(w) \/ EnsureList(w) \/ EnsureLookupDefault(w)
       \/ CreateInTx(w, FALSE) \/ CreateInTxFails(w)
    /\ UNCHANGED <<swp, job, lock, faults>>

RetentionStep(w) ==
    /\ \/ RetentionLoad(w) \/ SweepList(w) \/ DropAllList(w)
       \/ \E r \in swp[w].rows :
            \/ \E d \in Hook : ApplyDecision(w, r, d, FALSE) \/ SkipCandidate(w, r, d)
            \/ DropOne(w, r, FALSE)
    /\ UNCHANGED <<ens, job, lock, faults>>

(* Faults *)

Fault == faults < MaxFaults /\ faults' = faults + 1

\* Round trips that fail, and commits whose reply is lost.
ComponentFault(w) ==
    /\ Fault
    /\ \/ (EnsureFault(w) \/ CreateInTx(w, TRUE)) /\ UNCHANGED swp
       \/ /\ \/ RetentionFault(w)
             \/ \E r \in swp[w].rows :
                  \/ \E d \in Hook : ApplyDecision(w, r, d, TRUE)
                  \/ DropOne(w, r, TRUE)
          /\ UNCHANGED ens
    /\ UNCHANGED <<job, lock>>

\* ListTenants fails: the pass still sweeps.
ListTenantsFault(w) ==
    /\ Fault
    /\ At(w, "maintain", "tenants")
    /\ NextTenant(w, {})
    /\ UNCHANGED <<catalogVars, lock>>

\* The session that holds the lock is lost.  The pass works on other
\* connections and goes on without it.
LockLost(w) ==
    /\ Fault
    /\ lock = w
    /\ lock' = NoWorker
    /\ UNCHANGED <<catalogVars, ens, swp, job>>

\* The process dies, a pass panics, or an operation returns an error between
\* two of its steps.  PostgreSQL rolls back and frees the session's locks.
Crash(w) ==
    /\ Fault
    /\ job[w].op # "idle"
    /\ Return(w)
    /\ ens' = [ens EXCEPT ![w] = NoEnsure]
    /\ swp' = [swp EXCEPT ![w] = NoSweep]
    /\ lock' = IF lock = w THEN NoWorker ELSE lock
    /\ UNCHANGED catalogVars

-----------------------------------------------------------------------------
(* Environment *)

\* Time passes; no EnsurePartitions call outlives MaxStall periods.
Tick ==
    /\ now < MaxNow
    /\ \A w \in Workers : EnsureInFlight(w) => now < ens[w].at + MaxStall
    /\ now' = now + 1
    /\ UNCHANGED <<epoch, parent, tenants, parts, tables, archive, stray,
                   ens, swp, job, lock, faults>>

ClientInsert ==
    /\ \E t \in TenantKeys, p \in StrayPeriods : InsertStray(t, p)
    /\ UNCHANGED <<ens, swp, job, lock, faults>>

-----------------------------------------------------------------------------
\* Steps by which a worker goes on with the operation it is in.
Proceeds(w) ==
    \/ RegisterReturns(w) \/ UpsertTenant(w) \/ RemoveTenantRow(w)
    \/ CascadeReturns(w) \/ RemoveParentRow(w)
    \/ TryLock(w) \/ ListTenants(w) \/ PassContinues(w) \/ PassEnds(w)
    \/ ProvisionerStep(w) \/ RetentionStep(w)

\* Calls of the public API.
Starts(w) ==
    \/ RegisterParent(w)
    \/ \E t \in Tenants : RegisterTenant(w, t) \/ RemoveTenant(w, t)
    \/ \E cascade \in BOOLEAN : RemoveParent(w, cascade)

Next ==
    \/ Tick \/ ClientInsert
    \/ \E w \in Callers : Starts(w)
    \/ \E w \in Maintainers : Maintain(w)
    \/ \E w \in Workers :
         \/ Proceeds(w)
         \/ ComponentFault(w) \/ ListTenantsFault(w) \/ LockLost(w) \/ Crash(w)

Spec == Init /\ [][Next]_vars

\* The scheduler ticks for ever and goroutines that can run do run.
FairSpec ==
    /\ Spec
    /\ \A w \in Maintainers : WF_vars(Maintain(w))
    /\ \A w \in Workers : WF_vars(Proceeds(w))

-----------------------------------------------------------------------------
(* Properties *)

\* A range that ended at least a whole retention period ago.
Overdue(p) == p + 1 + Retention <= now
\* The child n leaves the parent in this step.
Takes(n) == Attached(n) /\ tables'[n].at # "attached"

\* The metadata tells the truth about the tables, between any two
\* transactions: an active row has its table attached to the parent with
\* the row's bounds, a dropped one has no table, a detached one no attached
\* table.  Provisioner and Retention each write both in one transaction but
\* decide from older reads (provisioner.go createInTx, retention.go
\* applyDecision).
ActiveIsAttached ==
    \A n \in Names : parts[n].status = "active" =>
        Attached(n) /\ tables[n].period = parts[n].period
DroppedIsGone == \A n \in Names : parts[n].status = "dropped" => tables[n].at = "none"
DetachedIsOut == \A n \in Names : parts[n].status = "detached" => ~Attached(n)
MetadataAgrees == ActiveIsAttached /\ DroppedIsGone /\ DetachedIsOut

\* Retention.Sweep never takes the default, the current or a future
\* partition from the parent, however old the list it works from: unless a
\* cascading RemoveParent is at work, only a range that ended a whole
\* retention period ago leaves the parent.
SweepSparesLive ==
    [][(\A w \in Workers : swp[w].mode # "dropAll") =>
          \A n \in Names : Takes(n) => n # DefaultName /\ Overdue(tables[n].period)]_vars

\* EnsurePartitions makes the partitions match the target set: when it
\* returns without an error the default and every period it was asked for
\* are children of the parent.
EnsureDelivers ==
    [][\A w \in Workers : ens[w].step # "ok" /\ ens'[w].step = "ok" =>
          /\ tables'[DefaultName].at = "attached"
          /\ \A p \in ens[w].at .. (ens[w].at + Premake) : Covered(ens[w].tenant, p)']_vars

\* RetentionPeriod 0 keeps every partition.
ZeroRetentionKeepsAll ==
    [][(Retention = 0 /\ \A w \in Workers : swp[w].mode # "dropAll") =>
          \A n \in Names : ~Takes(n)]_vars

\* RemoveParent WithCascadeDrop drops all child tables: none is attached
\* when it returns.
CascadeDropsChildren ==
    [][\A w \in Workers :
          At(w, "cascadeParent", "delete") /\ parent # 0 /\ job'[w].op = "idle" /\ faults' = faults =>
             \A n \in Names : tables'[n].at # "attached"]_vars

Registered(t) == parent # 0 /\ (HasTenantColumn => t \in tenants)

\* Maintenance keeps up: the current period of whatever is registered
\* gets its partition, and the parent its default, whatever failed before.
MaintenanceKeepsUp ==
    \A t \in TenantKeys :
        Registered(t) ~> \/ ~Registered(t)
                         \/ Attached(DefaultName) /\ Covered(t, now)

\* Retention catches up: a tracked partition past its retention leaves the
\* parent, or stops being tracked, also when sweeps fail or crash on the way.
RetentionCatchesUp ==
    \A n \in BoundedNames :
        (parts[n].status = "active" /\ Overdue(parts[n].period))
            ~> (parts[n].status # "active" \/ ~Attached(n))
=============================================================================
