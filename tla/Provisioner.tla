---------------------------- MODULE Provisioner ----------------------------
(***************************************************************************)
(* Provisioner.EnsurePartitions (internal/provisioner/provisioner.go).     *)
(* The call takes no lock.  It reads the parent row, the partition rows    *)
(* and the default row in three round trips, decides what to create from   *)
(* what it read, and creates it in one transaction.  Any of the other      *)
(* workers may run between two round trips.                                *)
(*                                                                         *)
(* ens[w] is the call worker w is in: its step, its arguments and the      *)
(* local variables that live across round trips.  A caller starts a call   *)
(* with EnsureCall and takes its result from the steps "ok" and "err".     *)
(***************************************************************************)
EXTENDS Catalog

VARIABLE ens

NoEnsure == [step |-> "none", tenant |-> NoTenant, pid |-> 0, at |-> 0,
             todo |-> {}, needDefault |-> FALSE]

EnsureCall(t) == [NoEnsure EXCEPT !.step = "load", !.tenant = t]

EnsureCalls == [step : {"none", "load", "list", "default", "create", "ok", "err"},
                tenant : Tenants \cup {NoTenant}, pid : Nat, at : Nat,
                todo : SUBSET Nat, needDefault : BOOLEAN]

TypeOKProvisioner == ens \in [Workers -> EnsureCalls]

\* The call has read the clock and not returned yet.
EnsureInFlight(w) == ens[w].step \in {"list", "default", "create"}

-----------------------------------------------------------------------------
(* What the call wants and what it finds *)

\* Mutant of Required: the current period is left out.
RequiredFutureOnly(at) == (at + 1) .. (at + Premake)

\* NextBoundsUTC(now, interval, premake + 1)
Required(at) == at .. (at + Premake)

\* Mutant of ExistingSet: rows of other tenants count.
ExistingSetAnyTenant(pid, t) ==
    {parts[n].period : n \in {m \in ListPartitionsForParent(pid) :
                                 m # DefaultName /\ parts[m].status = "active"}}

\* buildExistingSet: periods of the active bounded rows of this tenant.
ExistingSet(pid, t) ==
    {parts[n].period : n \in {m \in ListPartitionsForParent(pid) :
                                 /\ m # DefaultName /\ m[1] = t
                                 /\ parts[m].status = "active"}}

-----------------------------------------------------------------------------
(* createInTx: the DDL and the metadata of one call, all or nothing *)

\* The tables the transaction names, and the period that gives a shared
\* name its bounds: toCreate is in ascending order, later ones find the
\* table and the row there.
ToName(e) == {Build(e.tenant, p) : p \in e.todo}
FirstOf(e, n) == CHOOSE p \in e.todo :
    /\ Build(e.tenant, p) = n
    /\ \A q \in e.todo : Build(e.tenant, q) = n => p <= q
Created(e) == ToName(e) \cup (IF e.needDefault THEN {DefaultName} ELSE {})
PeriodFor(e, n) == IF n \in ToName(e) THEN FirstOf(e, n) ELSE 0

\* CREATE TABLE IF NOT EXISTS n PARTITION OF ...
CreateTable(n, p) ==
    IF tables[n].at = "none" THEN [at |-> "attached", period |-> p] ELSE tables[n]

\* INSERT ... ON CONFLICT DO NOTHING
UpsertPartition(n, p) ==
    IF parts[n].status = "none"
      THEN [id |-> epoch, period |-> p, status |-> "active"] ELSE parts[n]

\* PostgreSQL refuses a new child while the default holds rows of its range.
DefaultBlocks(e) ==
    \E n \in ToName(e) : /\ tables[n].at = "none"
                         /\ Attached(DefaultName)
                         /\ <<e.tenant, FirstOf(e, n)>> \in stray

\* The foreign key to parent_tables, checked for rows really inserted.
ParentGone(e) ==
    e.pid # parent /\ \E n \in Created(e) : parts[n].status = "none"

\* The BEFORE INSERT trigger validate_tenant_id.
TenantGone(e) ==
    /\ e.tenant # NoTenant /\ e.todo # {}
    /\ e.pid # parent \/ e.tenant \notin tenants

TxFails(e) == DefaultBlocks(e) \/ ParentGone(e) \/ TenantGone(e)

-----------------------------------------------------------------------------
(* Round trips *)

EnsureGoto(w, s) == ens' = [ens EXCEPT ![w].step = s]

EnsureLoad(w) ==
    /\ ens[w].step = "load"
    /\ IF parent = 0
         THEN EnsureGoto(w, "err")
         ELSE ens' = [ens EXCEPT ![w] = [@ EXCEPT !.step = "list", !.pid = parent, !.at = now]]
    /\ UNCHANGED catalogVars

EnsureList(w) ==
    /\ ens[w].step = "list"
    /\ ens' = [ens EXCEPT ![w] = [@ EXCEPT !.step = "default",
                 !.todo = Required(ens[w].at) \ ExistingSet(ens[w].pid, ens[w].tenant)]]
    /\ UNCHANGED catalogVars

EnsureLookupDefault(w) ==
    /\ ens[w].step = "default"
    /\ LET need == ~DefaultTracked(ens[w].pid)
       IN  ens' = [ens EXCEPT ![w] = [@ EXCEPT !.needDefault = need,
                     !.step = IF ens[w].todo = {} /\ ~need THEN "ok" ELSE "create"]]
    /\ UNCHANGED catalogVars

\* The transaction commits.  When the reply to COMMIT is lost, retry.Do
\* runs the whole transaction again.
CreateInTx(w, replyLost) ==
    LET e == ens[w] IN
    /\ e.step = "create"
    /\ ~TxFails(e)
    /\ tables' = [n \in Names |->
                    IF n \in Created(e) THEN CreateTable(n, PeriodFor(e, n)) ELSE tables[n]]
    /\ parts' = [n \in Names |->
                    IF n \in Created(e) THEN UpsertPartition(n, PeriodFor(e, n)) ELSE parts[n]]
    /\ IF replyLost THEN UNCHANGED ens ELSE EnsureGoto(w, "ok")
    /\ UNCHANGED <<now, epoch, parent, tenants, archive, stray>>

\* A statement fails for a reason no retry removes; the transaction rolls back.
CreateInTxFails(w) ==
    /\ ens[w].step = "create"
    /\ TxFails(ens[w])
    /\ EnsureGoto(w, "err")
    /\ UNCHANGED catalogVars

\* A round trip fails (connection, deadline, retries used up).
EnsureFault(w) ==
    /\ ens[w].step \in {"load", "list", "default", "create"}
    /\ EnsureGoto(w, "err")
    /\ UNCHANGED catalogVars
=============================================================================
