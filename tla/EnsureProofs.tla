---------------------------- MODULE EnsureProofs ----------------------------
(***************************************************************************)
(* Proofs about module Partman, continued: what EnsurePartitions delivers  *)
(* to its caller.                                                          *)
(***************************************************************************)
EXTENDS PartmanProofs

-----------------------------------------------------------------------------
(* Whom a call provisions *)

\* A call is for a tenant where the parent has a tenant column, and for none
\* where it has not: there no pass lists tenants and no tenant is registered.
Keyed ==
    \A w \in Workers :
        /\ ens[w].step # "none" => ens[w].tenant \in TenantKeys
        /\ ~HasTenantColumn => /\ job[w].queue = {}
                               /\ job[w].op # "registerTenant" /\ job[w].step # "tenants"

\* The operation and the call of one worker.
KeyedCall(j, e) ==
    /\ e.step # "none" => e.tenant \in TenantKeys
    /\ ~HasTenantColumn => j.queue = {} /\ j.op # "registerTenant" /\ j.step # "tenants"

\* Calls a worker may be in between operations, and calls that begin.
LEMMA KeyedCalls ==
    /\ NoEnsure.step = "none" /\ Idle.queue = {} /\ Idle.op = "idle" /\ Idle.step = "none"
    /\ \A t : EnsureCall(t).tenant = t
    /\ NoTenant \in TenantKeys \/ HasTenantColumn
    /\ HasTenantColumn => TenantKeys = Tenants
BY DEF NoEnsure, Idle, EnsureCall, TenantKeys

\* Where one worker's operation and call change, only they need a look.
LEMMA OneKeyed ==
    ASSUME TypeOK, Keyed, NEW v \in Workers,
           \A w \in Workers : w # v => ens'[w] = ens[w] /\ job'[w] = job[w],
           KeyedCall(job'[v], ens'[v])
    PROVE  Keyed'
BY DEF Keyed, KeyedCall

\* The step of a pass to its next tenant or to the sweep.
LEMMA NextTenantKeyed ==
    ASSUME TypeOK, Keyed, NEW v \in Workers, NEW queue \in SUBSET Tenants,
           HasTenantColumn \/ queue = {}, NextTenant(v, queue)
    PROVE  Keyed'
<1>0. /\ job \in [Workers -> Jobs] /\ ens \in [Workers -> EnsureCalls]
      /\ KeyedCall(job[v], ens[v])
  BY DEF TypeOK, TypeOKProvisioner, Keyed, KeyedCall
<1>1. \A w \in Workers : w # v => ens'[w] = ens[w] /\ job'[w] = job[w]
  BY <1>0 DEF NextTenant, CallEnsure, Goto
<1>2. CASE \E t \in queue :
              /\ job' = [job EXCEPT ![v] = [@ EXCEPT !.step = "ensure", !.queue = queue \ {t}]]
              /\ CallEnsure(v, t)
  <2>1. PICK t \in queue : CallEnsure(v, t)
    BY <1>2
  <2>2. ens'[v] = EnsureCall(t) /\ t \in TenantKeys /\ HasTenantColumn
    BY <1>0, <2>1, KeyedCalls DEF CallEnsure
  <2>3. KeyedCall(job'[v], ens'[v])
    BY <2>2, KeyedCalls DEF KeyedCall
  <2> QED BY <1>1, <2>3, OneKeyed
<1>3. CASE Goto(v, "sweep") /\ ens' = [ens EXCEPT ![v] = NoEnsure]
  <2>1. ens'[v].step = "none" /\ job'[v] = [job[v] EXCEPT !.step = "sweep"]
    BY <1>0, <1>3, KeyedCalls DEF Goto
  <2>2. job'[v].queue = job[v].queue /\ job'[v].op = job[v].op /\ job'[v].step = "sweep"
    BY <1>0, <2>1 DEF Jobs
  <2>3. KeyedCall(job'[v], ens'[v])
    BY <1>0, <2>1, <2>2 DEF KeyedCall
  <2> QED BY <1>1, <2>3, OneKeyed
<1> QED BY <1>2, <1>3 DEF NextTenant

\* Operations of the Registry provision the right key.
LEMMA RegistryKeyed ==
    ASSUME TypeOK, TenantNamed, Keyed, NEW v \in Workers,
           \/ Starts(v) \/ UpsertTenant(v) \/ RemoveTenantRow(v) \/ RegisterReturns(v)
           \/ CascadeReturns(v) \/ RemoveParentRow(v)
    PROVE  Keyed'
<1>0. /\ job \in [Workers -> Jobs] /\ ens \in [Workers -> EnsureCalls]
      /\ KeyedCall(job[v], ens[v])
  BY DEF TypeOK, TypeOKProvisioner, Keyed, KeyedCall
<1>1. ASSUME Return(v), UNCHANGED ens \/ ens' = [ens EXCEPT ![v] = NoEnsure] PROVE Keyed'
  <2>1. /\ \A w \in Workers : w # v => ens'[w] = ens[w] /\ job'[w] = job[w]
        /\ job'[v] = Idle /\ (ens'[v] = ens[v] \/ ens'[v] = NoEnsure)
    BY <1>0, <1>1 DEF Return
  <2>2. KeyedCall(job'[v], ens'[v])
    BY <1>0, <2>1, KeyedCalls DEF KeyedCall
  <2> QED BY <2>1, <2>2, OneKeyed
<1>2. ASSUME NEW op \in Ops \ {"registerTenant"}, NEW step \in {"ensure", "delete", "sweep"},
             Begin(v, op, step),
             UNCHANGED ens \/ (~HasTenantColumn /\ CallEnsure(v, NoTenant))
      PROVE  Keyed'
  <2>1. /\ \A w \in Workers : w # v => ens'[w] = ens[w] /\ job'[w] = job[w]
        /\ job'[v] = [Idle EXCEPT !.op = op, !.step = step]
        /\ ens'[v] = ens[v] \/ (~HasTenantColumn /\ ens'[v] = EnsureCall(NoTenant))
    BY <1>0, <1>2 DEF Begin, CallEnsure
  <2>2. job'[v].queue = {} /\ job'[v].op = op /\ job'[v].step = step
    BY <2>1 DEF Idle
  <2>3. KeyedCall(job'[v], ens'[v])
    BY <1>0, <2>1, <2>2, KeyedCalls DEF KeyedCall
  <2> QED BY <2>1, <2>3, OneKeyed
<1>3. ASSUME NEW step \in {"ensure", "delete"}, Goto(v, step),
             UNCHANGED ens \/ \E t \in TenantKeys : CallEnsure(v, t)
      PROVE  Keyed'
  <2>1. /\ \A w \in Workers : w # v => ens'[w] = ens[w] /\ job'[w] = job[w]
        /\ job'[v] = [job[v] EXCEPT !.step = step]
        /\ ens'[v] = ens[v] \/ \E t \in TenantKeys : ens'[v] = EnsureCall(t)
    BY <1>0, <1>3 DEF Goto, CallEnsure
  <2>2. job'[v].queue = job[v].queue /\ job'[v].op = job[v].op /\ job'[v].step = step
    BY <1>0, <2>1 DEF Jobs
  <2>3. KeyedCall(job'[v], ens'[v])
    BY <1>0, <2>1, <2>2, KeyedCalls DEF KeyedCall
  <2> QED BY <2>1, <2>3, OneKeyed
<1>4. CASE RegisterParent(v)
  <2>1. CASE UNCHANGED <<job, ens>>
    BY <2>1 DEF Keyed
  <2>2. CASE ~HasTenantColumn /\ Begin(v, "registerParent", "ensure") /\ CallEnsure(v, NoTenant)
    BY <1>2, <2>2 DEF Ops
  <2> QED BY <1>4, <2>1, <2>2, Zenon DEF RegisterParent
<1>5. CASE \E t \in Tenants : RegisterTenant(v, t) \/ RemoveTenant(v, t)
  <2>1. /\ UNCHANGED ens /\ HasTenantColumn
        /\ \A w \in Workers : w # v => job'[w] = job[w]
    BY <1>0, <1>5 DEF RegisterTenant, RemoveTenant, LoadParent
  <2> QED BY <2>1 DEF Keyed
<1>6. CASE \E cascade \in BOOLEAN : RemoveParent(v, cascade)
  <2>1. /\ UNCHANGED ens
        /\ Begin(v, "removeParent", "delete") \/ Begin(v, "cascadeParent", "sweep")
    BY <1>6 DEF RemoveParent
  <2> QED BY <1>2, <2>1 DEF Ops
<1>7. CASE UpsertTenant(v)
  <2>1. HasTenantColumn /\ job[v].tenant \in TenantKeys
    BY <1>0, <1>7, KeyedCalls DEF UpsertTenant, At, TenantNamed, KeyedCall
  <2>2. \/ Goto(v, "ensure") /\ CallEnsure(v, job[v].tenant)
        \/ Return(v) /\ UNCHANGED ens
    BY <1>7 DEF UpsertTenant
  <2> QED BY <1>1, <1>3, <2>1, <2>2
<1>8. CASE RemoveTenantRow(v) \/ RegisterReturns(v) \/ RemoveParentRow(v)
  BY <1>1, <1>8 DEF RemoveTenantRow, RegisterReturns, EnsureReturned, RemoveParentRow
<1>9. CASE CascadeReturns(v)
  BY <1>1, <1>3, <1>9 DEF CascadeReturns
<1> QED BY <1>4, <1>5, <1>6, <1>7, <1>8, <1>9 DEF Starts

\* So do a pass, the calls themselves and faults.
LEMMA KeyedStep ==
    ASSUME TypeOK, TenantNamed, Keyed, [Next]_vars
    PROVE  Keyed'
<1>0. job \in [Workers -> Jobs] /\ ens \in [Workers -> EnsureCalls]
  BY DEF TypeOK, TypeOKProvisioner
<1>1. CASE UNCHANGED <<job, ens>>
  BY <1>1 DEF Keyed
<1>2. ASSUME NEW v \in Workers,
             \/ Starts(v) \/ UpsertTenant(v) \/ RemoveTenantRow(v) \/ RegisterReturns(v)
             \/ CascadeReturns(v) \/ RemoveParentRow(v)
      PROVE  Keyed'
  BY <1>2, RegistryKeyed
<1>3. ASSUME NEW v \in Workers, Maintain(v) PROVE Keyed'
  <2>1. /\ UNCHANGED ens
        /\ \A w \in Workers : w # v => job'[w] = job[w]
        /\ job'[v] = [Idle EXCEPT !.op = "maintain", !.step = "lock"]
    BY <1>0, <1>3 DEF Maintain, Begin
  <2>2. job'[v].queue = {} /\ job'[v].op = "maintain" /\ job'[v].step = "lock"
    BY <2>1 DEF Idle
  <2> QED BY <2>1, <2>2, OneKeyed DEF Keyed, KeyedCall
<1>4. ASSUME NEW v \in Workers, TryLock(v) PROVE Keyed'
  <2>1. \A w \in Workers : w # v => ens'[w] = ens[w] /\ job'[w] = job[w]
    BY <1>0, <1>4 DEF TryLock, Return, Goto, CallEnsure
  <2>2. CASE Return(v) /\ UNCHANGED ens
    <3>1. job'[v] = Idle /\ ens'[v] = ens[v]
      BY <1>0, <2>2 DEF Return
    <3> QED BY <2>1, <3>1, KeyedCalls, OneKeyed DEF Keyed, KeyedCall
  <2>3. CASE HasTenantColumn /\ Goto(v, "tenants") /\ UNCHANGED ens
    <3>1. ens'[v] = ens[v]
      BY <2>3
    <3> QED BY <2>1, <2>3, <3>1, OneKeyed DEF Keyed, KeyedCall
  <2>4. CASE ~HasTenantColumn /\ Goto(v, "ensure") /\ CallEnsure(v, NoTenant)
    <3>1. ens'[v] = EnsureCall(NoTenant) /\ job'[v] = [job[v] EXCEPT !.step = "ensure"]
      BY <1>0, <2>4 DEF Goto, CallEnsure
    <3>2. job'[v].queue = job[v].queue /\ job'[v].op = job[v].op /\ job'[v].step = "ensure"
      BY <1>0, <3>1 DEF Jobs
    <3>3. KeyedCall(job'[v], ens'[v])
      BY <2>4, <3>1, <3>2, KeyedCalls DEF Keyed, KeyedCall
    <3> QED BY <2>1, <3>3, OneKeyed
  <2> QED BY <1>4, <2>2, <2>3, <2>4, Zenon DEF TryLock
<1>5. ASSUME NEW v \in Workers, ListTenants(v) \/ ListTenantsFault(v) PROVE Keyed'
  <2>1. HasTenantColumn
    BY <1>5 DEF ListTenants, ListTenantsFault, At, Keyed
  <2>2. (IF parent = 0 THEN {} ELSE tenants) \in SUBSET Tenants /\ {} \in SUBSET Tenants
    BY DEF TypeOK, TypeOKCatalog
  <2> QED BY <1>5, <2>1, <2>2, NextTenantKeyed DEF ListTenants, ListTenantsFault
<1>6. ASSUME NEW v \in Workers, PassContinues(v) PROVE Keyed'
  <2>1. job[v].queue \in SUBSET Tenants
    BY <1>0 DEF Jobs
  <2>2. HasTenantColumn \/ job[v].queue = {}
    BY DEF Keyed
  <2> QED BY <1>6, <2>1, <2>2, NextTenantKeyed DEF PassContinues
<1>7. ASSUME NEW v \in Workers, PassEnds(v) \/ Crash(v) PROVE Keyed'
  <2>1. /\ \A w \in Workers : w # v => ens'[w] = ens[w] /\ job'[w] = job[w]
        /\ job'[v] = Idle /\ (ens'[v] = ens[v] \/ ens'[v] = NoEnsure)
    BY <1>0, <1>7 DEF PassEnds, Crash, Return
  <2> QED BY <2>1, KeyedCalls, OneKeyed DEF Keyed, KeyedCall
<1>8. ASSUME NEW v \in Workers, RetentionStep(v) \/ LockLost(v) PROVE Keyed'
  BY <1>1, <1>8 DEF RetentionStep, LockLost
<1>9. ASSUME NEW v \in Workers, ProvisionerStep(v) \/ ComponentFault(v) PROVE Keyed'
  <2>1. UNCHANGED job
    BY <1>9 DEF ProvisionerStep, ComponentFault
  <2> DEFINE Same == \A w \in Workers : /\ ens'[w].tenant = ens[w].tenant
                                        /\ ens[w].step = "none" => ens'[w].step = "none"
  <2>2. ASSUME UNCHANGED ens PROVE Same
    BY <2>2
  <2>3. ASSUME NEW s, EnsureGoto(v, s), ens[v].step # "none" PROVE Same
    BY <1>0, <2>3 DEF EnsureGoto, EnsureCalls
  <2>4. ASSUME EnsureLoad(v) PROVE Same
    <3>1. CASE ens' = [ens EXCEPT ![v] = [@ EXCEPT !.step = "list", !.pid = parent, !.at = now]]
      BY <1>0, <2>4, <3>1 DEF EnsureLoad, EnsureCalls
    <3>2. ens[v].step # "none"
      BY <2>4 DEF EnsureLoad
    <3> HIDE DEF Same
    <3> QED BY <2>3, <2>4, <3>1, <3>2 DEF EnsureLoad
  <2>5. ASSUME EnsureList(v) PROVE Same
    BY <1>0, <2>5 DEF EnsureList, EnsureCalls
  <2>6. ASSUME EnsureLookupDefault(v) PROVE Same
    BY <1>0, <2>6 DEF EnsureLookupDefault, EnsureCalls
  <2>7. Same => Keyed'
    BY <2>1 DEF Keyed
  <2> HIDE DEF Same
  <2>8. ASSUME \/ CreateInTx(v, FALSE) \/ CreateInTx(v, TRUE)
               \/ CreateInTxFails(v) \/ EnsureFault(v)
        PROVE  Same
    BY <2>2, <2>3, <2>8 DEF CreateInTx, CreateInTxFails, EnsureFault
  <2> QED BY <1>9, <2>2, <2>4, <2>5, <2>6, <2>7, <2>8, Zenon DEF ProvisionerStep, ComponentFault
<1>10. CASE Tick \/ ClientInsert \/ UNCHANGED vars
  BY <1>1, <1>10 DEF Tick, ClientInsert, vars
<1> QED BY <1>2, <1>3, <1>4, <1>5, <1>6, <1>7, <1>8, <1>9, <1>10, Zenon DEF Next, Proceeds, Workers

-----------------------------------------------------------------------------
(* What a call finds stays *)

\* What the call will not create because it found it, is there.
Found ==
    \A w \in Workers :
        /\ ens[w].step \in {"default", "create"} =>
              \A p \in Required(ens[w].at) \ ens[w].todo : Covered(ens[w].tenant, p)
        /\ ens[w].step = "create" /\ ~ens[w].needDefault => Attached(DefaultName)

\* A child that is not past its retention stays, and so does the default.
LEMMA Stays ==
    ASSUME Steady, TypeOK, SteadyInv, PeriodOfName', [Next]_vars, NEW n \in Names, Attached(n),
           n = DefaultName \/ ~Overdue(tables[n].period)
    PROVE  Attached(n)' /\ tables'[n].period = tables[n].period
<1>1. tables'[n].at = "attached"
  <2>1. PeriodOfName /\ SweepRows /\ \A w \in Workers : swp[w].mode # "dropAll"
    BY DEF SteadyInv, SweepIds
  <2> QED BY <2>1, SparesStep DEF Takes
<1>2. tables[n].at # "none"
  BY DEF Attached
<1> QED BY <1>1, <1>2 DEF PeriodOfName, SteadyInv, Attached

\* The tenant of a call after a step, and tables that a step leaves alone.
LEMMA CoveredAfter ==
    ASSUME NEW w \in Workers, NEW t, NEW p
    PROVE  /\ ens'[w].tenant = t /\ Covered(t, p)' => Covered(ens[w].tenant, p)'
           /\ tables' = tables /\ Covered(t, p) => Covered(t, p)'
BY DEF Covered, Attached

\* No period a call in flight was asked for is past its retention.
LEMMA RequiredIsRecent ==
    ASSUME Steady, TypeOK, EnsureRecent, NEW w \in Workers, EnsureInFlight(w),
           NEW p \in Required(ens[w].at)
    PROVE  p \in Period /\ ~Overdue(p)
<1>0. /\ ens[w].at \in Nat /\ now \in 0 .. MaxNow /\ MaxNow \in Nat
      /\ Retention \in Nat /\ MaxStall \in Nat /\ Premake \in Nat
  BY CatalogAssumption, PartmanAssumption
     DEF TypeOK, TypeOKCatalog, TypeOKProvisioner, EnsureCalls
<1>1. ens[w].at <= now /\ now <= ens[w].at + MaxStall
  BY DEF EnsureRecent
<1> QED BY <1>0, <1>1 DEF Required, Overdue, Steady, Period

\* A period that is not past its retention stays covered.
LEMMA StaysCovered ==
    ASSUME Steady, TypeOK, SteadyInv, PeriodOfName', [Next]_vars, NEW t, NEW p, ~Overdue(p),
           Covered(t, p)
    PROVE  Covered(t, p)'
<1>1. PICK n \in Names : n # DefaultName /\ n[1] = t /\ Attached(n) /\ tables[n].period = p
  BY DEF Covered
<1>2. Attached(n)' /\ tables'[n].period = p
  BY <1>1, Stays
<1> QED BY <1>1, <1>2 DEF Covered

\* A row of the existing set stands for a child.
LEMMA ExistingIsCovered ==
    ASSUME SteadyInv, NEW pid, NEW t, NEW p \in ExistingSet(pid, t)
    PROVE  Covered(t, p)
<1>1. PICK n \in Names : /\ n # DefaultName /\ n[1] = t
                         /\ parts[n].status = "active" /\ parts[n].period = p
  BY DEF ExistingSet, ListPartitionsForParent
<1> QED BY <1>1 DEF SteadyInv, MetadataAgrees, ActiveIsAttached, Covered

\* A tracked default is a child.
LEMMA TrackedIsAttached ==
    ASSUME Steady, TypeOK, SteadyInv, NEW pid, DefaultTracked(pid)
    PROVE  Attached(DefaultName)
<1>1. DefaultName \in Names /\ parts[DefaultName].status \in {"active", "detached", "dropped"}
  BY NameOfPeriod DEF Steady, DefaultTracked, TypeOK, TypeOKCatalog, Rows
<1> QED BY <1>1 DEF SteadyInv, OutIsOverdue, MetadataAgrees, ActiveIsAttached

\* A step leaves what the calls have found in place.
LEMMA FoundStep ==
    ASSUME Steady, TypeOK, SteadyInv, SteadyInv', Found, [Next]_vars
    PROVE  Found'
<1> SUFFICES ASSUME NEW w \in Workers
             PROVE  /\ ens'[w].step \in {"default", "create"} =>
                          \A p \in Required(ens'[w].at) \ ens'[w].todo : Covered(ens[w].tenant, p)'
                    /\ ens'[w].step = "create" /\ ~ens'[w].needDefault => Attached(DefaultName)'
  BY DEF Found, Required
<1>t. PICK t : t = ens[w].tenant
  OBVIOUS
<1>0. ens \in [Workers -> EnsureCalls] /\ ens[w] \in EnsureCalls
  BY DEF TypeOK, TypeOKProvisioner
<1>a. PeriodOfName' /\ EnsureRecent
  BY DEF SteadyInv
<1>1. CASE ens'[w] = ens[w]
  <2>1. ASSUME ens[w].step \in {"default", "create"},
               NEW p \in Required(ens[w].at) \ ens[w].todo
        PROVE  Covered(ens[w].tenant, p)'
    <3>1. Covered(t, p) /\ ~Overdue(p)
      BY <1>a, <1>t, <2>1, RequiredIsRecent DEF Found, EnsureInFlight
    <3>2. Covered(t, p)'
      BY <1>a, <3>1, StaysCovered
    <3> QED BY <1>1, <1>t, <3>2, CoveredAfter
  <2>2. Attached(DefaultName) => Attached(DefaultName)'
    BY <1>a, Stays, NameOfPeriod DEF Steady
  <2> QED BY <1>1, <2>1, <2>2 DEF Found
<1>2. CASE ens'[w].step \in {"none", "load", "list", "ok", "err"}
  BY <1>2
<1>3. CASE Tick \/ ClientInsert \/ UNCHANGED vars
  BY <1>1, <1>3 DEF Tick, ClientInsert, vars
<1>4. CASE EnsureLoad(w)
  <2>1. CASE EnsureGoto(w, "err")
    BY <1>0, <1>2, <2>1 DEF EnsureGoto, EnsureCalls
  <2>2. CASE ens' = [ens EXCEPT ![w] = [@ EXCEPT !.step = "list", !.pid = parent, !.at = now]]
    BY <1>0, <1>2, <2>2 DEF EnsureCalls
  <2> QED BY <1>4, <2>1, <2>2, Zenon DEF EnsureLoad
<1>5. CASE EnsureList(w)
  <2>1. /\ ens'[w].step = "default" /\ ens'[w].at = ens[w].at /\ ens'[w].tenant = ens[w].tenant
        /\ ens'[w].todo = Required(ens[w].at) \ ExistingSet(ens[w].pid, ens[w].tenant)
        /\ tables' = tables
    BY <1>0, <1>5 DEF EnsureList, EnsureCalls, catalogVars
  <2>2. ASSUME NEW p \in ExistingSet(ens[w].pid, ens[w].tenant)
        PROVE  Covered(ens[w].tenant, p)'
    <3>1. Covered(t, p)
      BY <1>t, ExistingIsCovered
    <3> QED BY <1>t, <2>1, <3>1, CoveredAfter
  <2> QED BY <2>1, <2>2
<1>6. CASE EnsureLookupDefault(w)
  <2>1. /\ ens[w].step = "default" /\ ens'[w].at = ens[w].at /\ ens'[w].tenant = ens[w].tenant
        /\ ens'[w].todo = ens[w].todo /\ tables' = tables
        /\ ens'[w].needDefault = ~DefaultTracked(ens[w].pid)
    BY <1>0, <1>6 DEF EnsureLookupDefault, EnsureCalls, catalogVars
  <2>2. ASSUME NEW p \in Required(ens'[w].at) \ ens'[w].todo PROVE Covered(ens[w].tenant, p)'
    <3>1. Covered(t, p)
      BY <1>t, <2>1, <2>2 DEF Found
    <3> QED BY <1>t, <2>1, <3>1, CoveredAfter
  <2>3. ~ens'[w].needDefault => Attached(DefaultName)'
    BY <2>1, TrackedIsAttached DEF Attached
  <2> QED BY <2>2, <2>3
<1>7. CASE CreateInTx(w, FALSE)
  BY <1>0, <1>2, <1>7 DEF CreateInTx, EnsureGoto, EnsureCalls
<1> QED BY <1>1, <1>2, <1>3, <1>4, <1>5, <1>6, <1>7, EnsureMoves

-----------------------------------------------------------------------------
(* What a call delivers *)

\* The transaction leaves every table it names attached, with its period.
LEMMA CreatedIsCovered ==
    ASSUME Steady, TypeOK, SteadyInv, Keyed, NEW w \in Workers, CreateInTx(w, FALSE)
    PROVE  /\ \A p \in ens[w].todo \cap Required(ens[w].at) : Covered(ens[w].tenant, p)'
           /\ ens[w].needDefault => Attached(DefaultName)'
<1>e. PICK e : e = ens[w]
  OBVIOUS
<1>0. /\ tables \in [Names -> TablesOf] /\ parts \in [Names -> Rows]
      /\ e.todo \in SUBSET Nat /\ e.step = "create" /\ EnsureInFlight(w) /\ EnsureRecent
      /\ PeriodsPerName = 1 /\ ens'[w].tenant = e.tenant
  BY <1>e DEF EnsureGoto, TypeOK, TypeOKCatalog, TypeOKProvisioner, EnsureCalls, CreateInTx, EnsureInFlight,
         SteadyInv, Steady
<1>1. \A n \in Created(e) \cap Names : tables'[n] = CreateTable(n, PeriodFor(e, n))
  BY <1>e DEF CreateInTx
<1>2. ASSUME NEW p \in e.todo, p \in Required(e.at) PROVE Covered(e.tenant, p)'
  <2> DEFINE n == Build(e.tenant, p)
  <2>1. p \in Period /\ ~Overdue(p) /\ e.tenant \in TenantKeys
    BY <1>0, <1>2, <1>e, RequiredIsRecent DEF Keyed
  <2>2. n \in Names /\ n \in ToName(e) /\ n \in Created(e) /\ n = <<e.tenant, p>>
    <3>1. n \in BoundedNames
      BY <2>1 DEF BoundedNames
    <3>2. n = <<e.tenant, p>>
      BY <1>0, NameOfPeriod
    <3> QED BY <3>1, <3>2 DEF Names, ToName, Created
  <2>3. n # DefaultName /\ PeriodFor(e, n) = p
    <3>1. n[2] = p
      BY <2>2
    <3> HIDE DEF n
    <3> QED BY <1>0, <2>2, <3>1, CreatedPeriod
  <2>4. tables[n].at \in {"none", "attached"}
    <3>1. n[2] = p
      BY <2>2
    <3> QED BY <1>0, <2>1, <2>2, <3>1 DEF SteadyInv, OutIsOverdue, TablesOf
  <2>5. tables'[n] = CreateTable(n, p)
    BY <1>1, <2>2, <2>3
  <2>6. tables[n].at = "attached" => tables[n].period = p
    <3>1. n[2] = p
      BY <2>2
    <3> QED BY <2>2, <2>3, <3>1 DEF SteadyInv, PeriodOfName
  <2>7. n[1] = e.tenant
    BY <2>2
  <2> HIDE DEF n
  <2>8. tables'[n].at = "attached" /\ tables'[n].period = p
    BY <2>4, <2>5, <2>6 DEF CreateTable
  <2>9. PICK m \in Names : m = n
    BY <2>2
  <2> QED BY <2>3, <2>7, <2>8, <2>9 DEF Covered, Attached
<1>3. \A p \in e.todo \cap Required(e.at) : Covered(ens[w].tenant, p)'
  BY <1>0, <1>2, CoveredAfter
<1>4. ASSUME e.needDefault PROVE Attached(DefaultName)'
  <2>1. DefaultName \in Names /\ DefaultName \in Created(e)
    BY <1>0, <1>4, NameOfPeriod DEF Created
  <2>2. tables[DefaultName].at \in {"none", "attached"}
    BY <1>0, <2>1 DEF SteadyInv, OutIsOverdue, TablesOf
  <2>3. tables'[DefaultName] = CreateTable(DefaultName, PeriodFor(e, DefaultName))
    BY <1>1, <2>1
  <2> QED BY <2>2, <2>3 DEF CreateTable, Attached
<1> QED BY <1>e, <1>3, <1>4

\* EnsurePartitions keeps its promise: when a call returns without an error
\* the default and every period it was asked for are children of the parent,
\* for any number of replicas, callers and tenants, any premake and
\* retention, with faults, crashes and removals between its round trips;
\* under the conditions of MetadataIsTrue.
THEOREM EnsureKeepsPromise == Steady => (Spec => EnsureDelivers)
<1> SUFFICES ASSUME Steady PROVE Spec => EnsureDelivers
  OBVIOUS
<1> DEFINE Delivers ==
        \A w \in Workers : ens[w].step # "ok" /\ ens'[w].step = "ok" =>
           /\ tables'[DefaultName].at = "attached"
           /\ \A p \in ens[w].at .. (ens[w].at + Premake) : Covered(ens[w].tenant, p)'
<1>1. Init => TenantNamed /\ Keyed /\ Found
  <2> SUFFICES ASSUME Init PROVE TenantNamed /\ Keyed /\ Found
    OBVIOUS
  <2>1. \A w \in Workers : job[w] = Idle /\ ens[w] = NoEnsure
    BY DEF Init
  <2> QED BY <2>1, KeyedCalls DEF TenantNamed, Keyed, Found
<1>2. TypeOK /\ TenantNamed /\ Keyed /\ [Next]_vars => TenantNamed' /\ Keyed'
  BY TypeStep, KeyedStep
<1>3. TypeOK /\ SteadyInv /\ SteadyInv' /\ Found /\ [Next]_vars => Found'
  BY FoundStep
<1>4. TypeOK /\ SteadyInv /\ SteadyInv' /\ Keyed /\ Found /\ [Next]_vars => Delivers
  <2> SUFFICES ASSUME TypeOK, SteadyInv, SteadyInv', Keyed, Found, [Next]_vars, NEW w \in Workers,
                      ens[w].step # "ok", ens'[w].step = "ok"
               PROVE  /\ Attached(DefaultName)'
                      /\ \A p \in Required(ens[w].at) : Covered(ens[w].tenant, p)'
    BY DEF Attached, Required
  <2>0. ens \in [Workers -> EnsureCalls] /\ ens[w] \in EnsureCalls
    BY DEF TypeOK, TypeOKProvisioner
  <2>1. EnsureLookupDefault(w) \/ CreateInTx(w, FALSE)
    <3>1. CASE Tick \/ ClientInsert \/ UNCHANGED vars
      BY <3>1 DEF Tick, ClientInsert, vars
    <3>2. CASE EnsureLoad(w)
      BY <2>0, <3>2 DEF EnsureLoad, EnsureGoto, EnsureCalls
    <3>3. CASE EnsureList(w)
      BY <2>0, <3>3 DEF EnsureList, EnsureCalls
    <3> QED BY <3>1, <3>2, <3>3, EnsureMoves
  <2>t. PICK t : t = ens[w].tenant /\ ens'[w].tenant = t
    <3>1. CASE EnsureLookupDefault(w)
      BY <2>0, <3>1 DEF EnsureLookupDefault, EnsureCalls
    <3>2. CASE CreateInTx(w, FALSE)
      BY <2>0, <3>2 DEF CreateInTx, EnsureGoto, EnsureCalls
    <3> QED BY <2>1, <3>1, <3>2
  <2>2. CASE EnsureLookupDefault(w)
    <3>1. /\ ens[w].step = "default" /\ ens[w].todo = {} /\ DefaultTracked(ens[w].pid)
          /\ tables' = tables
      BY <2>0, <2>2 DEF EnsureLookupDefault, EnsureCalls, catalogVars
    <3>2. Attached(DefaultName) /\ \A p \in Required(ens[w].at) : Covered(t, p)
      BY <2>t, <3>1, TrackedIsAttached DEF Found
    <3> QED BY <2>t, <3>1, <3>2, CoveredAfter DEF Attached
  <2>3. CASE CreateInTx(w, FALSE)
    <3>1. ens[w].step = "create" /\ EnsureInFlight(w) /\ PeriodOfName' /\ EnsureRecent
      BY <2>3 DEF CreateInTx, EnsureInFlight, SteadyInv
    <3>2. Attached(DefaultName)'
      <4>1. ~ens[w].needDefault => Attached(DefaultName)
        BY <3>1 DEF Found
      <4>2. Attached(DefaultName) => Attached(DefaultName)'
        BY <3>1, Stays, NameOfPeriod DEF Steady
      <4> QED BY <2>3, <4>1, <4>2, CreatedIsCovered
    <3>3. ASSUME NEW p \in Required(ens[w].at) PROVE Covered(ens[w].tenant, p)'
      <4>1. CASE p \in ens[w].todo
        BY <2>3, <4>1, CreatedIsCovered
      <4>2. CASE p \notin ens[w].todo
        <5>1. Covered(t, p) /\ ~Overdue(p)
          BY <2>t, <3>1, <4>2, RequiredIsRecent DEF Found
        <5>2. Covered(t, p)'
          BY <3>1, <5>1, StaysCovered
        <5> QED BY <2>t, <5>2, CoveredAfter
      <4> QED BY <4>1, <4>2
    <3> QED BY <3>2, <3>3
  <2> QED BY <2>1, <2>2, <2>3
<1>5. Spec => [][Delivers]_vars
  BY <1>1, <1>2, <1>3, <1>4, TypeCorrect, SteadyInvHolds, PTL DEF Spec
<1> QED BY <1>5 DEF EnsureDelivers

=============================================================================
