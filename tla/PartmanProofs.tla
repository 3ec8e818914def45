--------------------------- MODULE PartmanProofs ---------------------------
(***************************************************************************)
(* Proofs about module Partman, for every value of its constants.          *)
(***************************************************************************)
EXTENDS Partman, FiniteSetTheorems, WellFoundedInduction, TLAPS

-----------------------------------------------------------------------------
(* Facts about the operators *)

\* Every non-empty set of numbers has a least element: PeriodFor finds the
\* earliest of the periods that share a table name.
LEMMA LeastElement ==
    ASSUME NEW S \in SUBSET Nat, S # {}
    PROVE  \E p \in S : \A q \in S : p <= q
<1> DEFINE T == {0 .. p : p \in S}
<1>1. \A p \in S : IsFiniteSet(0 .. p) /\ 0 .. p \in SUBSET Nat
  BY FS_Interval
<1>2. T \subseteq FiniteSubsetsOf(Nat)
  <2> SUFFICES ASSUME NEW p \in S PROVE 0 .. p \in FiniteSubsetsOf(Nat)
    OBVIOUS
  <2> QED BY <1>1 DEF FiniteSubsetsOf
<1>3. T # {}
  <2>1. PICK p \in S : TRUE
    OBVIOUS
  <2>2. 0 .. p \in T
    OBVIOUS
  <2> QED BY <2>2
<1>4. IsWellFoundedOn(StrictSubsetOrdering(Nat), FiniteSubsetsOf(Nat))
  BY FS_StrictSubsetOrderingWellFounded
<1> HIDE DEF T
<1>5. PICK X \in T : \A Y \in T : ~ (<<Y, X>> \in StrictSubsetOrdering(Nat))
  BY <1>2, <1>3, <1>4, WFMin, Zenon
<1>6. PICK p \in S : X = 0 .. p
  BY DEF T
<1>7. ASSUME NEW q \in S, q < p PROVE FALSE
  <2>1. <<0 .. q, 0 .. p>> \in StrictSubsetOrdering(Nat)
    BY <1>7 DEF StrictSubsetOrdering
  <2> QED BY <2>1, <1>5, <1>6 DEF T
<1> QED BY <1>7

\* The bounds createInTx gives a partition are those of a period.
LEMMA PeriodForType ==
    ASSUME NEW e, e.todo \in SUBSET Nat, NEW n
    PROVE  PeriodFor(e, n) \in Nat
<1> DEFINE S == {p \in e.todo : Build(e.tenant, p) = n}
<1>1. CASE n \notin ToName(e)
  BY <1>1 DEF PeriodFor
<1>2. CASE n \in ToName(e)
  <2>1. S \in SUBSET Nat /\ S # {}
    BY <1>2 DEF ToName
  <2>2. PICK p \in S : \A q \in S : p <= q
    <3> HIDE DEF S
    <3> QED BY <2>1, LeastElement
  <2>3. \E r \in e.todo : /\ Build(e.tenant, r) = n
                          /\ \A q \in e.todo : Build(e.tenant, q) = n => r <= q
    BY <2>2
  <2>4. FirstOf(e, n) \in e.todo
    BY <2>3, Zenon DEF FirstOf
  <2> QED BY <1>2, <2>4 DEF PeriodFor
<1> QED BY <1>1, <1>2

-----------------------------------------------------------------------------
(* Type correctness *)

\* Retention marks a row with a status the table knows.
LEMMA MarkType ==
    ASSUME TypeOK, NEW r \in ListedRows, NEW s \in {"detached", "dropped"}
    PROVE  Mark(r, s) \in [Names -> Rows]
BY DEF TypeOK, TypeOKCatalog, ListedRows, Mark, Rows

\* The steps of EnsurePartitions keep the types.
LEMMA ProvisionerTypes ==
    ASSUME TypeOK, NEW w \in Workers,
           \/ EnsureLoad(w) \/ EnsureList(w) \/ EnsureLookupDefault(w)
           \/ CreateInTxFails(w) \/ EnsureFault(w)
           \/ CreateInTx(w, FALSE) \/ CreateInTx(w, TRUE)
    PROVE  TypeOKCatalog' /\ TypeOKProvisioner'
<1>0. TypeOKCatalog /\ TypeOKProvisioner
  BY DEF TypeOK
<1>1. CASE EnsureLoad(w)
  <2>0. parent \in Nat /\ now \in Nat
    BY <1>0, CatalogAssumption DEF TypeOKCatalog
  <2>1. [ens[w] EXCEPT !.step = "list", !.pid = parent, !.at = now] \in EnsureCalls
    BY <1>0, <2>0 DEF TypeOKProvisioner, EnsureCalls
  <2>2. [ens[w] EXCEPT !.step = "err"] \in EnsureCalls
    BY <1>0 DEF TypeOKProvisioner, EnsureCalls
  <2> QED BY <1>0, <1>1, <2>1, <2>2
        DEF EnsureLoad, EnsureGoto, TypeOKCatalog, TypeOKProvisioner, catalogVars
<1>2. CASE EnsureList(w)
  <2> DEFINE todo == Required(ens[w].at) \ ExistingSet(ens[w].pid, ens[w].tenant)
  <2>1. todo \in SUBSET Nat
    BY <1>0, CatalogAssumption DEF Required, TypeOKProvisioner, EnsureCalls
  <2>2. [ens[w] EXCEPT !.step = "default", !.todo = todo] \in EnsureCalls
    <3> HIDE DEF todo
    <3> QED BY <1>0, <2>1 DEF TypeOKProvisioner, EnsureCalls
  <2> QED BY <1>0, <1>2, <2>2 DEF EnsureList, TypeOKCatalog, TypeOKProvisioner, catalogVars
<1>3. CASE EnsureLookupDefault(w)
  <2>1. \A need \in BOOLEAN, s \in {"ok", "create"} :
            [ens[w] EXCEPT !.needDefault = need, !.step = s] \in EnsureCalls
    BY <1>0 DEF TypeOKProvisioner, EnsureCalls
  <2>2. (~DefaultTracked(ens[w].pid)) \in BOOLEAN
    BY DEF DefaultTracked
  <2>3. PICK need \in BOOLEAN, s \in {"ok", "create"} :
            ens' = [ens EXCEPT ![w] = [@ EXCEPT !.needDefault = need, !.step = s]]
    BY <1>3, <2>2 DEF EnsureLookupDefault
  <2>4. ens' \in [Workers -> EnsureCalls]
    BY <1>0, <2>1, <2>3 DEF TypeOKProvisioner
  <2> QED BY <1>0, <1>3, <2>4
        DEF EnsureLookupDefault, TypeOKCatalog, TypeOKProvisioner, catalogVars
<1>4. CASE CreateInTxFails(w) \/ EnsureFault(w)
  BY <1>0, <1>4 DEF CreateInTxFails, EnsureFault, EnsureGoto, EnsureCalls,
                    TypeOKCatalog, TypeOKProvisioner, catalogVars
<1>5. ASSUME NEW lost \in BOOLEAN, CreateInTx(w, lost)
      PROVE  TypeOKCatalog' /\ TypeOKProvisioner'
  <2> DEFINE e == ens[w]
  <2>1. \A n \in Names : PeriodFor(e, n) \in Nat
    <3>1. e.todo \in SUBSET Nat
      BY <1>0 DEF TypeOKProvisioner, EnsureCalls
    <3> HIDE DEF e
    <3> QED BY <3>1, PeriodForType
  <2>2. \A n \in Names : CreateTable(n, PeriodFor(e, n)) \in TablesOf
    BY <1>0, <2>1 DEF CreateTable, TablesOf, TypeOKCatalog
  <2>3. \A n \in Names : UpsertPartition(n, PeriodFor(e, n)) \in Rows
    BY <1>0, <2>1 DEF UpsertPartition, Rows, TypeOKCatalog
  <2>4. tables' \in [Names -> TablesOf] /\ parts' \in [Names -> Rows]
    BY <1>0, <1>5, <2>2, <2>3 DEF CreateInTx, TypeOKCatalog
  <2>5. TypeOKProvisioner'
    BY <1>0, <1>5 DEF CreateInTx, EnsureGoto, EnsureCalls, TypeOKProvisioner
  <2> QED BY <1>0, <1>5, <2>4, <2>5 DEF CreateInTx, TypeOKCatalog
<1> QED BY <1>1, <1>2, <1>3, <1>4, <1>5

\* Proceed leaves a worker in a sweep with rows it was given.
LEMMA ProceedType ==
    ASSUME TypeOK, NEW w \in Workers, NEW rest \in SUBSET ListedRows, Proceed(w, rest)
    PROVE  TypeOKRetention'
<1>1. \A s \in {"ok", "apply"} :
          [swp[w] EXCEPT !.rows = rest, !.step = s] \in SweepCalls
  BY DEF TypeOK, TypeOKRetention, SweepCalls
<1>2. PICK s \in {"ok", "apply"} :
          swp' = [swp EXCEPT ![w] = [@ EXCEPT !.rows = rest, !.step = s]]
  BY DEF Proceed
<1> QED BY <1>1, <1>2 DEF TypeOK, TypeOKRetention

\* A row the queries return.
LEMMA ListedRowType ==
    ASSUME TypeOK, NEW n \in Names
    PROVE  ListedRow(n) \in ListedRows
BY DEF TypeOK, TypeOKCatalog, ListedRow, ListedRows, Rows

\* The steps of Sweep and DropAll keep the types.
LEMMA RetentionTypes ==
    ASSUME TypeOK, NEW w \in Workers,
           \/ RetentionLoad(w) \/ SweepList(w) \/ DropAllList(w) \/ RetentionFault(w)
           \/ \E r \in swp[w].rows, lost \in BOOLEAN :
                \/ \E d \in Hook : ApplyDecision(w, r, d, lost) \/ SkipCandidate(w, r, d)
                \/ DropOne(w, r, lost)
    PROVE  TypeOKCatalog' /\ TypeOKRetention'
<1>0. swp[w].rows \in SUBSET ListedRows
  BY DEF TypeOK, TypeOKRetention, SweepCalls
<1>a. \A r : swp[w].rows \ {r} \in SUBSET ListedRows
  BY <1>0
<1>1. CASE RetentionLoad(w)
  <2>0. parent \in Nat /\ now \in Nat
    BY CatalogAssumption DEF TypeOK, TypeOKCatalog
  <2>1. [swp[w] EXCEPT !.step = "list", !.pid = parent, !.at = now] \in SweepCalls
    BY <2>0 DEF TypeOK, TypeOKRetention, SweepCalls
  <2>2. \A s \in {"err", "ok"} : [swp[w] EXCEPT !.step = s] \in SweepCalls
    BY DEF TypeOK, TypeOKRetention, SweepCalls
  <2>3. \/ swp' = [swp EXCEPT ![w] = [@ EXCEPT !.step = "list", !.pid = parent, !.at = now]]
        \/ \E s \in {"err", "ok"} : swp' = [swp EXCEPT ![w].step = s]
    BY <1>1 DEF RetentionLoad, SweepGoto
  <2> QED BY <1>1, <2>1, <2>2, <2>3
        DEF RetentionLoad, TypeOK, TypeOKCatalog, TypeOKRetention, catalogVars
<1>2. CASE SweepList(w)
  <2>1. {ListedRow(n) : n \in ListExpiredPartitions(swp[w].pid, swp[w].at)} \in SUBSET ListedRows
    BY ListedRowType DEF ListExpiredPartitions
  <2> QED BY <1>2, <2>1, ProceedType DEF SweepList, TypeOK, TypeOKCatalog, catalogVars
<1>3. CASE DropAllList(w)
  <2>1. {ListedRow(n) : n \in ListPartitionsForParent(swp[w].pid)} \in SUBSET ListedRows
    BY ListedRowType DEF ListPartitionsForParent
  <2> QED BY <1>3, <2>1, ProceedType DEF DropAllList, TypeOK, TypeOKCatalog, catalogVars
<1>4. CASE RetentionFault(w)
  <2>1. TypeOKCatalog'
    BY <1>4 DEF RetentionFault, TypeOK, TypeOKCatalog, catalogVars
  <2>2. CASE SweepGoto(w, "err")
    BY <2>1, <2>2 DEF SweepGoto, TypeOK, TypeOKRetention, SweepCalls
  <2>3. CASE \E r \in swp[w].rows : Proceed(w, swp[w].rows \ {r})
    BY <2>1, <2>3, <1>a, ProceedType
  <2> QED BY <1>4, <2>2, <2>3 DEF RetentionFault
<1>5. ASSUME NEW r \in swp[w].rows, NEW lost \in BOOLEAN, NEW d \in Hook,
             ApplyDecision(w, r, d, lost)
      PROVE  TypeOKCatalog' /\ TypeOKRetention'
  <2>1. r \in ListedRows /\ r.name \in Names
    BY <1>0 DEF ListedRows
  <2>2. parts' \in [Names -> Rows]
    BY <1>5, <2>1, MarkType DEF ApplyDecision, StatusFor
  <2>3. tables' \in [Names -> TablesOf]
    BY <1>5, <2>1 DEF ApplyDecision, NoTable, TypeOK, TypeOKCatalog, TablesOf
  <2>4. archive' \subseteq Names
    BY <1>5, <2>1 DEF ApplyDecision, TypeOK, TypeOKCatalog
  <2>5. TypeOKRetention'
    <3>1. CASE UNCHANGED swp
      BY <3>1 DEF TypeOK, TypeOKRetention
    <3> QED BY <1>5, <3>1, <1>a, ProceedType DEF ApplyDecision
  <2> QED BY <1>5, <2>2, <2>3, <2>4, <2>5 DEF ApplyDecision, TypeOK, TypeOKCatalog
<1>6. ASSUME NEW r \in swp[w].rows, NEW d \in Hook, SkipCandidate(w, r, d)
      PROVE  TypeOKCatalog' /\ TypeOKRetention'
  BY <1>6, <1>a, ProceedType DEF SkipCandidate, TypeOK, TypeOKCatalog, catalogVars
<1>7. ASSUME NEW r \in swp[w].rows, NEW lost \in BOOLEAN, DropOne(w, r, lost)
      PROVE  TypeOKCatalog' /\ TypeOKRetention'
  <2>1. r \in ListedRows /\ r.name \in Names
    BY <1>0 DEF ListedRows
  <2>2. parts' \in [Names -> Rows]
    BY <1>7, <2>1, MarkType DEF DropOne
  <2>3. tables' \in [Names -> TablesOf]
    BY <1>7, <2>1 DEF DropOne, NoTable, TypeOK, TypeOKCatalog, TablesOf
  <2>4. TypeOKRetention'
    <3>1. CASE UNCHANGED swp
      BY <3>1 DEF TypeOK, TypeOKRetention
    <3> QED BY <1>7, <3>1, <1>a, ProceedType DEF DropOne
  <2> QED BY <1>7, <2>2, <2>3, <2>4 DEF DropOne, TypeOK, TypeOKCatalog
<1> QED BY <1>1, <1>2, <1>3, <1>4, <1>5, <1>6, <1>7

\* A call in flight, or none, is a value of its type.
LEMMA CallTypes ==
    /\ NoEnsure \in EnsureCalls /\ \A t \in Tenants \cup {NoTenant} : EnsureCall(t) \in EnsureCalls
    /\ NoSweep \in SweepCalls /\ SweepCall \in SweepCalls /\ DropAllCall \in SweepCalls
    /\ Idle \in Jobs
BY DEF NoEnsure, EnsureCall, EnsureCalls, NoSweep, SweepCall, DropAllCall, SweepCalls, Idle, Jobs, Ops

\* The step of a pass to its next tenant or to the sweep.
LEMMA NextTenantTypes ==
    ASSUME TypeOK, NEW w \in Workers, NEW queue \in SUBSET Tenants, NextTenant(w, queue)
    PROVE  TypeOKProvisioner' /\ TypeOKRetention' /\ job' \in [Workers -> Jobs]
<1>0. job[w] \in Jobs
  BY DEF TypeOK
<1>1. CASE \E t \in queue :
              /\ job' = [job EXCEPT ![w] = [@ EXCEPT !.step = "ensure", !.queue = queue \ {t}]]
              /\ CallEnsure(w, t)
              /\ UNCHANGED swp
  <2>1. PICK t \in queue :
              /\ job' = [job EXCEPT ![w] = [@ EXCEPT !.step = "ensure", !.queue = queue \ {t}]]
              /\ CallEnsure(w, t)
              /\ UNCHANGED swp
    BY <1>1
  <2>2. queue \ {t} \in SUBSET Tenants /\ t \in Tenants
    OBVIOUS
  <2>3. [job[w] EXCEPT !.step = "ensure", !.queue = queue \ {t}] \in Jobs
    BY <1>0, <2>2 DEF Jobs
  <2> QED BY <2>1, <2>2, <2>3, CallTypes
        DEF CallEnsure, TypeOK, TypeOKProvisioner, TypeOKRetention
<1>2. CASE /\ Goto(w, "sweep")
           /\ swp' = [swp EXCEPT ![w] = SweepCall]
           /\ ens' = [ens EXCEPT ![w] = NoEnsure]
  <2>1. [job[w] EXCEPT !.step = "sweep"] \in Jobs
    BY <1>0 DEF Jobs
  <2> QED BY <1>2, <2>1, CallTypes DEF Goto, TypeOK, TypeOKProvisioner, TypeOKRetention
<1> QED BY <1>1, <1>2 DEF NextTenant

\* A registration of a tenant names one.
TenantNamed ==
    \A w \in Workers : job[w].op = "registerTenant" => job[w].tenant \in Tenants

\* The Registry's operations keep the types.
LEMMA RegistryTypes ==
    ASSUME TypeOK, TenantNamed, NEW w \in Workers,
           \/ Starts(w) \/ UpsertTenant(w) \/ RemoveTenantRow(w) \/ RegisterReturns(w)
           \/ CascadeReturns(w) \/ RemoveParentRow(w)
    PROVE  TypeOK'
<1> USE DEF TypeOK
<1>0. /\ job[w] \in Jobs
      /\ \A step \in {"ensure", "delete"} : [job[w] EXCEPT !.step = step] \in Jobs
  BY DEF Jobs
<1>1. CASE RegisterParent(w)
  <2>1. [Idle EXCEPT !.op = "registerParent", !.step = "ensure"] \in Jobs
    BY DEF Idle, Jobs, Ops
  <2>2. TypeOKCatalog'
    BY <1>1 DEF RegisterParent, TypeOKCatalog
  <2> QED BY <1>1, <2>1, <2>2, CallTypes
        DEF RegisterParent, Begin, CallEnsure, TypeOKProvisioner, TypeOKRetention
<1>2. CASE \E t \in Tenants : RegisterTenant(w, t) \/ RemoveTenant(w, t)
  <2>1. PICK t \in Tenants, op \in {"registerTenant", "removeTenant"},
             step \in {"upsert", "delete"} : LoadParent(w, op, step, t)
    BY <1>2 DEF RegisterTenant, RemoveTenant
  <2>2. parent \in Nat
    BY DEF TypeOKCatalog
  <2>3. [Idle EXCEPT !.op = op, !.step = step, !.tenant = t, !.pid = parent] \in Jobs
    BY <2>2 DEF Idle, Jobs, Ops
  <2> QED BY <2>1, <2>3
        DEF LoadParent, catalogVars, TypeOKCatalog, TypeOKProvisioner, TypeOKRetention
<1>3. CASE \E cascade \in BOOLEAN : RemoveParent(w, cascade)
  <2>1. /\ [Idle EXCEPT !.op = "removeParent", !.step = "delete"] \in Jobs
        /\ [Idle EXCEPT !.op = "cascadeParent", !.step = "sweep"] \in Jobs
    BY DEF Idle, Jobs, Ops
  <2> QED BY <1>3, <2>1, CallTypes
        DEF RemoveParent, Begin, catalogVars, TypeOKCatalog, TypeOKProvisioner, TypeOKRetention
<1>4. CASE UpsertTenant(w)
  <2>1. job[w].tenant \in Tenants \cup {NoTenant}
    BY <1>0 DEF Jobs
  <2>2. tenants' \subseteq Tenants
    BY <1>4 DEF UpsertTenant, At, TenantNamed, TypeOKCatalog
  <2> QED BY <1>0, <1>4, <2>1, <2>2, CallTypes
        DEF UpsertTenant, Goto, Return, CallEnsure, TypeOKCatalog, TypeOKProvisioner, TypeOKRetention
<1>5. CASE RemoveTenantRow(w)
  <2>1. parts' \in [Names -> Rows] /\ tenants' \subseteq Tenants
    BY <1>5 DEF RemoveTenantRow, DeleteTenant, TypeOKCatalog, NoRow, Rows
  <2> QED BY <1>5, <2>1, CallTypes
        DEF RemoveTenantRow, Return, TypeOKCatalog, TypeOKProvisioner, TypeOKRetention
<1>6. CASE RegisterReturns(w)
  BY <1>6, CallTypes
     DEF RegisterReturns, EnsureReturned, Return, catalogVars, TypeOKCatalog, TypeOKProvisioner, TypeOKRetention
<1>7. CASE CascadeReturns(w)
  BY <1>0, <1>7, CallTypes
     DEF CascadeReturns, RetentionReturned, Goto, Return, catalogVars,
         TypeOKCatalog, TypeOKProvisioner, TypeOKRetention
<1>8. CASE RemoveParentRow(w)
  <2>1. parts' \in [Names -> Rows] /\ tenants' \subseteq Tenants /\ parent' \in 0 .. epoch'
    BY <1>8 DEF RemoveParentRow, DeleteParentTable, TypeOKCatalog, NoRow, Rows
  <2> QED BY <1>8, <2>1, CallTypes
        DEF RemoveParentRow, Return, TypeOKCatalog, TypeOKProvisioner, TypeOKRetention
<1> QED BY <1>1, <1>2, <1>3, <1>4, <1>5, <1>6, <1>7, <1>8 DEF Starts

\* The Maintainer's pass keeps the types.
LEMMA MaintainerTypes ==
    ASSUME TypeOK, NEW w \in Workers,
           \/ Maintain(w) \/ TryLock(w) \/ ListTenants(w) \/ PassContinues(w) \/ PassEnds(w)
           \/ ListTenantsFault(w)
    PROVE  TypeOK'
<1> USE DEF TypeOK
<1>0. /\ job[w] \in Jobs
      /\ \A step \in {"ensure", "tenants"} : [job[w] EXCEPT !.step = step] \in Jobs
  BY DEF Jobs
<1>1. CASE Maintain(w)
  <2>1. [Idle EXCEPT !.op = "maintain", !.step = "lock"] \in Jobs
    BY DEF Idle, Jobs, Ops
  <2> QED BY <1>1, <2>1
        DEF Maintain, Begin, catalogVars, TypeOKCatalog, TypeOKProvisioner, TypeOKRetention
<1>2. CASE TryLock(w)
  BY <1>0, <1>2, CallTypes
     DEF TryLock, Return, Goto, CallEnsure, catalogVars, TypeOKCatalog, TypeOKProvisioner, TypeOKRetention
<1>3. CASE ListTenants(w)
  <2>1. (IF parent = 0 THEN {} ELSE tenants) \in SUBSET Tenants
    BY DEF TypeOKCatalog
  <2> QED BY <1>3, <2>1, NextTenantTypes DEF ListTenants, catalogVars, TypeOKCatalog
<1>4. CASE PassContinues(w)
  <2>1. job[w].queue \in SUBSET Tenants
    BY <1>0 DEF Jobs
  <2> QED BY <1>4, <2>1, NextTenantTypes DEF PassContinues, catalogVars, TypeOKCatalog
<1>5. CASE PassEnds(w)
  BY <1>5, CallTypes
     DEF PassEnds, RetentionReturned, Return, catalogVars, TypeOKCatalog, TypeOKProvisioner, TypeOKRetention
<1>6. CASE ListTenantsFault(w)
  <2>1. {} \in SUBSET Tenants
    OBVIOUS
  <2>2. faults' \in 0 .. MaxFaults
    BY <1>6, PartmanAssumption DEF ListTenantsFault, Fault
  <2> QED BY <1>6, <2>1, <2>2, NextTenantTypes DEF ListTenantsFault, catalogVars, TypeOKCatalog
<1> QED BY <1>1, <1>2, <1>3, <1>4, <1>5, <1>6

\* Every step keeps the types and the names of tenants.
LEMMA TypeStep ==
    ASSUME TypeOK, TenantNamed, [Next]_vars
    PROVE  TypeOK' /\ TenantNamed'
<1>1. TypeOK'
  <2>1. CASE Tick
    BY <2>1, CatalogAssumption DEF Tick, TypeOK, TypeOKCatalog, TypeOKProvisioner, TypeOKRetention
  <2>2. CASE ClientInsert
    <3>1. PICK t \in TenantKeys, p \in StrayPeriods : InsertStray(t, p)
      BY <2>2 DEF ClientInsert
    <3>2. p \in Nat
      BY CatalogAssumption
    <3> QED BY <2>2, <3>1, <3>2
          DEF ClientInsert, InsertStray, TypeOK, TypeOKCatalog, TypeOKProvisioner, TypeOKRetention
  <2>3. ASSUME NEW w \in Workers,
               \/ Starts(w) \/ UpsertTenant(w) \/ RemoveTenantRow(w) \/ RegisterReturns(w)
               \/ CascadeReturns(w) \/ RemoveParentRow(w)
        PROVE  TypeOK'
    BY <2>3, RegistryTypes
  <2>4. ASSUME NEW w \in Workers,
               \/ Maintain(w) \/ TryLock(w) \/ ListTenants(w) \/ PassContinues(w) \/ PassEnds(w)
               \/ ListTenantsFault(w)
        PROVE  TypeOK'
    BY <2>4, MaintainerTypes
  <2>5. ASSUME NEW w \in Workers, ProvisionerStep(w) PROVE TypeOK'
    <3>1. TypeOKCatalog' /\ TypeOKProvisioner'
      BY <2>5, ProvisionerTypes DEF ProvisionerStep
    <3> QED BY <2>5, <3>1 DEF ProvisionerStep, TypeOK, TypeOKRetention
  <2>6. ASSUME NEW w \in Workers, RetentionStep(w) PROVE TypeOK'
    <3>1. TypeOKCatalog' /\ TypeOKRetention'
      BY <2>6, RetentionTypes DEF RetentionStep
    <3> QED BY <2>6, <3>1 DEF RetentionStep, TypeOK, TypeOKProvisioner
  <2>7. ASSUME NEW w \in Workers, ComponentFault(w) PROVE TypeOK'
    <3>1. faults' \in 0 .. MaxFaults
      BY <2>7, PartmanAssumption DEF ComponentFault, Fault, TypeOK
    <3>2. CASE (EnsureFault(w) \/ CreateInTx(w, TRUE)) /\ UNCHANGED swp
      <4>1. TypeOKCatalog' /\ TypeOKProvisioner'
        BY <3>2, ProvisionerTypes
      <4> QED BY <2>7, <3>1, <3>2, <4>1 DEF ComponentFault, TypeOK, TypeOKRetention
    <3>3. CASE /\ \/ RetentionFault(w)
                  \/ \E r \in swp[w].rows :
                       \/ \E d \in Hook : ApplyDecision(w, r, d, TRUE)
                       \/ DropOne(w, r, TRUE)
               /\ UNCHANGED ens
      <4>1. TypeOKCatalog' /\ TypeOKRetention'
        BY <3>3, RetentionTypes
      <4> QED BY <2>7, <3>1, <3>3, <4>1 DEF ComponentFault, TypeOK, TypeOKProvisioner
    <3> QED BY <2>7, <3>2, <3>3 DEF ComponentFault
  <2>8. ASSUME NEW w \in Workers, LockLost(w) \/ Crash(w) PROVE TypeOK'
    <3>1. faults' \in 0 .. MaxFaults
      BY <2>8, PartmanAssumption DEF LockLost, Crash, Fault, TypeOK
    <3> QED BY <2>8, <3>1, CallTypes
          DEF LockLost, Crash, Return, catalogVars,
              TypeOK, TypeOKCatalog, TypeOKProvisioner, TypeOKRetention
  <2>9. CASE UNCHANGED vars
    BY <2>9 DEF vars, catalogVars, TypeOK, TypeOKCatalog, TypeOKProvisioner, TypeOKRetention
  <2> QED BY <2>1, <2>2, <2>3, <2>4, <2>5, <2>6, <2>7, <2>8, <2>9 DEF Next, Proceeds, Workers
<1>2. TenantNamed'
  <2> USE DEF TenantNamed
  <2>0. job \in [Workers -> Jobs]
    BY DEF TypeOK
  <2>1. CASE UNCHANGED job
    BY <2>1
  <2>2. ASSUME NEW w \in Workers, Return(w) PROVE TenantNamed'
    BY <2>0, <2>2 DEF Return, Idle
  <2>3. ASSUME NEW w \in Workers, NEW step, Goto(w, step) PROVE TenantNamed'
    BY <2>0, <2>3 DEF Goto, Jobs
  <2>4. ASSUME NEW w \in Workers, NEW queue, NextTenant(w, queue) PROVE TenantNamed'
    <3>1. CASE \E t \in queue :
                 job' = [job EXCEPT ![w] = [@ EXCEPT !.step = "ensure", !.queue = queue \ {t}]]
      BY <2>0, <3>1 DEF Jobs
    <3> QED BY <2>3, <2>4, <3>1 DEF NextTenant
  <2>5. ASSUME NEW w \in Workers, Starts(w) \/ Maintain(w) PROVE TenantNamed'
    <3>1. ASSUME NEW op, op # "registerTenant", NEW step, Begin(w, op, step)
          PROVE  TenantNamed'
      BY <2>0, <3>1 DEF Begin, Idle
    <3>2. ASSUME NEW op, NEW step, NEW t \in Tenants, LoadParent(w, op, step, t)
          PROVE  TenantNamed'
      BY <2>0, <3>2 DEF LoadParent, Idle
    <3> QED BY <2>1, <2>5, <3>1, <3>2
          DEF Starts, RegisterParent, RegisterTenant, RemoveTenant, RemoveParent, Maintain
  <2>6. ASSUME NEW w \in Workers, Proceeds(w) PROVE TenantNamed'
    BY <2>1, <2>2, <2>3, <2>4, <2>6
       DEF Proceeds, RegisterReturns, UpsertTenant, RemoveTenantRow, CascadeReturns,
           RemoveParentRow, TryLock, ListTenants, PassContinues, PassEnds,
           ProvisionerStep, RetentionStep
  <2>7. ASSUME NEW w \in Workers,
               ComponentFault(w) \/ ListTenantsFault(w) \/ LockLost(w) \/ Crash(w)
        PROVE  TenantNamed'
    BY <2>1, <2>2, <2>4, <2>7 DEF ComponentFault, ListTenantsFault, LockLost, Crash
  <2> QED BY <2>1, <2>5, <2>6, <2>7 DEF Next, Tick, ClientInsert, vars, Workers
<1> QED BY <1>1, <1>2

\* Every state of the library and of the database has its type; in
\* particular Retention writes only statuses the CHECK constraint knows and
\* the transactions keep one row and one table per name.
THEOREM TypeCorrect == Spec => []TypeOK
<1>1. Init => TypeOK /\ TenantNamed
  <2> SUFFICES ASSUME Init PROVE TypeOK /\ TenantNamed
    OBVIOUS
  <2>1. TypeOKCatalog
    BY CatalogAssumption DEF Init, InitCatalog, TypeOKCatalog, NoRow, NoTable, Rows, TablesOf
  <2> QED BY <2>1, CallTypes, PartmanAssumption
        DEF Init, TypeOK, TypeOKProvisioner, TypeOKRetention, TenantNamed, Idle
<1>2. TypeOK /\ TenantNamed /\ [Next]_vars => (TypeOK /\ TenantNamed)'
  BY TypeStep
<1> QED BY <1>1, <1>2, PTL DEF Spec

-----------------------------------------------------------------------------
(* One table name per period: intervals of a day or longer *)

\* With one period per name, a name tells its tenant and its period.
LEMMA NameOfPeriod ==
    ASSUME PeriodsPerName = 1
    PROVE  /\ \A t : \A p \in Nat : Build(t, p) = <<t, p>>
           /\ \A n \in Names : n # DefaultName => n[2] \in Nat
           /\ DefaultName \in Names
<1>1. \A p \in Nat : p \div 1 = p
  OBVIOUS
<1>2. \A t : \A p \in Nat : Build(t, p) = <<t, p>>
  BY <1>1 DEF Build
<1>3. Period \subseteq Nat
  BY CatalogAssumption DEF Period
<1>4. \A n \in Names : n # DefaultName => n[2] \in Nat
  <2> SUFFICES ASSUME NEW t \in TenantKeys, NEW p \in Period
               PROVE  Build(t, p)[2] \in Nat
    BY DEF Names, BoundedNames
  <2> QED BY <1>2, <1>3
<1> QED BY <1>2, <1>4 DEF Names

\* createInTx gives the table its name's period, and never a bounded
\* partition the default's name.
LEMMA CreatedPeriod ==
    ASSUME PeriodsPerName = 1, NEW e, e.todo \in SUBSET Nat, NEW n \in ToName(e)
    PROVE  n # DefaultName /\ n[1] = e.tenant /\ n[2] \in e.todo /\ PeriodFor(e, n) = n[2]
<1>1. PICK p \in e.todo : n = <<e.tenant, p>>
  BY NameOfPeriod DEF ToName
<1>2. \A q \in e.todo : Build(e.tenant, q) = n <=> q = p
  <2> TAKE q \in e.todo
  <2>1. Build(e.tenant, q) = <<e.tenant, q>>
    BY NameOfPeriod
  <2> QED BY <1>1, <2>1
<1>3. FirstOf(e, n) = p
  <2>1. p <= p
    OBVIOUS
  <2> QED BY <1>2, <2>1 DEF FirstOf
<1> QED BY <1>1, <1>3 DEF PeriodFor, DefaultName

\* A row and a table have the period their name says; the default has none.
PeriodOfName ==
    \A n \in Names :
        IF n = DefaultName
          THEN parts[n].period = 0 /\ tables[n].period = 0
          ELSE /\ parts[n].status # "none" => parts[n].period = n[2]
               /\ tables[n].at # "none" => tables[n].period = n[2]

\* What a sweep has listed is past its retention.
SweepRows ==
    \A w \in Workers :
        /\ swp[w].at <= now
        /\ swp[w].mode = "sweep" =>
              \A r \in swp[w].rows : r.name # DefaultName /\ Overdue(r.name[2])

\* The steps that write the metadata or the tables.
LEMMA CatalogSteps ==
    ASSUME [Next]_vars
    PROVE  \/ UNCHANGED <<epoch, parent, tenants, parts, tables>>
           \/ \E w \in Workers : \/ RegisterParent(w) \/ UpsertTenant(w)
                                \/ RemoveTenantRow(w) \/ RemoveParentRow(w)
           \/ \E w \in Workers, lost \in BOOLEAN : CreateInTx(w, lost)
           \/ \E w \in Workers, lost \in BOOLEAN : \E r \in swp[w].rows :
                 \/ \E d \in Hook : ApplyDecision(w, r, d, lost)
                 \/ DropOne(w, r, lost)
<1> DEFINE Same == UNCHANGED <<epoch, parent, tenants, parts, tables>>
<1>1. CASE Tick \/ ClientInsert \/ UNCHANGED vars
  BY <1>1 DEF Tick, ClientInsert, InsertStray, vars, catalogVars
<1>2. ASSUME NEW w \in Workers, Starts(w) \/ Maintain(w) PROVE Same \/ RegisterParent(w)
  BY <1>2 DEF Starts, RegisterTenant, RemoveTenant, LoadParent, RemoveParent, Maintain, catalogVars
<1>3. ASSUME NEW w \in Workers, ListTenantsFault(w) \/ LockLost(w) \/ Crash(w) PROVE Same
  BY <1>3 DEF ListTenantsFault, LockLost, Crash, catalogVars
<1>4. ASSUME NEW w \in Workers,
             \/ RegisterReturns(w) \/ CascadeReturns(w) \/ TryLock(w)
             \/ ListTenants(w) \/ PassContinues(w) \/ PassEnds(w)
      PROVE  Same
  BY <1>4 DEF RegisterReturns, CascadeReturns, TryLock, ListTenants, PassContinues, PassEnds,
              catalogVars
<1>5. ASSUME NEW w \in Workers, ProvisionerStep(w) PROVE Same \/ CreateInTx(w, FALSE)
  BY <1>5 DEF ProvisionerStep, EnsureLoad, EnsureList, EnsureLookupDefault, CreateInTxFails, catalogVars
<1>6. ASSUME NEW w \in Workers, RetentionStep(w)
      PROVE  \/ Same
             \/ \E r \in swp[w].rows : \/ \E d \in Hook : ApplyDecision(w, r, d, FALSE)
                                       \/ DropOne(w, r, FALSE)
  BY <1>6 DEF RetentionStep, RetentionLoad, SweepList, DropAllList, SkipCandidate, catalogVars
<1>7. ASSUME NEW w \in Workers, ComponentFault(w)
      PROVE  \/ Same
             \/ CreateInTx(w, TRUE)
             \/ \E r \in swp[w].rows : \/ \E d \in Hook : ApplyDecision(w, r, d, TRUE)
                                       \/ DropOne(w, r, TRUE)
  BY <1>7 DEF ComponentFault, EnsureFault, RetentionFault, catalogVars
<1> HIDE DEF Same
<1>8. Same => UNCHANGED <<epoch, parent, tenants, parts, tables>>
  BY DEF Same
<1> QED BY <1>1, <1>2, <1>3, <1>4, <1>5, <1>6, <1>7, <1>8, Zenon DEF Next, Proceeds, Workers

\* The same, for proofs that only look at rows and tables.
LEMMA Writers ==
    ASSUME [Next]_vars
    PROVE  \/ UNCHANGED <<parts, tables>>
           \/ \E w \in Workers, lost \in BOOLEAN : CreateInTx(w, lost)
           \/ \E w \in Workers, lost \in BOOLEAN : \E r \in swp[w].rows :
                 \/ \E d \in Hook : ApplyDecision(w, r, d, lost)
                 \/ DropOne(w, r, lost)
           \/ /\ UNCHANGED tables
              /\ \E gone \in SUBSET Names :
                    parts' = [n \in Names |-> IF n \in gone THEN NoRow ELSE parts[n]]
<1>1. ASSUME NEW w \in Workers, RegisterParent(w) \/ UpsertTenant(w)
      PROVE  UNCHANGED <<parts, tables>>
  BY <1>1 DEF RegisterParent, UpsertTenant
<1>2. ASSUME NEW w \in Workers, RemoveParentRow(w)
      PROVE  /\ UNCHANGED tables
             /\ \E gone \in SUBSET Names :
                   parts' = [n \in Names |-> IF n \in gone THEN NoRow ELSE parts[n]]
  <2>1. parts' = [n \in Names |-> IF n \in Names THEN NoRow ELSE parts[n]]
    BY <1>2 DEF RemoveParentRow, DeleteParentTable
  <2> QED BY <1>2, <2>1 DEF RemoveParentRow
<1>3. ASSUME NEW w \in Workers, RemoveTenantRow(w)
      PROVE  /\ UNCHANGED tables
             /\ \/ UNCHANGED parts
                \/ \E gone \in SUBSET Names :
                      parts' = [n \in Names |-> IF n \in gone THEN NoRow ELSE parts[n]]
  <2> DEFINE gone == {n \in Names : n[1] = job[w].tenant}
  <2>1. gone \in SUBSET Names
    OBVIOUS
  <2>2. \/ UNCHANGED parts
        \/ parts' = [n \in Names |-> IF n \in gone THEN NoRow ELSE parts[n]]
    BY <1>3 DEF RemoveTenantRow, DeleteTenant
  <2> HIDE DEF gone
  <2> QED BY <1>3, <2>1, <2>2 DEF RemoveTenantRow
<1>4. CASE UNCHANGED <<epoch, parent, tenants, parts, tables>>
  BY <1>4
<1> QED BY <1>1, <1>2, <1>3, <1>4, CatalogSteps, Zenon

\* How a step may change the clock and the sweep of a worker.
LEMMA Sweepers ==
    ASSUME TypeOK, [Next]_vars, NEW w \in Workers
    PROVE  \/ swp'[w] = swp[w] /\ (now' = now \/ now' = now + 1)
           \/ /\ now' = now
              /\ \/ swp'[w] \in {NoSweep, SweepCall} \/ (AllowCascade /\ swp'[w] = DropAllCall)
                 \/ \E s \in {"ok", "err"} : swp'[w] = [swp[w] EXCEPT !.step = s]
                 \/ swp'[w] = [swp[w] EXCEPT !.step = "list", !.pid = parent, !.at = now]
                 \/ \E r \in swp[w].rows : Proceed(w, swp[w].rows \ {r})
                 \/ SweepList(w) \/ DropAllList(w)
<1>0. swp \in [Workers -> SweepCalls]
  BY DEF TypeOK, TypeOKRetention
<1>1. CASE Tick \/ ClientInsert \/ UNCHANGED vars
  BY <1>1 DEF Tick, ClientInsert, InsertStray, vars, catalogVars
<1>2. ASSUME NEW v \in Workers, Starts(v) \/ Maintain(v)
      PROVE  now' = now /\ (swp'[w] = swp[w] \/ (AllowCascade /\ swp'[w] = DropAllCall))
  <2>1. ASSUME NEW cascade \in BOOLEAN, RemoveParent(v, cascade)
        PROVE  now' = now /\ (swp'[w] = swp[w] \/ (AllowCascade /\ swp'[w] = DropAllCall))
    <3>1. UNCHANGED swp \/ (AllowCascade /\ swp' = [swp EXCEPT ![v] = DropAllCall])
      BY <2>1, Zenon DEF RemoveParent
    <3>2. swp' = [swp EXCEPT ![v] = DropAllCall] => swp'[w] \in {swp[w], DropAllCall}
      BY <1>0
    <3>3. now' = now
      BY <2>1 DEF RemoveParent, catalogVars
    <3> QED BY <3>1, <3>2, <3>3, Zenon
  <2>2. CASE ~ \E cascade \in BOOLEAN : RemoveParent(v, cascade)
    <3>1. \/ RegisterParent(v) \/ Maintain(v)
          \/ \E t \in Tenants : RegisterTenant(v, t) \/ RemoveTenant(v, t)
      BY <1>2, <2>2, Zenon DEF Starts
    <3>2. now' = now /\ swp' = swp
      BY <3>1 DEF RegisterParent, RegisterTenant, RemoveTenant, LoadParent, Maintain, catalogVars
    <3> QED BY <3>2, Zenon
  <2> QED BY <2>1, <2>2, Zenon
<1>3. ASSUME NEW v \in Workers, NEW queue, NextTenant(v, queue)
      PROVE  swp'[w] = swp[w] \/ swp'[w] = SweepCall
  BY <1>0, <1>3 DEF NextTenant
<1>4. ASSUME NEW v \in Workers, ListTenantsFault(v) \/ LockLost(v) \/ Crash(v)
      PROVE  now' = now /\ (swp'[w] = swp[w] \/ swp'[w] \in {NoSweep, SweepCall})
  BY <1>0, <1>3, <1>4 DEF ListTenantsFault, LockLost, Crash, catalogVars
<1>5. ASSUME NEW v \in Workers,
             \/ RegisterReturns(v) \/ UpsertTenant(v) \/ RemoveTenantRow(v)
             \/ CascadeReturns(v) \/ RemoveParentRow(v)
             \/ TryLock(v) \/ ListTenants(v) \/ PassContinues(v) \/ PassEnds(v)
             \/ ProvisionerStep(v)
      PROVE  now' = now /\ (swp'[w] = swp[w] \/ swp'[w] \in {NoSweep, SweepCall})
  <2>1. CASE RegisterReturns(v) \/ UpsertTenant(v) \/ RemoveTenantRow(v) \/ RemoveParentRow(v)
             \/ TryLock(v)
    BY <2>1 DEF RegisterReturns, UpsertTenant, RemoveTenantRow, RemoveParentRow, TryLock, catalogVars
  <2>2. CASE CascadeReturns(v) \/ PassEnds(v)
    BY <1>0, <2>2 DEF CascadeReturns, PassEnds, RetentionReturned, catalogVars
  <2>3. CASE ListTenants(v) \/ PassContinues(v)
    BY <1>3, <2>3 DEF ListTenants, PassContinues, catalogVars
  <2>4. CASE ProvisionerStep(v)
    BY <2>4 DEF ProvisionerStep, EnsureLoad, EnsureList, EnsureLookupDefault, CreateInTx,
                CreateInTxFails, catalogVars
  <2> QED BY <1>5, <2>1, <2>2, <2>3, <2>4
<1>6. ASSUME NEW v \in Workers, RetentionStep(v) \/ ComponentFault(v), v # w
      PROVE  now' = now /\ swp'[w] = swp[w]
  BY <1>0, <1>6
     DEF RetentionStep, ComponentFault, RetentionLoad, SweepList, DropAllList, ApplyDecision,
         SkipCandidate, DropOne, RetentionFault, EnsureFault, CreateInTx, SweepGoto, Proceed, catalogVars
<1>7. ASSUME RetentionLoad(w)
      PROVE  /\ now' = now
             /\ \/ \E s \in {"ok", "err"} : swp'[w] = [swp[w] EXCEPT !.step = s]
                \/ swp'[w] = [swp[w] EXCEPT !.step = "list", !.pid = parent, !.at = now]
  BY <1>0, <1>7 DEF RetentionLoad, SweepGoto, catalogVars
<1>8. ASSUME SweepList(w) \/ DropAllList(w) PROVE now' = now
  BY <1>8 DEF SweepList, DropAllList, catalogVars
<1>9. ASSUME NEW r \in swp[w].rows, NEW lost \in BOOLEAN,
             \/ \E d \in Hook : ApplyDecision(w, r, d, lost) \/ SkipCandidate(w, r, d)
             \/ DropOne(w, r, lost)
      PROVE  now' = now /\ (swp'[w] = swp[w] \/ Proceed(w, swp[w].rows \ {r}))
  BY <1>9 DEF ApplyDecision, SkipCandidate, DropOne, catalogVars
<1>10. ASSUME RetentionFault(w)
       PROVE  /\ now' = now
              /\ \/ \E s \in {"ok", "err"} : swp'[w] = [swp[w] EXCEPT !.step = s]
                 \/ \E r \in swp[w].rows : Proceed(w, swp[w].rows \ {r})
  BY <1>0, <1>10 DEF RetentionFault, SweepGoto, catalogVars
<1>11. ASSUME EnsureFault(w) \/ CreateInTx(w, TRUE), UNCHANGED swp
       PROVE  now' = now /\ swp'[w] = swp[w]
  BY <1>11 DEF EnsureFault, CreateInTx, catalogVars
<1>12. CASE RetentionStep(w)
  BY <1>7, <1>8, <1>9, <1>12, Zenon DEF RetentionStep
<1>13. CASE ComponentFault(w)
  BY <1>9, <1>10, <1>11, <1>13, Zenon DEF ComponentFault
<1>14. CASE \E v \in Workers : RetentionStep(v) \/ ComponentFault(v)
  BY <1>6, <1>12, <1>13, <1>14
<1>15. CASE \E v \in Workers :
              \/ Starts(v) \/ Maintain(v) \/ ListTenantsFault(v) \/ LockLost(v) \/ Crash(v)
              \/ RegisterReturns(v) \/ UpsertTenant(v) \/ RemoveTenantRow(v)
              \/ CascadeReturns(v) \/ RemoveParentRow(v)
              \/ TryLock(v) \/ ListTenants(v) \/ PassContinues(v) \/ PassEnds(v)
              \/ ProvisionerStep(v)
  BY <1>2, <1>4, <1>5, <1>15, Zenon
<1> QED BY <1>1, <1>14, <1>15, Zenon DEF Next, Proceeds, Workers

\* A step leaves names with their periods.
LEMMA PeriodOfNameStep ==
    ASSUME PeriodsPerName = 1, TypeOK, PeriodOfName, [Next]_vars
    PROVE  PeriodOfName'
<1> SUFFICES ASSUME NEW n \in Names
             PROVE  IF n = DefaultName
                      THEN parts'[n].period = 0 /\ tables'[n].period = 0
                      ELSE /\ parts'[n].status # "none" => parts'[n].period = n[2]
                           /\ tables'[n].at # "none" => tables'[n].period = n[2]
  BY DEF PeriodOfName
<1>0. parts \in [Names -> Rows] /\ tables \in [Names -> TablesOf]
  BY DEF TypeOK, TypeOKCatalog
<1> USE DEF PeriodOfName
<1>1. CASE UNCHANGED <<parts, tables>>
  BY <1>1
<1>2. ASSUME NEW w \in Workers, NEW lost \in BOOLEAN, CreateInTx(w, lost)
      PROVE  IF n = DefaultName
               THEN parts'[n].period = 0 /\ tables'[n].period = 0
               ELSE /\ parts'[n].status # "none" => parts'[n].period = n[2]
                    /\ tables'[n].at # "none" => tables'[n].period = n[2]
  <2> DEFINE e == ens[w]  p == PeriodFor(e, n)
  <2>1. e.todo \in SUBSET Nat
    BY DEF TypeOK, TypeOKProvisioner, EnsureCalls
  <2>2. /\ tables'[n] = IF n \in Created(e) THEN CreateTable(n, p) ELSE tables[n]
        /\ parts'[n] = IF n \in Created(e) THEN UpsertPartition(n, p) ELSE parts[n]
    BY <1>2 DEF CreateInTx
  <2>3. n \in Created(e) => p = IF n = DefaultName THEN 0 ELSE n[2]
    <3>1. CASE n \in ToName(e)
      <4> HIDE DEF e
      <4> QED BY <2>1, <3>1, CreatedPeriod
    <3>2. CASE n \notin ToName(e)
      BY <3>2 DEF Created, PeriodFor
    <3> QED BY <3>1, <3>2
  <2> HIDE DEF e, p
  <2> QED BY <1>0, <2>2, <2>3 DEF CreateTable, UpsertPartition
<1>3. ASSUME NEW w \in Workers, NEW lost \in BOOLEAN, NEW r \in swp[w].rows,
             \/ \E d \in Hook : ApplyDecision(w, r, d, lost)
             \/ DropOne(w, r, lost)
      PROVE  IF n = DefaultName
               THEN parts'[n].period = 0 /\ tables'[n].period = 0
               ELSE /\ parts'[n].status # "none" => parts'[n].period = n[2]
                    /\ tables'[n].at # "none" => tables'[n].period = n[2]
  <2>0. r.name \in Names
    BY DEF TypeOK, TypeOKRetention, SweepCalls, ListedRows
  <2>1. PICK s \in {"detached", "dropped"} : parts' = Mark(r, s)
    BY <1>3 DEF ApplyDecision, DropOne, StatusFor
  <2>2. /\ parts'[n].period = parts[n].period
        /\ parts'[n].status # "none" => parts[n].status # "none"
    BY <1>0, <2>0, <2>1 DEF Mark, Rows
  <2>3. \/ tables'[n] = tables[n]
        \/ tables'[n] = NoTable
        \/ tables[n].at # "none" /\ tables'[n].period = tables[n].period
    BY <1>0, <1>3, <2>0 DEF ApplyDecision, DecisionApplies, DropOne, Attached, TablesOf
  <2> QED BY <2>2, <2>3 DEF NoTable
<1>4. ASSUME UNCHANGED tables, NEW gone \in SUBSET Names,
             parts' = [m \in Names |-> IF m \in gone THEN NoRow ELSE parts[m]]
      PROVE  IF n = DefaultName
               THEN parts'[n].period = 0 /\ tables'[n].period = 0
               ELSE /\ parts'[n].status # "none" => parts'[n].period = n[2]
                    /\ tables'[n].at # "none" => tables'[n].period = n[2]
  BY <1>4 DEF NoRow
<1> QED BY <1>1, <1>2, <1>3, <1>4, Writers

\* A step leaves the lists of the sweeps overdue.
LEMMA SweepRowsStep ==
    ASSUME PeriodsPerName = 1, TypeOK, PeriodOfName, SweepRows, [Next]_vars
    PROVE  SweepRows'
<1> SUFFICES ASSUME NEW w \in Workers
             PROVE  /\ swp'[w].at <= now'
                    /\ swp'[w].mode = "sweep" =>
                         \A r \in swp'[w].rows : r.name # DefaultName /\ Overdue(r.name[2])'
  BY DEF SweepRows
<1> DEFINE Fine(s) == /\ s.at <= now
                      /\ s.mode = "sweep" =>
                            \A r \in s.rows : r.name # DefaultName /\ Overdue(r.name[2])
<1>0. /\ swp[w] \in SweepCalls /\ swp \in [Workers -> SweepCalls]
      /\ now \in Nat /\ parent \in Nat /\ Retention \in Nat
  BY CatalogAssumption DEF TypeOK, TypeOKRetention, TypeOKCatalog
<1>1. Fine(swp[w])
  BY DEF SweepRows
<1>2. CASE swp'[w] = swp[w] /\ (now' = now \/ now' = now + 1)
  <2>1. ASSUME NEW r \in swp[w].rows, r.name # DefaultName, Overdue(r.name[2])
        PROVE  Overdue(r.name[2])'
    <3>1. r.name[2] \in Nat
      BY <1>0, <2>1, NameOfPeriod DEF SweepCalls, ListedRows
    <3> QED BY <1>0, <1>2, <2>1, <3>1 DEF Overdue
  <2>2. swp'[w].at <= now'
    BY <1>0, <1>1, <1>2 DEF SweepCalls
  <2> QED BY <1>1, <1>2, <2>1, <2>2
<1>3. ASSUME now' = now, Fine(swp'[w])
      PROVE  /\ swp'[w].at <= now'
             /\ swp'[w].mode = "sweep" =>
                  \A r \in swp'[w].rows : r.name # DefaultName /\ Overdue(r.name[2])'
  BY <1>3 DEF Overdue
<1>4. ASSUME \/ swp'[w] \in {NoSweep, SweepCall} \/ swp'[w] = DropAllCall
             \/ \E s \in {"ok", "err"} : swp'[w] = [swp[w] EXCEPT !.step = s]
      PROVE  Fine(swp'[w])
  <2>1. Fine(NoSweep) /\ Fine(SweepCall) /\ Fine(DropAllCall)
    BY <1>0 DEF NoSweep, SweepCall, DropAllCall
  <2>2. \A s \in {"ok", "err"} : Fine([swp[w] EXCEPT !.step = s])
    BY <1>0, <1>1 DEF SweepCalls
  <2> HIDE DEF Fine
  <2> QED BY <1>4, <2>1, <2>2
<1>5. ASSUME swp'[w] = [swp[w] EXCEPT !.step = "list", !.pid = parent, !.at = now]
      PROVE  Fine(swp'[w])
  BY <1>0, <1>1, <1>5 DEF SweepCalls
<1>6. ASSUME NEW rest \in SUBSET ListedRows, Proceed(w, rest)
      PROVE  /\ swp'[w].rows = rest /\ swp'[w].mode = swp[w].mode
             /\ swp'[w].at = swp[w].at
  BY <1>0, <1>6 DEF Proceed, SweepCalls
<1>7. ASSUME NEW r \in swp[w].rows, Proceed(w, swp[w].rows \ {r})
      PROVE  Fine(swp'[w])
  <2>1. swp[w].rows \ {r} \in SUBSET ListedRows
    BY <1>0 DEF SweepCalls
  <2> QED BY <1>1, <1>6, <1>7, <2>1
<1>8. ASSUME SweepList(w) PROVE Fine(swp'[w])
  <2> DEFINE listed == {ListedRow(n) : n \in ListExpiredPartitions(swp[w].pid, swp[w].at)}
  <2>1. listed \in SUBSET ListedRows
    BY ListedRowType DEF ListExpiredPartitions
  <2>2. ASSUME NEW n \in ListExpiredPartitions(swp[w].pid, swp[w].at)
        PROVE  ListedRow(n).name = n /\ n # DefaultName /\ Overdue(n[2])
    <3>1. n \in Names /\ n # DefaultName /\ parts[n].status = "active"
          /\ Expired(parts[n].period, swp[w].at)
      BY <2>2 DEF ListExpiredPartitions
    <3>2. parts[n].period = n[2] /\ n[2] \in Nat
      BY <3>1, NameOfPeriod DEF PeriodOfName
    <3>3. swp[w].at \in Nat
      BY <1>0 DEF SweepCalls
    <3> QED BY <1>0, <1>1, <3>1, <3>2, <3>3 DEF Expired, Overdue, ListedRow
  <2>3. Proceed(w, listed)
    BY <1>8 DEF SweepList
  <2>4. \A r \in listed : r.name # DefaultName /\ Overdue(r.name[2])
    BY <2>2
  <2> HIDE DEF listed
  <2> QED BY <1>1, <1>6, <2>1, <2>3, <2>4
<1>9. ASSUME DropAllList(w) PROVE Fine(swp'[w])
  <2> DEFINE listed == {ListedRow(n) : n \in ListPartitionsForParent(swp[w].pid)}
  <2>1. listed \in SUBSET ListedRows
    BY ListedRowType DEF ListPartitionsForParent
  <2>2. Proceed(w, listed) /\ swp[w].mode = "dropAll"
    BY <1>9 DEF DropAllList
  <2> HIDE DEF listed
  <2> QED BY <1>1, <1>6, <2>1, <2>2
<1> HIDE DEF Fine
<1> QED BY <1>2, <1>3, <1>4, <1>5, <1>7, <1>8, <1>9, Sweepers

\* What a sweep takes from the parent is past its retention.
LEMMA SparesStep ==
    ASSUME TypeOK, PeriodOfName, SweepRows, [Next]_vars,
           \A w \in Workers : swp[w].mode # "dropAll", NEW n \in Names, Takes(n)
    PROVE  n # DefaultName /\ Overdue(tables[n].period)
<1>0. tables \in [Names -> TablesOf]
  BY DEF TypeOK, TypeOKCatalog
<1>1. ~UNCHANGED tables
  BY DEF Takes, Attached
<1>2. ASSUME NEW w \in Workers, NEW lost \in BOOLEAN, CreateInTx(w, lost) PROVE FALSE
  BY <1>2 DEF CreateInTx, CreateTable, Takes, Attached
<1>3. PICK w \in Workers : \E lost \in BOOLEAN, r \in swp[w].rows, d \in Hook :
         ApplyDecision(w, r, d, lost)
  BY <1>1, <1>2, Writers DEF DropOne
<1>4. PICK lost \in BOOLEAN, r \in swp[w].rows, d \in Hook : ApplyDecision(w, r, d, lost)
  BY <1>3
<1>5. swp[w].mode = "sweep" /\ r.name \in Names /\ r.name = n
  BY <1>0, <1>4 DEF ApplyDecision, Takes, Attached, TypeOK, TypeOKRetention, SweepCalls, ListedRows
<1>6. tables[n].at # "none"
  BY DEF Takes, Attached
<1> QED BY <1>5, <1>6 DEF PeriodOfName, SweepRows

\* Retention.Sweep spares what is live: for every set of workers and every
\* retention, with intervals of a day or longer, a child leaves the parent
\* only when its range ended a whole retention period ago, unless a
\* cascading RemoveParent is at work.
THEOREM SweepIsSafe == PeriodsPerName = 1 => (Spec => SweepSparesLive)
<1> SUFFICES ASSUME PeriodsPerName = 1 PROVE Spec => SweepSparesLive
  OBVIOUS
<1> DEFINE Inv == PeriodOfName /\ SweepRows
           Spares == (\A w \in Workers : swp[w].mode # "dropAll") =>
                       \A n \in Names : Takes(n) => n # DefaultName /\ Overdue(tables[n].period)
<1>1. Init => Inv
  BY CatalogAssumption
     DEF Init, InitCatalog, PeriodOfName, SweepRows, NoRow, NoTable, NoSweep
<1>2. TypeOK /\ Inv /\ [Next]_vars => Inv'
  BY PeriodOfNameStep, SweepRowsStep
<1>3. TypeOK /\ Inv /\ [Next]_vars => Spares
  BY SparesStep
<1>4. Spec => [][Spares]_vars
  BY <1>1, <1>2, <1>3, TypeCorrect, PTL DEF Spec
<1> QED BY <1>4 DEF SweepSparesLive

-----------------------------------------------------------------------------
(* The metadata agrees with the tables *)

\* What the agreement needs: no cascading removal, intervals of a day or
\* longer, and no call of EnsurePartitions that outlives the retention.
Steady == ~AllowCascade /\ PeriodsPerName = 1 /\ MaxStall <= Retention

\* What has left the parent, as a table or as a row, is past its retention.
OutIsOverdue ==
    \A n \in Names :
        tables[n].at = "standalone" \/ parts[n].status \in {"detached", "dropped"} =>
            n # DefaultName /\ Overdue(n[2])

\* A call of EnsurePartitions works on periods that are not past theirs.
EnsureRecent ==
    \A w \in Workers :
        /\ EnsureInFlight(w) => ens[w].at <= now /\ now <= ens[w].at + MaxStall
        /\ ens[w].step \in {"default", "create"} => \A p \in ens[w].todo : ens[w].at <= p

\* No DropAll, and a listed row that is still active is the row listed.
SweepIds ==
    \A w \in Workers :
        /\ swp[w].mode # "dropAll"
        /\ swp[w].mode = "sweep" =>
              \A r \in swp[w].rows : parts[r.name].status = "active" => parts[r.name].id = r.id

\* The inductive invariant behind MetadataAgrees.
SteadyInv ==
    PeriodOfName /\ SweepRows /\ OutIsOverdue /\ EnsureRecent /\ SweepIds /\ MetadataAgrees

\* The steps that take an EnsurePartitions call on: the clock stands still,
\* and the call starts, fails, is given up or is left alone by the others.
LEMMA EnsureMoves ==
    ASSUME TypeOK, [Next]_vars, NEW w \in Workers
    PROVE  \/ Tick \/ ClientInsert \/ UNCHANGED vars
           \/ now' = now /\ (ens'[w] = ens[w] \/ ens'[w].step \in {"none", "load", "err"})
           \/ EnsureLoad(w) \/ EnsureList(w) \/ EnsureLookupDefault(w) \/ CreateInTx(w, FALSE)
<1>0. ens \in [Workers -> EnsureCalls] /\ ens[w] \in EnsureCalls
  BY DEF TypeOK, TypeOKProvisioner
<1> DEFINE Quiet == ens'[w] = ens[w] \/ ens'[w].step \in {"none", "load", "err"}
<1>2. ASSUME NEW v \in Workers, NEW t, CallEnsure(v, t) PROVE Quiet
  BY <1>0, <1>2 DEF CallEnsure, EnsureCall, NoEnsure
<1>3. ASSUME NEW v \in Workers, ens' = [ens EXCEPT ![v] = NoEnsure] PROVE Quiet
  BY <1>0, <1>3 DEF NoEnsure
<1>4. ASSUME NEW v \in Workers, EnsureGoto(v, "err") PROVE Quiet
  BY <1>0, <1>4 DEF EnsureGoto, EnsureCalls
<1>5. ASSUME UNCHANGED ens PROVE Quiet
  BY <1>5
<1>6. ASSUME NEW v \in Workers, NEW queue, NextTenant(v, queue) PROVE Quiet
  BY <1>2, <1>3, <1>6 DEF NextTenant
<1> HIDE DEF Quiet
<1>7. ASSUME NEW v \in Workers, Starts(v) \/ Maintain(v) PROVE now' = now /\ Quiet
  <2>1. now' = now
    BY <1>7 DEF Starts, RegisterParent, RegisterTenant, RemoveTenant, LoadParent, RemoveParent,
                Maintain, catalogVars
  <2>2. UNCHANGED ens \/ CallEnsure(v, NoTenant)
    BY <1>7 DEF Starts, RegisterParent, RegisterTenant, RemoveTenant, LoadParent, RemoveParent,
                Maintain
  <2> QED BY <1>2, <1>5, <2>1, <2>2
<1>8. ASSUME NEW v \in Workers, ListTenantsFault(v) \/ LockLost(v) \/ Crash(v)
      PROVE  now' = now /\ Quiet
  BY <1>3, <1>5, <1>6, <1>8 DEF ListTenantsFault, LockLost, Crash, catalogVars
<1>9. ASSUME NEW v \in Workers,
             \/ RegisterReturns(v) \/ UpsertTenant(v) \/ RemoveTenantRow(v)
             \/ CascadeReturns(v) \/ RemoveParentRow(v)
             \/ TryLock(v) \/ ListTenants(v) \/ PassContinues(v) \/ PassEnds(v)
      PROVE  now' = now /\ Quiet
  <2>1. CASE RegisterReturns(v)
    BY <1>3, <2>1 DEF RegisterReturns, EnsureReturned, catalogVars
  <2>2. CASE UpsertTenant(v) \/ TryLock(v)
    BY <1>2, <1>5, <2>2 DEF UpsertTenant, TryLock, catalogVars
  <2>3. CASE RemoveTenantRow(v) \/ CascadeReturns(v) \/ RemoveParentRow(v) \/ PassEnds(v)
    BY <1>5, <2>3 DEF RemoveTenantRow, CascadeReturns, RemoveParentRow, PassEnds, catalogVars
  <2>4. CASE ListTenants(v) \/ PassContinues(v)
    BY <1>6, <2>4 DEF ListTenants, PassContinues, catalogVars
  <2> QED BY <1>9, <2>1, <2>2, <2>3, <2>4
<1>10. ASSUME NEW v \in Workers, RetentionStep(v) PROVE now' = now /\ Quiet
  BY <1>5, <1>10 DEF RetentionStep, RetentionLoad, SweepList, DropAllList, ApplyDecision,
                     SkipCandidate, DropOne, catalogVars
<1>11. ASSUME NEW v \in Workers, ComponentFault(v) PROVE now' = now /\ Quiet
  BY <1>4, <1>5, <1>11 DEF ComponentFault, EnsureFault, CreateInTx, RetentionFault, ApplyDecision,
                           DropOne, catalogVars
<1>12. ASSUME NEW v \in Workers, CreateInTxFails(v) PROVE now' = now /\ Quiet
  BY <1>4, <1>12 DEF CreateInTxFails, catalogVars
<1>13. ASSUME NEW v \in Workers, v # w,
              EnsureLoad(v) \/ EnsureList(v) \/ EnsureLookupDefault(v) \/ CreateInTx(v, FALSE)
       PROVE  now' = now /\ Quiet
  BY <1>0, <1>13
     DEF EnsureLoad, EnsureList, EnsureLookupDefault, CreateInTx, EnsureGoto, catalogVars, Quiet
<1>14. ASSUME NEW v \in Workers, ProvisionerStep(v)
       PROVE  \/ now' = now /\ Quiet
              \/ EnsureLoad(w) \/ EnsureList(w) \/ EnsureLookupDefault(w) \/ CreateInTx(w, FALSE)
  BY <1>12, <1>13, <1>14 DEF ProvisionerStep
<1>15. \/ Tick \/ ClientInsert \/ UNCHANGED vars
       \/ \E v \in Workers :
            \/ Starts(v) \/ Maintain(v) \/ ListTenantsFault(v) \/ LockLost(v) \/ Crash(v)
            \/ RegisterReturns(v) \/ UpsertTenant(v) \/ RemoveTenantRow(v)
            \/ CascadeReturns(v) \/ RemoveParentRow(v)
            \/ TryLock(v) \/ ListTenants(v) \/ PassContinues(v) \/ PassEnds(v)
            \/ RetentionStep(v) \/ ComponentFault(v) \/ ProvisionerStep(v)
  BY Zenon DEF Next, Proceeds, Workers
<1>16. \/ Tick \/ ClientInsert \/ UNCHANGED vars
       \/ now' = now /\ Quiet
       \/ EnsureLoad(w) \/ EnsureList(w) \/ EnsureLookupDefault(w) \/ CreateInTx(w, FALSE)
  BY <1>7, <1>8, <1>9, <1>10, <1>11, <1>14, <1>15, Zenon
<1> QED BY <1>16 DEF Quiet

\* How a step may change the clock and the EnsurePartitions call of a worker.
LEMMA Ensurers ==
    ASSUME TypeOK, [Next]_vars, NEW w \in Workers
    PROVE  \/ /\ ens'[w] = ens[w]
              /\ \/ now' = now
                 \/ now' = now + 1 /\ (EnsureInFlight(w) => now < ens[w].at + MaxStall)
           \/ /\ now' = now
              /\ \/ ens'[w].step \in {"none", "load", "ok", "err"}
                 \/ /\ ens'[w].step = "list" /\ ens'[w].at = now
                 \/ /\ ens[w].step = "list" /\ ens'[w].step = "default"
                    /\ ens'[w].at = ens[w].at /\ ens'[w].todo \subseteq Required(ens[w].at)
                 \/ /\ ens[w].step = "default" /\ ens'[w].step = "create"
                    /\ ens'[w].at = ens[w].at /\ ens'[w].todo = ens[w].todo
<1>0. ens \in [Workers -> EnsureCalls] /\ ens[w] \in EnsureCalls
  BY DEF TypeOK, TypeOKProvisioner
<1>1. CASE Tick \/ ClientInsert \/ UNCHANGED vars
  BY <1>1 DEF Tick, ClientInsert, InsertStray, vars, catalogVars
<1>2. CASE EnsureLoad(w)
  <2>1. now' = now
    BY <1>2 DEF EnsureLoad, catalogVars
  <2>2. CASE EnsureGoto(w, "err")
    BY <1>0, <2>1, <2>2 DEF EnsureGoto, EnsureCalls
  <2>3. CASE ens' = [ens EXCEPT ![w] = [@ EXCEPT !.step = "list", !.pid = parent, !.at = now]]
    BY <1>0, <2>1, <2>3 DEF EnsureCalls
  <2> QED BY <1>2, <2>2, <2>3, Zenon DEF EnsureLoad
<1>3. CASE EnsureList(w)
  BY <1>0, <1>3 DEF EnsureList, EnsureCalls, catalogVars
<1>4. CASE EnsureLookupDefault(w)
  BY <1>0, <1>4 DEF EnsureLookupDefault, EnsureCalls, catalogVars
<1>5. CASE CreateInTx(w, FALSE)
  BY <1>0, <1>5 DEF CreateInTx, EnsureGoto, EnsureCalls
<1>6. CASE now' = now /\ (ens'[w] = ens[w] \/ ens'[w].step \in {"none", "load", "err"})
  BY <1>6
<1> QED BY <1>1, <1>2, <1>3, <1>4, <1>5, <1>6, EnsureMoves

\* Time does not run backwards.
LEMMA Clock ==
    ASSUME [Next]_vars, TypeOK, NEW n \in Nat, Overdue(n)
    PROVE  Overdue(n)'
<1>0. now \in Nat /\ Retention \in Nat
  BY CatalogAssumption DEF TypeOK, TypeOKCatalog
<1>1. CASE \E w \in Workers : TRUE
  BY <1>0, <1>1, Ensurers DEF Overdue
<1>2. CASE ~ \E w \in Workers : TRUE
  <2>1. Tick \/ ClientInsert \/ UNCHANGED vars
    BY <1>2, Zenon DEF Next, Workers
  <2>2. now' = now \/ now' = now + 1
    BY <2>1 DEF Tick, ClientInsert, InsertStray, vars, catalogVars
  <2> QED BY <1>0, <2>2 DEF Overdue
<1> QED BY <1>1, <1>2

\* A step leaves the calls in flight recent.
LEMMA EnsureRecentStep ==
    ASSUME TypeOK, EnsureRecent, [Next]_vars
    PROVE  EnsureRecent'
<1> SUFFICES ASSUME NEW w \in Workers
             PROVE  /\ EnsureInFlight(w)' => ens'[w].at <= now' /\ now' <= ens'[w].at + MaxStall
                    /\ ens'[w].step \in {"default", "create"} =>
                          \A p \in ens'[w].todo : ens'[w].at <= p
  BY DEF EnsureRecent
<1>0. /\ now \in Nat /\ MaxStall \in Nat /\ Premake \in Nat
      /\ ens[w].at \in Nat /\ ens[w].todo \in SUBSET Nat
  BY CatalogAssumption, PartmanAssumption
     DEF TypeOK, TypeOKCatalog, TypeOKProvisioner, EnsureCalls
<1>1. /\ EnsureInFlight(w) => ens[w].at <= now /\ now <= ens[w].at + MaxStall
      /\ ens[w].step \in {"default", "create"} => \A p \in ens[w].todo : ens[w].at <= p
  BY DEF EnsureRecent
<1>2. \A p \in Required(ens[w].at) : ens[w].at <= p
  BY <1>0 DEF Required
<1> QED BY <1>0, <1>1, <1>2, Ensurers DEF EnsureInFlight

\* createInTx never names a partition that is past its retention.
LEMMA CreatedIsRecent ==
    ASSUME Steady, TypeOK, EnsureRecent, NEW w \in Workers, ens[w].step = "create",
           NEW n \in Created(ens[w]), n # DefaultName
    PROVE  n[2] \in Nat /\ ~Overdue(n[2])
<1>0. /\ ens[w].todo \in SUBSET Nat /\ ens[w].at \in Nat /\ now \in Nat
      /\ Retention \in Nat /\ MaxStall \in Nat
  BY CatalogAssumption, PartmanAssumption
     DEF TypeOK, TypeOKCatalog, TypeOKProvisioner, EnsureCalls
<1>1. n \in ToName(ens[w])
  BY DEF Created
<1>2. n[2] \in ens[w].todo
  <2> DEFINE e == ens[w]
  <2>1. n \in ToName(e) /\ e.todo \in SUBSET Nat
    BY <1>0, <1>1
  <2> HIDE DEF e
  <2>2. n[2] \in e.todo
    BY <2>1, CreatedPeriod DEF Steady
  <2> QED BY <2>2 DEF e
<1>3. ens[w].at <= n[2] /\ now <= ens[w].at + MaxStall
  BY <1>2 DEF EnsureRecent, EnsureInFlight
<1> QED BY <1>0, <1>2, <1>3 DEF Overdue, Steady

\* A row r of the sweep in hand, and what decision d makes of row and table.
Decided(w, r, d) ==
    /\ swp[w].mode = "sweep" /\ r.name \in Names
    /\ \A n \in Names : n # r.name => parts'[n] = parts[n] /\ tables'[n] = tables[n]
    /\ \/ d = "detach" /\ tables'[r.name].at = "standalone"
       \/ tables'[r.name] = NoTable
    /\ tables[r.name].at # "none"
    /\ d # "drop" => Attached(r.name)
    /\ \/ parts[r.name].status # "none" /\ parts[r.name].id = r.id
          /\ parts'[r.name] = [parts[r.name] EXCEPT !.status = StatusFor(d)]
       \/ ~(parts[r.name].status # "none" /\ parts[r.name].id = r.id)
          /\ parts'[r.name] = parts[r.name]

\* applyDecision leaves every other row and table alone.
LEMMA Decision ==
    ASSUME TypeOK, NEW w \in Workers, NEW r \in swp[w].rows, NEW d \in Hook, NEW lost \in BOOLEAN,
           ApplyDecision(w, r, d, lost)
    PROVE  Decided(w, r, d)
<1>0. /\ r.name \in Names /\ parts \in [Names -> Rows] /\ tables \in [Names -> TablesOf]
  BY DEF TypeOK, TypeOKRetention, SweepCalls, ListedRows, TypeOKCatalog
<1>1. DecisionApplies(r.name, d) /\ swp[w].mode = "sweep"
  BY DEF ApplyDecision
<1>2. tables' = [tables EXCEPT ![r.name] =
                    IF d = "detach" THEN [@ EXCEPT !.at = "standalone"] ELSE NoTable]
  BY DEF ApplyDecision
<1>3. parts' = Mark(r, StatusFor(d))
  BY DEF ApplyDecision
<1>4. \A n \in Names : n # r.name => parts'[n] = parts[n] /\ tables'[n] = tables[n]
  BY <1>0, <1>2, <1>3 DEF Mark
<1>5. tables[r.name].at # "none" /\ (d # "drop" => Attached(r.name))
  BY <1>1 DEF DecisionApplies, Attached
<1>6. \/ d = "detach" /\ tables'[r.name].at = "standalone"
      \/ tables'[r.name] = NoTable
  BY <1>0, <1>2 DEF TablesOf
<1>7. \/ parts[r.name].status # "none" /\ parts[r.name].id = r.id
         /\ parts'[r.name] = [parts[r.name] EXCEPT !.status = StatusFor(d)]
      \/ ~(parts[r.name].status # "none" /\ parts[r.name].id = r.id)
         /\ parts'[r.name] = parts[r.name]
  BY <1>0, <1>3 DEF Mark
<1> QED BY <1>0, <1>1, <1>4, <1>5, <1>6, <1>7 DEF Decided

\* A step leaves rows and tables in agreement.
LEMMA MetadataStep ==
    ASSUME Steady, TypeOK, SteadyInv, [Next]_vars
    PROVE  MetadataAgrees' /\ OutIsOverdue'
<1> USE DEF SteadyInv
<1> DEFINE Agrees(n, row, table) ==
        /\ row.status = "active" => table.at = "attached" /\ table.period = row.period
        /\ row.status = "dropped" => table.at = "none"
        /\ row.status = "detached" => table.at # "attached"
        /\ table.at = "standalone" \/ row.status \in {"detached", "dropped"} =>
              n # DefaultName /\ Overdue(n[2])
<1>0. parts \in [Names -> Rows] /\ tables \in [Names -> TablesOf]
  BY DEF TypeOK, TypeOKCatalog
<1>1. \A n \in Names : Agrees(n, parts[n], tables[n])
  BY DEF MetadataAgrees, ActiveIsAttached, DroppedIsGone, DetachedIsOut, OutIsOverdue, Attached
<1>2. ASSUME \A n \in Names : Agrees(n, parts'[n], tables'[n])
      PROVE  MetadataAgrees' /\ OutIsOverdue'
  <2>1. \A n \in Names : n # DefaultName /\ Overdue(n[2]) => Overdue(n[2])'
    BY Clock, NameOfPeriod DEF Steady
  <2> QED BY <1>2, <2>1
        DEF MetadataAgrees, ActiveIsAttached, DroppedIsGone, DetachedIsOut, OutIsOverdue, Attached
<1> SUFFICES ASSUME NEW n \in Names PROVE Agrees(n, parts'[n], tables'[n])
  BY <1>2
<1>3. CASE UNCHANGED <<parts, tables>>
  BY <1>1, <1>3
<1>4. ASSUME NEW w \in Workers, NEW lost \in BOOLEAN, CreateInTx(w, lost)
      PROVE  Agrees(n, parts'[n], tables'[n])
  <2> DEFINE e == ens[w]  p == PeriodFor(e, n)
  <2>1. /\ tables'[n] = IF n \in Created(e) THEN CreateTable(n, p) ELSE tables[n]
        /\ parts'[n] = IF n \in Created(e) THEN UpsertPartition(n, p) ELSE parts[n]
    BY <1>4 DEF CreateInTx
  <2>2. CASE n \notin Created(e)
    BY <1>1, <2>1, <2>2
  <2>3. CASE n \in Created(e)
    <3>1. ~(n # DefaultName /\ Overdue(n[2]))
      BY <1>4, <2>3, CreatedIsRecent DEF CreateInTx
    <3>2. tables[n].at \in {"none", "attached"} /\ parts[n].status \in {"none", "active"}
      BY <1>0, <1>1, <3>1 DEF TablesOf, Rows
    <3>3. p = IF n = DefaultName THEN 0 ELSE n[2]
      <4>1. e.todo \in SUBSET Nat
        BY DEF TypeOK, TypeOKProvisioner, EnsureCalls
      <4>2. CASE n \in ToName(e)
        <5> HIDE DEF e
        <5> QED BY <4>1, <4>2, CreatedPeriod DEF Steady
      <4>3. CASE n \notin ToName(e)
        BY <2>3, <4>3 DEF Created, PeriodFor
      <4> QED BY <4>2, <4>3
    <3> HIDE DEF e, p
    <3>4. tables'[n].at = "attached" /\ tables'[n].period = p
      BY <2>1, <2>3, <3>2, <3>3 DEF CreateTable, PeriodOfName
    <3>5. parts'[n].status = "active" /\ parts'[n].period = p
      BY <2>1, <2>3, <3>2, <3>3 DEF UpsertPartition, PeriodOfName
    <3> QED BY <3>4, <3>5
  <2> QED BY <2>2, <2>3
<1>5. ASSUME NEW w \in Workers, NEW lost \in BOOLEAN, NEW r \in swp[w].rows, NEW d \in Hook,
             ApplyDecision(w, r, d, lost)
      PROVE  Agrees(n, parts'[n], tables'[n])
  <2>d. Decided(w, r, d)
    BY <1>5, Decision
  <2>0. /\ n # r.name => parts'[n] = parts[n] /\ tables'[n] = tables[n]
        /\ \/ d = "detach" /\ tables'[r.name].at = "standalone"
           \/ tables'[r.name] = NoTable
        /\ tables[r.name].at # "none" /\ (d # "drop" => Attached(r.name))
    <3> HIDE DEF Agrees
    <3> QED BY <2>d DEF Decided
  <2>1. CASE n # r.name
    BY <1>1, <2>0, <2>1
  <2>2. CASE n = r.name
    <3>1. swp[w].mode = "sweep" /\ n # DefaultName /\ Overdue(n[2])
      BY <2>2, <2>d DEF Decided, SweepRows
    <3>2. parts[n].status = "active" => parts[n].id = r.id
      BY <2>2, <3>1 DEF SweepIds
    <3>3. tables[n].at # "none" /\ (d # "drop" => tables[n].at = "attached")
      BY <2>0, <2>2 DEF Attached
    <3>4. \/ d = "detach" /\ tables'[n].at = "standalone"
          \/ tables'[n].at = "none"
      BY <2>0, <2>2 DEF NoTable
    <3>5. CASE parts'[n] = [parts[n] EXCEPT !.status = StatusFor(d)] /\ parts[n].status # "none"
      <4>1. parts'[n].status = StatusFor(d)
        BY <1>0, <3>5 DEF Rows
      <4>2. d = "drop" => tables'[n].at = "none"
        BY <3>4
      <4> QED BY <3>1, <3>4, <4>1, <4>2 DEF StatusFor
    <3>6. CASE parts'[n] = parts[n] /\ parts[n].status # "active"
      <4>1. parts[n].status # "dropped"
        BY <1>1, <3>3
      <4> QED BY <3>1, <3>4, <3>6, <4>1
    <3> QED BY <2>2, <2>d, <3>2, <3>5, <3>6 DEF Decided
  <2> QED BY <2>1, <2>2
<1>6. ASSUME NEW w \in Workers, NEW lost \in BOOLEAN, NEW r \in swp[w].rows, DropOne(w, r, lost)
      PROVE  FALSE
  BY <1>6 DEF DropOne, SweepIds
<1>7. ASSUME UNCHANGED tables, NEW gone \in SUBSET Names,
             parts' = [m \in Names |-> IF m \in gone THEN NoRow ELSE parts[m]]
      PROVE  Agrees(n, parts'[n], tables'[n])
  BY <1>1, <1>7 DEF NoRow
<1> HIDE DEF Agrees
<1> QED BY <1>3, <1>4, <1>5, <1>6, <1>7, Writers

\* A row past its retention is not inserted anew, so its id stays.
LEMMA OverdueRow ==
    ASSUME Steady, TypeOK, SteadyInv, [Next]_vars,
           NEW n \in Names, n # DefaultName, Overdue(n[2]), parts'[n].status = "active"
    PROVE  parts[n].status = "active" /\ parts'[n].id = parts[n].id
<1>0. parts \in [Names -> Rows]
  BY DEF TypeOK, TypeOKCatalog
<1>1. CASE UNCHANGED parts
  BY <1>1
<1>2. ASSUME NEW w \in Workers, NEW lost \in BOOLEAN, CreateInTx(w, lost)
      PROVE  parts'[n] = parts[n]
  <2>1. n \notin Created(ens[w])
    BY <1>2, CreatedIsRecent DEF CreateInTx, SteadyInv
  <2> QED BY <1>2, <2>1 DEF CreateInTx
<1>3. ASSUME NEW w \in Workers, NEW lost \in BOOLEAN, NEW r \in swp[w].rows, NEW d \in Hook,
             ApplyDecision(w, r, d, lost)
      PROVE  parts'[n] = parts[n]
  <2>1. \/ parts'[n] = parts[n]
        \/ parts'[n] = [parts[n] EXCEPT !.status = StatusFor(d)]
    <3>1. r.name \in Names
      BY DEF TypeOK, TypeOKRetention, SweepCalls, ListedRows
    <3> QED BY <1>0, <1>3, <3>1 DEF ApplyDecision, Mark
  <2>2. [parts[n] EXCEPT !.status = StatusFor(d)].status # "active"
    BY <1>0 DEF StatusFor, Rows
  <2> QED BY <2>1, <2>2
<1>4. ASSUME NEW w \in Workers, NEW lost \in BOOLEAN, NEW r \in swp[w].rows, DropOne(w, r, lost)
      PROVE  FALSE
  BY <1>4 DEF DropOne, SweepIds, SteadyInv
<1>5. ASSUME NEW gone \in SUBSET Names,
             parts' = [m \in Names |-> IF m \in gone THEN NoRow ELSE parts[m]]
      PROVE  parts'[n] = parts[n]
  BY <1>5 DEF NoRow
<1> QED BY <1>1, <1>2, <1>3, <1>4, <1>5, Writers

\* A step leaves the ids the sweeps have read true.
LEMMA SweepIdsStep ==
    ASSUME Steady, TypeOK, SteadyInv, [Next]_vars
    PROVE  SweepIds'
<1> SUFFICES ASSUME NEW w \in Workers
             PROVE  /\ swp'[w].mode # "dropAll"
                    /\ swp'[w].mode = "sweep" =>
                         \A r \in swp'[w].rows :
                            parts'[r.name].status = "active" => parts'[r.name].id = r.id
  BY DEF SweepIds
<1> DEFINE Ids(rows) ==
        \A r \in rows : parts'[r.name].status = "active" => parts'[r.name].id = r.id
<1>0. swp[w] \in SweepCalls /\ swp \in [Workers -> SweepCalls] /\ swp[w].mode # "dropAll"
  BY DEF TypeOK, TypeOKRetention, SteadyInv, SweepIds
<1>1. swp[w].mode = "sweep" => Ids(swp[w].rows)
  <2> SUFFICES ASSUME swp[w].mode = "sweep", NEW r \in swp[w].rows,
                      parts'[r.name].status = "active"
               PROVE  parts'[r.name].id = r.id
    OBVIOUS
  <2>1. r.name \in Names /\ r.name # DefaultName /\ Overdue(r.name[2])
    BY <1>0 DEF SweepCalls, ListedRows, SteadyInv, SweepRows
  <2>2. parts[r.name].status = "active" => parts[r.name].id = r.id
    BY DEF SteadyInv, SweepIds
  <2> QED BY <2>1, <2>2, OverdueRow
<1>2. CASE swp'[w].rows \subseteq swp[w].rows /\ swp'[w].mode = swp[w].mode
  BY <1>0, <1>1, <1>2
<1>3. CASE swp'[w] \in {NoSweep, SweepCall}
  <2>1. /\ NoSweep.rows = {} /\ NoSweep.mode = "none"
        /\ SweepCall.rows = {} /\ SweepCall.mode = "sweep"
    BY DEF NoSweep, SweepCall
  <2> QED BY <1>3, <2>1
<1>4. CASE SweepList(w)
  <2> DEFINE listed == {ListedRow(n) : n \in ListExpiredPartitions(swp[w].pid, swp[w].at)}
  <2>1. parts' = parts /\ Proceed(w, listed)
    BY <1>4 DEF SweepList, catalogVars
  <2>2. \A r \in listed : parts[r.name].id = r.id
    BY DEF ListedRow
  <2> HIDE DEF listed
  <2>3. swp'[w].rows = listed /\ swp'[w].mode = swp[w].mode
    BY <1>0, <2>1 DEF Proceed, SweepCalls
  <2> QED BY <1>0, <2>1, <2>2, <2>3
<1>5. CASE DropAllList(w)
  BY <1>0, <1>5 DEF DropAllList
<1>6. ASSUME NEW r \in swp[w].rows, Proceed(w, swp[w].rows \ {r})
      PROVE  swp'[w].rows \subseteq swp[w].rows /\ swp'[w].mode = swp[w].mode
  BY <1>0, <1>6 DEF Proceed, SweepCalls
<1>7. ASSUME \/ swp'[w] = swp[w]
             \/ \E s \in {"ok", "err"} : swp'[w] = [swp[w] EXCEPT !.step = s]
             \/ swp'[w] = [swp[w] EXCEPT !.step = "list", !.pid = parent, !.at = now]
      PROVE  swp'[w].rows \subseteq swp[w].rows /\ swp'[w].mode = swp[w].mode
  BY <1>0, <1>7 DEF SweepCalls
<1> HIDE DEF Ids
<1>8. ~AllowCascade
  BY DEF Steady
<1> QED BY <1>2, <1>3, <1>4, <1>5, <1>6, <1>7, <1>8, Sweepers

\* The invariant behind the agreement holds.
LEMMA SteadyInvHolds == Steady => (Spec => []SteadyInv)
<1> SUFFICES ASSUME Steady PROVE Spec => []SteadyInv
  OBVIOUS
<1>1. Init => SteadyInv
  <2> SUFFICES ASSUME Init PROVE SteadyInv
    OBVIOUS
  <2>1. PeriodOfName /\ OutIsOverdue /\ MetadataAgrees
    BY DEF Init, InitCatalog, PeriodOfName, OutIsOverdue, MetadataAgrees, ActiveIsAttached,
           DroppedIsGone, DetachedIsOut, NoRow, NoTable
  <2>2. SweepRows /\ SweepIds
    BY DEF Init, InitCatalog, SweepRows, SweepIds, NoSweep
  <2>3. EnsureRecent
    BY DEF Init, EnsureRecent, EnsureInFlight, NoEnsure
  <2> QED BY <2>1, <2>2, <2>3 DEF SteadyInv
<1>2. TypeOK /\ SteadyInv /\ [Next]_vars => SteadyInv'
  <2> SUFFICES ASSUME TypeOK, SteadyInv, [Next]_vars PROVE SteadyInv'
    OBVIOUS
  <2>1. PeriodOfName' /\ SweepRows'
    BY PeriodOfNameStep, SweepRowsStep DEF Steady, SteadyInv
  <2>2. EnsureRecent'
    BY EnsureRecentStep DEF SteadyInv
  <2> QED BY <2>1, <2>2, MetadataStep, SweepIdsStep DEF SteadyInv
<1> QED BY <1>1, <1>2, TypeCorrect, PTL DEF Spec

\* The metadata agrees with the tables in every reachable state, for any
\* number of replicas, callers and tenants, any premake and retention, with
\* faults, crashes and lost locks: provided no cascading removal runs,
\* names tell their periods, and no EnsurePartitions call stays in flight
\* longer than the retention.
THEOREM MetadataIsTrue == Steady => (Spec => []MetadataAgrees)
<1> SUFFICES ASSUME Steady PROVE Spec => []MetadataAgrees
  OBVIOUS
<1>1. SteadyInv => MetadataAgrees
  BY DEF SteadyInv
<1> QED BY <1>1, SteadyInvHolds, PTL

-----------------------------------------------------------------------------
(* Cascading removals, of a parent that is registered once *)

\* Rows and listed rows are those of the one registration, and while it
\* lasts every child table has its row.
OnceInv ==
    /\ epoch <= 1 /\ tenants = {}
    /\ epoch = 0 => \A n \in Names : tables[n].at = "none"
    /\ \A w \in Workers : /\ job[w].op # "registerTenant"
                          /\ \A r \in swp[w].rows : r.id = 1
                          /\ EnsureInFlight(w) => ens[w].pid = 1 /\ epoch = 1
    /\ \A n \in Names : /\ parts[n].status # "none" => parts[n].id = 1 /\ parent = 1
                        /\ parent = 1 /\ tables[n].at # "none" => parts[n].status # "none"
    /\ ActiveIsAttached

\* The parent is registered once, and no tenant.
LEMMA OneRegistration ==
    ASSUME MaxEpoch <= 1, TypeOK, OnceInv, EpochLeft
    PROVE  epoch = 0
<1>1. {w \in Workers : At(w, "registerTenant", "upsert")} = {}
  BY DEF OnceInv, At
<1>2. Cardinality({w \in Workers : At(w, "registerTenant", "upsert")}) = 0
  BY <1>1, FS_EmptySet
<1>3. epoch \in Nat /\ MaxEpoch \in Nat
  BY CatalogAssumption DEF TypeOK, TypeOKCatalog
<1> QED BY <1>2, <1>3 DEF EpochLeft

\* A step starts no registration of a tenant.
LEMMA NoTenantStarts ==
    ASSUME MaxEpoch <= 1, TypeOK, OnceInv, [Next]_vars
    PROVE  \A w \in Workers : job'[w].op # "registerTenant"
<1> DEFINE None == \A w \in Workers : job'[w].op # "registerTenant"
<1>0. job \in [Workers -> Jobs] /\ \A w \in Workers : job[w].op # "registerTenant"
  BY DEF TypeOK, OnceInv
<1>1. CASE UNCHANGED job
  BY <1>0, <1>1
<1>2. ASSUME NEW w \in Workers, Return(w) PROVE None
  BY <1>0, <1>2 DEF Return, Idle
<1>3. ASSUME NEW w \in Workers, NEW step, Goto(w, step) PROVE None
  BY <1>0, <1>3 DEF Goto, Jobs
<1>4. ASSUME NEW w \in Workers, NEW queue, NextTenant(w, queue) PROVE None
  <2>1. CASE \E t \in queue :
               job' = [job EXCEPT ![w] = [@ EXCEPT !.step = "ensure", !.queue = queue \ {t}]]
    BY <1>0, <2>1 DEF Jobs
  <2> QED BY <1>3, <1>4, <2>1 DEF NextTenant
<1>5. ASSUME NEW w \in Workers, NEW op, op # "registerTenant", NEW step, Begin(w, op, step)
      PROVE  None
  BY <1>0, <1>5 DEF Begin, Idle
<1>6. ASSUME NEW w \in Workers, NEW t, RemoveTenant(w, t) PROVE None
  BY <1>0, <1>6 DEF RemoveTenant, LoadParent, Idle
<1>7. ASSUME NEW w \in Workers, NEW t, RegisterTenant(w, t) PROVE FALSE
  <2>1. parent # 0 /\ EpochLeft
    BY <1>7 DEF RegisterTenant, LoadParent
  <2> QED BY <2>1, OneRegistration DEF TypeOK, TypeOKCatalog
<1> HIDE DEF None
<1>8. ASSUME NEW w \in Workers, Starts(w) \/ Maintain(w) PROVE None \/ UNCHANGED job
  BY <1>5, <1>6, <1>7, <1>8 DEF Starts, RegisterParent, RemoveParent, Maintain
<1>9. ASSUME NEW w \in Workers, Proceeds(w) PROVE None \/ UNCHANGED job
  BY <1>2, <1>3, <1>4, <1>9
     DEF Proceeds, RegisterReturns, UpsertTenant, RemoveTenantRow, CascadeReturns,
         RemoveParentRow, TryLock, ListTenants, PassContinues, PassEnds,
         ProvisionerStep, RetentionStep
<1>10. ASSUME NEW w \in Workers,
              ComponentFault(w) \/ ListTenantsFault(w) \/ LockLost(w) \/ Crash(w)
       PROVE  None \/ UNCHANGED job
  BY <1>2, <1>4, <1>10 DEF ComponentFault, ListTenantsFault, LockLost, Crash
<1>11. None \/ UNCHANGED job
  BY <1>8, <1>9, <1>10 DEF Next, Tick, ClientInsert, vars, Workers
<1> QED BY <1>1, <1>11 DEF None

\* A step leaves the calls in flight with ids of the one registration.
LEMMA OnceCalls ==
    ASSUME MaxEpoch <= 1, TypeOK, OnceInv, [Next]_vars, NEW w \in Workers
    PROVE  /\ \A r \in swp'[w].rows : r.id = 1
           /\ EnsureInFlight(w)' => ens'[w].pid = 1 /\ epoch = 1
<1>0. /\ swp[w] \in SweepCalls /\ ens[w] \in EnsureCalls
      /\ swp \in [Workers -> SweepCalls] /\ ens \in [Workers -> EnsureCalls]
      /\ epoch \in Nat /\ parent \in 0 .. epoch
  BY DEF TypeOK, TypeOKRetention, TypeOKProvisioner, TypeOKCatalog
<1>1. \A r \in swp'[w].rows : r.id = 1
  <2>1. CASE swp'[w].rows \subseteq swp[w].rows
    BY <2>1 DEF OnceInv
  <2>2. CASE swp'[w] \in {NoSweep, SweepCall, DropAllCall}
    <3>1. NoSweep.rows = {} /\ SweepCall.rows = {} /\ DropAllCall.rows = {}
      BY DEF NoSweep, SweepCall, DropAllCall
    <3> QED BY <2>2, <3>1
  <2>3. ASSUME NEW r \in swp[w].rows, Proceed(w, swp[w].rows \ {r})
        PROVE  swp'[w].rows \subseteq swp[w].rows
    BY <1>0, <2>3 DEF Proceed, SweepCalls
  <2>4. ASSUME \/ swp'[w] = swp[w]
               \/ \E s \in {"ok", "err"} : swp'[w] = [swp[w] EXCEPT !.step = s]
               \/ swp'[w] = [swp[w] EXCEPT !.step = "list", !.pid = parent, !.at = now]
        PROVE  swp'[w].rows \subseteq swp[w].rows
    BY <1>0, <2>4 DEF SweepCalls
  <2>5. ASSUME NEW listed \in SUBSET {n \in Names : parts[n].status # "none"},
               Proceed(w, {ListedRow(n) : n \in listed})
        PROVE  \A r \in swp'[w].rows : r.id = 1
    <3>1. swp'[w].rows = {ListedRow(n) : n \in listed}
      BY <1>0, <2>5 DEF Proceed, SweepCalls
    <3>2. \A n \in listed : ListedRow(n).id = 1
      BY <2>5 DEF ListedRow, OnceInv
    <3> QED BY <3>1, <3>2
  <2>6. CASE SweepList(w)
    <3>1. ListExpiredPartitions(swp[w].pid, swp[w].at)
            \in SUBSET {n \in Names : parts[n].status # "none"}
      BY DEF ListExpiredPartitions
    <3> QED BY <2>5, <2>6, <3>1 DEF SweepList
  <2>7. CASE DropAllList(w)
    <3>1. ListPartitionsForParent(swp[w].pid) \in SUBSET {n \in Names : parts[n].status # "none"}
      BY DEF ListPartitionsForParent
    <3> QED BY <2>5, <2>7, <3>1 DEF DropAllList
  <2> QED BY <2>1, <2>2, <2>3, <2>4, <2>6, <2>7, Sweepers
<1>2. EnsureInFlight(w)' => ens'[w].pid = 1 /\ epoch = 1
  <2>1. CASE ens'[w] = ens[w]
    BY <2>1 DEF OnceInv, EnsureInFlight
  <2>2. CASE Tick \/ ClientInsert \/ UNCHANGED vars
    BY <2>1, <2>2 DEF Tick, ClientInsert, vars
  <2>3. CASE ens'[w].step \in {"none", "load", "ok", "err"}
    BY <2>3 DEF EnsureInFlight
  <2>4. CASE EnsureLoad(w)
    <3>1. CASE EnsureGoto(w, "err")
      BY <1>0, <2>3, <3>1 DEF EnsureGoto, EnsureCalls
    <3>2. CASE parent # 0 /\ ens' = [ens EXCEPT ![w] =
                  [@ EXCEPT !.step = "list", !.pid = parent, !.at = now]]
      <4>1. parent = 1 /\ epoch = 1
        BY <1>0, <3>2 DEF OnceInv
      <4> QED BY <1>0, <3>2, <4>1 DEF EnsureCalls
    <3> QED BY <2>4, <3>1, <3>2, Zenon DEF EnsureLoad
  <2>5. CASE EnsureList(w) \/ EnsureLookupDefault(w)
    <3>1. CASE EnsureList(w)
      BY <1>0, <3>1 DEF EnsureList, EnsureCalls, EnsureInFlight, OnceInv
    <3>2. CASE EnsureLookupDefault(w)
      BY <1>0, <3>2 DEF EnsureLookupDefault, EnsureCalls, EnsureInFlight, OnceInv
    <3> QED BY <2>5, <3>1, <3>2
  <2>6. CASE CreateInTx(w, FALSE)
    BY <1>0, <2>3, <2>6 DEF CreateInTx, EnsureGoto, EnsureCalls
  <2> QED BY <2>1, <2>2, <2>3, <2>4, <2>5, <2>6, EnsureMoves
<1> QED BY <1>1, <1>2

\* A step leaves the rows and the tables of the one registration in order.
LEMMA OnceCatalog ==
    ASSUME MaxEpoch <= 1, TypeOK, OnceInv, [Next]_vars
    PROVE  /\ epoch' <= 1 /\ tenants' = {}
           /\ epoch' = 0 => \A n \in Names : tables'[n].at = "none"
           /\ \A n \in Names :
                /\ parts'[n].status # "none" => parts'[n].id = 1 /\ parent' = 1
                /\ parent' = 1 /\ tables'[n].at # "none" => parts'[n].status # "none"
           /\ ActiveIsAttached'
<1> DEFINE Fine(row, table, pid) ==
        /\ row.status # "none" => row.id = 1 /\ pid = 1
        /\ pid = 1 /\ table.at # "none" => row.status # "none"
        /\ row.status = "active" => table.at = "attached" /\ table.period = row.period
           Bounded == /\ epoch' <= 1 /\ tenants' = {}
                      /\ epoch' = 0 => \A n \in Names : tables'[n].at = "none"
           AllFine == \A n \in Names : Fine(parts'[n], tables'[n], parent')
<1>0. /\ parts \in [Names -> Rows] /\ tables \in [Names -> TablesOf]
      /\ epoch \in Nat /\ parent \in 0 .. epoch
  BY DEF TypeOK, TypeOKCatalog
<1>1. \A n \in Names : Fine(parts[n], tables[n], parent)
  BY DEF OnceInv, ActiveIsAttached, Attached
<1>2. ASSUME UNCHANGED <<epoch, parent, tenants, parts, tables>> PROVE Bounded /\ AllFine
  BY <1>1, <1>2 DEF OnceInv
<1>3. ASSUME NEW w \in Workers, RegisterParent(w) PROVE Bounded /\ AllFine
  <2>1. epoch = 0 /\ epoch' = 1 /\ parent = 0 /\ UNCHANGED <<tenants, parts, tables>>
    BY <1>3, OneRegistration DEF RegisterParent
  <2>2. \A n \in Names : tables[n].at = "none" /\ parts[n].status = "none"
    BY <2>1 DEF OnceInv
  <2> QED BY <2>1, <2>2 DEF OnceInv
<1>4. ASSUME NEW w \in Workers, UpsertTenant(w) PROVE FALSE
  BY <1>4 DEF UpsertTenant, At, OnceInv
<1>5. ASSUME NEW w \in Workers, RemoveTenantRow(w)
      PROVE  UNCHANGED <<epoch, parent, tenants, parts, tables>>
  BY <1>5 DEF RemoveTenantRow, DeleteTenant, OnceInv
<1>6. ASSUME NEW w \in Workers, RemoveParentRow(w) PROVE Bounded /\ AllFine
  BY <1>6 DEF RemoveParentRow, DeleteParentTable, NoRow, OnceInv
<1>7. ASSUME NEW w \in Workers, NEW lost \in BOOLEAN, CreateInTx(w, lost)
      PROVE  Bounded /\ AllFine
  <2> DEFINE e == ens[w]
  <2>1. /\ epoch' = epoch /\ tenants' = tenants /\ parent' = parent
        /\ e.step = "create" /\ ~ParentGone(e)
    BY <1>7 DEF CreateInTx, TxFails
  <2>2. e.pid = 1 /\ epoch = 1
    BY <2>1 DEF EnsureInFlight, OnceInv
  <2>3. ASSUME NEW n \in Names PROVE Fine(parts'[n], tables'[n], parent')
    <3> DEFINE p == PeriodFor(e, n)
    <3>1. /\ tables'[n] = IF n \in Created(e) THEN CreateTable(n, p) ELSE tables[n]
          /\ parts'[n] = IF n \in Created(e) THEN UpsertPartition(n, p) ELSE parts[n]
      BY <1>7 DEF CreateInTx
    <3>2. CASE n \notin Created(e)
      BY <1>1, <2>1, <3>1, <3>2
    <3>3. CASE n \in Created(e)
      <4>1. parts[n].status = "none" => parent = 1
        BY <2>1, <2>2, <3>3 DEF ParentGone
      <4>2. parent = 1
        BY <1>1, <4>1
      <4> HIDE DEF e, p
      <4>3. parts[n].status = "none" => tables[n].at = "none"
        BY <1>1, <4>2
      <4>4. CASE parts[n].status = "none"
        <5>1. /\ tables'[n] = [at |-> "attached", period |-> p]
              /\ parts'[n] = [id |-> epoch, period |-> p, status |-> "active"]
          BY <3>1, <3>3, <4>3, <4>4 DEF CreateTable, UpsertPartition
        <5> QED BY <2>1, <2>2, <4>2, <5>1
      <4>5. CASE parts[n].status # "none"
        <5>1. parts'[n] = parts[n] /\ (tables'[n] = tables[n] \/ tables[n].at = "none")
          BY <3>1, <3>3, <4>5 DEF CreateTable, UpsertPartition
        <5> QED BY <1>1, <2>1, <4>5, <5>1
      <4> QED BY <4>4, <4>5
    <3> QED BY <3>2, <3>3
  <2> QED BY <2>1, <2>2, <2>3 DEF OnceInv
<1>8. ASSUME NEW w \in Workers, NEW lost \in BOOLEAN, NEW r \in swp[w].rows,
             \/ \E d \in Hook : ApplyDecision(w, r, d, lost)
             \/ DropOne(w, r, lost)
      PROVE  Bounded /\ AllFine
  <2>0. r.name \in Names /\ r.id = 1
    BY DEF TypeOK, TypeOKRetention, SweepCalls, ListedRows, OnceInv
  <2>1. epoch' = epoch /\ tenants' = tenants /\ parent' = parent
    BY <1>8 DEF ApplyDecision, DropOne
  <2>2. PICK s \in {"detached", "dropped"} : parts' = Mark(r, s)
    BY <1>8 DEF ApplyDecision, DropOne, StatusFor
  <2>3. /\ \A n \in Names : n # r.name => tables'[n] = tables[n]
        /\ tables[r.name].at = "none" => tables'[r.name].at = "none"
    BY <1>0, <1>8, <2>0
       DEF ApplyDecision, DecisionApplies, DropOne, Attached, NoTable, TablesOf
  <2>4. /\ \A n \in Names : n # r.name => parts'[n] = parts[n]
        /\ parts[r.name].status = "none" => parts'[r.name] = parts[r.name]
        /\ parts[r.name].status # "none" => parts'[r.name] = [parts[r.name] EXCEPT !.status = s]
    BY <1>0, <1>1, <2>0, <2>2 DEF Mark
  <2>5. ASSUME NEW n \in Names PROVE Fine(parts'[n], tables'[n], parent')
    <3>1. CASE n # r.name
      BY <1>1, <2>1, <2>3, <2>4, <3>1
    <3>2. CASE n = r.name /\ parts[n].status = "none"
      BY <1>1, <2>1, <2>3, <2>4, <3>2
    <3>3. CASE n = r.name /\ parts[n].status # "none"
      <4>1. parts'[n].status = s /\ parts'[n].id = parts[n].id
        BY <1>0, <2>4, <3>3 DEF Rows
      <4> QED BY <1>1, <2>1, <3>3, <4>1
    <3> QED BY <3>1, <3>2, <3>3
  <2>6. Bounded
    BY <2>0, <2>1, <2>3 DEF OnceInv
  <2> QED BY <2>5, <2>6
<1>9. CASE Bounded /\ AllFine
  BY <1>9 DEF ActiveIsAttached, Attached
<1> HIDE DEF Bounded, AllFine
<1>10. Bounded /\ AllFine
  BY <1>2, <1>3, <1>4, <1>5, <1>6, <1>7, <1>8, CatalogSteps, Zenon
<1> QED BY <1>9, <1>10

\* With cascading removals at work beside registration, maintenance, faults
\* and crashes an active row still has its table attached with the row's
\* bounds, for every set of workers, interval, retention and hook, as long
\* as the parent is registered only once: a second registration gives new
\* rows to names that an older DropAll has listed.
THEOREM CascadeKeepsActive == MaxEpoch <= 1 => (Spec => []ActiveIsAttached)
<1> SUFFICES ASSUME MaxEpoch <= 1 PROVE Spec => []ActiveIsAttached
  OBVIOUS
<1>1. Init => OnceInv
  <2> SUFFICES ASSUME Init PROVE OnceInv
    OBVIOUS
  <2>1. /\ epoch <= 1 /\ tenants = {}
        /\ \A n \in Names : parts[n].status = "none" /\ tables[n].at = "none"
    BY DEF Init, InitCatalog, NoRow, NoTable
  <2>2. \A w \in Workers : /\ job[w].op = "idle" /\ swp[w].rows = {} /\ ens[w].step = "none"
    BY DEF Init, Idle, NoSweep, NoEnsure
  <2> QED BY <2>1, <2>2 DEF OnceInv, ActiveIsAttached, EnsureInFlight
<1>2. TypeOK /\ OnceInv /\ [Next]_vars => OnceInv'
  <2> SUFFICES ASSUME TypeOK, OnceInv, [Next]_vars PROVE OnceInv'
    OBVIOUS
  <2>1. epoch = 1 => epoch' = 1
    <3>1. ASSUME NEW w \in Workers, \/ RegisterParent(w) \/ UpsertTenant(w)
                                    \/ RemoveTenantRow(w) \/ RemoveParentRow(w)
          PROVE  epoch' = epoch \/ epoch' = epoch + 1
      BY <3>1 DEF RegisterParent, UpsertTenant, RemoveTenantRow, RemoveParentRow
    <3>2. ASSUME NEW w \in Workers, NEW lost \in BOOLEAN,
                 \/ CreateInTx(w, lost)
                 \/ \E r \in swp[w].rows : \/ \E d \in Hook : ApplyDecision(w, r, d, lost)
                                           \/ DropOne(w, r, lost)
          PROVE  epoch' = epoch
      BY <3>2 DEF CreateInTx, ApplyDecision, DropOne
    <3>3. epoch' = epoch \/ epoch' = epoch + 1
      BY <3>1, <3>2, CatalogSteps, Zenon
    <3> QED BY <3>3, OnceCatalog
  <2> QED BY <2>1, NoTenantStarts, OnceCalls, OnceCatalog DEF OnceInv
<1>3. OnceInv => ActiveIsAttached
  BY DEF OnceInv
<1> QED BY <1>1, <1>2, <1>3, TypeCorrect, PTL DEF Spec

=============================================================================
