------------------------------- MODULE Drain -------------------------------
(***************************************************************************)
(* Drain.PartitionData (internal/drain): rows of the default table move,   *)
(* batch by batch, to the bounded children of their ranges.                *)
(*                                                                         *)
(* The call holds the parent's advisory lock (module AdvisoryLock), so no  *)
(* other drain and no sweep runs beside it; clients of the table and       *)
(* EnsurePartitions do.  A batch is read in one statement and moved in     *)
(* later ones, by ctid; the row locks of the read end with the statement.  *)
(* drain is the one call there can be at a time.                           *)
(***************************************************************************)
EXTENDS Integers, FiniteSets

CONSTANTS
    Rows,              \* rows that clients write
    TenantOf,          \* the tenant column of each row
    PeriodOf,          \* the period its control column lies in
    Tenants,           \* registered tenants
    Empty, Null,       \* the empty string, and SQL NULL
    HasTenantColumn,
    Slots, NoRow,      \* ctids of the default table, and an unused one
    Provisioned,       \* ranges EnsurePartitions is asked for
    Filters,           \* arguments of WithTenant; Null when it is not given
    BatchSize,
    Limits,            \* arguments of WithMaxBatches; 0 is no limit
    OperatorDetaches,  \* an operator takes the default off the parent
    ClientsBusy,       \* clients also write while a drain runs
    MaxRewrites,       \* bound: client updates, deletes and locks in the way
    MaxFaults          \* bound: cancellations and lost connections

ASSUME DrainAssumption ==
    /\ IsFiniteSet(Rows) /\ IsFiniteSet(Slots)
    /\ TenantOf \in [Rows -> Tenants \cup {Empty, Null}]
    /\ PeriodOf \in [Rows -> Nat \cup {Null}]
    /\ Empty \notin Tenants /\ Null \notin Tenants /\ Null \notin Nat
    /\ NoRow \notin Rows
    /\ Filters \subseteq Tenants \cup {Empty, Null}
    /\ BatchSize \in Nat \ {0} /\ Limits \subseteq Nat
    /\ MaxRewrites \in Nat /\ MaxFaults \in Nat
    /\ {HasTenantColumn, OperatorDetaches, ClientsBusy} \subseteq BOOLEAN

VARIABLES
    heap,      \* the default table: the row at each ctid
    attached,  \* the default is a partition of the parent
    children,  \* ranges that have an active, attached bounded partition
    placed,    \* how many copies of each row the bounded children hold
    live,      \* rows inserted and not deleted by clients
    drain,     \* the call of PartitionData
    rewrites, faults

vars == <<heap, attached, children, placed, live, drain, rewrites, faults>>

-----------------------------------------------------------------------------
(* Keys *)

\* groupByBounds: tenant and bounds of a row.
GroupKey(r) == <<IF HasTenantColumn THEN TenantOf[r] ELSE Null, PeriodOf[r]>>

Keys == {GroupKey(r) : r \in {q \in Rows : PeriodOf[q] # Null}}

\* pgTenantID and sqlTenantArg: the empty string becomes NULL.
SqlTenant(t) == IF t = Empty THEN Null ELSE t

\* Mutant of TargetOf: the partition of the next period.
TargetOfNext(k) == <<SqlTenant(k[1]), k[2] + 1>>

\* FindActivePartitionByBounds: the range looked for.
TargetOf(k) == <<SqlTenant(k[1]), k[2]>>

\* Mutants of Excluded: the clause is left out; the tenant is left out.
ExcludedNever(k, a) == FALSE
ExcludedAnyTenant(k, a) == k[2] = a[2]

\* The NOT (...) clause buildReadBatch adds for anomaly key a.
Excluded(k, a) == k[2] = a[2] /\ (HasTenantColumn => k[1] = SqlTenant(a[1]))

-----------------------------------------------------------------------------
(* The call *)

Groups == [key : Keys, slots : SUBSET Slots]

\* Anomaly counts saturate here; no more rows than this are ever left.
MaxCount == Cardinality(Rows) + 1

NewCall(f, n) == [step |-> "read", filter |-> f, limit |-> n, batch |-> 0, groups |-> {},
                  anomalies |-> [k \in Keys |-> 0], nulls |-> {}]
Steps == {"idle", "read", "group", "nulls", "ok", "err"}

TypeOK ==
    /\ heap \in [Slots -> Rows \cup {NoRow}]
    /\ attached \in BOOLEAN
    /\ children \subseteq Provisioned
    /\ placed \in [Rows -> 0 .. 1]
    /\ live \subseteq Rows
    /\ drain \in [step : Steps, filter : Filters \cup {Null}, limit : Limits \cup {0}, batch : Nat,
                  groups : SUBSET Groups, anomalies : [Keys -> 0 .. MaxCount],
                  nulls : SUBSET (Tenants \cup {Empty, Null})]
    /\ rewrites \in 0 .. MaxRewrites /\ faults \in 0 .. MaxFaults

Init ==
    /\ heap = [s \in Slots |-> NoRow]
    /\ attached = TRUE /\ children = {}
    /\ placed = [r \in Rows |-> 0] /\ live = {}
    /\ drain = [NewCall(Null, 0) EXCEPT !.step = "idle"]
    /\ rewrites = 0 /\ faults = 0

Running == drain.step \in {"read", "group", "nulls"}
Used == {s \in Slots : heap[s] # NoRow}
\* Rows of the default that the WithTenant filter selects.
InScope == {s \in Used : HasTenantColumn /\ drain.filter # Null =>
                            TenantOf[heap[s]] = drain.filter}
Dated == {s \in InScope : PeriodOf[heap[s]] # Null}
Anomalous == {k \in Keys : drain.anomalies[k] > 0}
Candidates == {s \in Dated : \A a \in Anomalous : ~Excluded(GroupKey(heap[s]), a)}

\* ORDER BY the control column LIMIT BatchSize
IsBatch(b, from) ==
    /\ Cardinality(b) = IF Cardinality(from) < BatchSize THEN Cardinality(from) ELSE BatchSize
    /\ \A s \in b, q \in from \ b : PeriodOf[heap[s]] <= PeriodOf[heap[q]]

GroupsOf(b) == {[key |-> k, slots |-> {s \in b : GroupKey(heap[s]) = k}] :
                   k \in {GroupKey(heap[s]) : s \in b}}

\* The lock is free and the parent and its default are there; otherwise the
\* call returns at once.
PartitionData(f, n) ==
    /\ ~Running
    /\ drain' = NewCall(f, n)
    /\ UNCHANGED <<heap, attached, children, placed, live, rewrites, faults>>

\* The batches are counted only against a limit.
MoreBatches == drain.limit = 0 \/ drain.batch < drain.limit
Counted(n) == IF drain.limit = 0 THEN 0 ELSE n + 1

\* SKIP LOCKED passes over the rows that client transactions have locked.
ReadBatch ==
    /\ drain.step = "read" /\ MoreBatches
    /\ \E skipped \in SUBSET Candidates :
         /\ skipped # {} => ClientsBusy /\ rewrites < MaxRewrites
         /\ rewrites' = IF skipped = {} THEN rewrites ELSE rewrites + 1
         /\ \E b \in SUBSET (Candidates \ skipped) :
              /\ IsBatch(b, Candidates \ skipped)
              /\ drain' = IF b = {} THEN [drain EXCEPT !.step = "nulls"]
                          ELSE [drain EXCEPT !.step = "group", !.groups = GroupsOf(b),
                                             !.batch = Counted(@)]
    /\ UNCHANGED <<heap, attached, children, placed, live, faults>>

\* The loop over the groups, in the order of a Go map; then the next batch.
Done(g) == [drain EXCEPT !.groups = @ \ {g},
                         !.step = IF drain.groups = {g} THEN "read" ELSE "group"]

RecordAnomaly(g) ==
    /\ drain.step = "group" /\ g \in drain.groups
    /\ TargetOf(g.key) \notin children
    /\ drain' = [Done(g) EXCEPT !.anomalies[g.key] =
                   IF @ + Cardinality(g.slots) < MaxCount THEN @ + Cardinality(g.slots) ELSE MaxCount]
    /\ UNCHANGED <<heap, attached, children, placed, live, rewrites, faults>>

\* DELETE ... WHERE ctid = ANY takes whatever rows are there by now.
Hit(g) == g.slots \cap Used
\* INSERT INTO the child checks its partition constraint.
Accepts(g) == \A s \in Hit(g) : GroupKey(heap[s]) = TargetOf(g.key)
Moves(g) ==
    /\ drain.step = "group" /\ g \in drain.groups
    /\ TargetOf(g.key) \in children /\ Accepts(g)
    /\ heap' = [s \in Slots |-> IF s \in Hit(g) THEN NoRow ELSE heap[s]]
    /\ placed' = [r \in Rows |-> placed[r] + Cardinality({s \in Hit(g) : heap[s] = r})]

\* Mutant of MoveGroup: the rows are copied and stay in the default.
MoveGroupCopies(g) ==
    /\ drain.step = "group" /\ g \in drain.groups
    /\ TargetOf(g.key) \in children /\ Accepts(g)
    /\ placed' = [r \in Rows |-> placed[r] + Cardinality({s \in Hit(g) : heap[s] = r})]
    /\ drain' = Done(g)
    /\ UNCHANGED <<heap, attached, children, live, rewrites, faults>>

MoveGroup(g) ==
    /\ Moves(g)
    /\ drain' = Done(g)
    /\ UNCHANGED <<attached, children, live, rewrites, faults>>

\* The statement fails, the transaction rolls back and the call returns.
MoveRejected(g) ==
    /\ drain.step = "group" /\ g \in drain.groups
    /\ TargetOf(g.key) \in children /\ ~Accepts(g)
    /\ drain' = [drain EXCEPT !.step = "err"]
    /\ UNCHANGED <<heap, attached, children, placed, live, rewrites, faults>>

\* appendNullAnomalies, and the report.
AppendNullAnomalies ==
    /\ drain.step = "nulls" \/ (drain.step = "read" /\ ~MoreBatches)
    /\ drain' = [drain EXCEPT !.step = "ok",
                   !.nulls = {TenantOf[heap[s]] : s \in InScope \ Dated}]
    /\ UNCHANGED <<heap, attached, children, placed, live, rewrites, faults>>

\* ctx is cancelled or the connection is lost: between two statements, or
\* after a move has committed and before its reply.
DrainFault ==
    /\ Running /\ faults < MaxFaults /\ faults' = faults + 1
    /\ drain' = [drain EXCEPT !.step = "err"]
    /\ \/ UNCHANGED <<heap, placed>>
       \/ \E g \in drain.groups : Moves(g)
    /\ UNCHANGED <<attached, children, live, rewrites>>

-----------------------------------------------------------------------------
(* Clients of the table, EnsurePartitions, and the operator *)

\* PostgreSQL routes a row to the child of its range, else to the default,
\* else refuses it.
ClientInsert(r) ==
    /\ r \notin live
    /\ ClientsBusy \/ ~Running
    /\ live' = live \cup {r}
    /\ \/ /\ GroupKey(r) \in children
          /\ placed' = [placed EXCEPT ![r] = @ + 1] /\ UNCHANGED heap
       \/ /\ GroupKey(r) \notin children /\ attached
          /\ \E s \in Slots \ Used : heap' = [heap EXCEPT ![s] = r]
          /\ UNCHANGED placed
    /\ UNCHANGED <<attached, children, drain, rewrites, faults>>

\* An update writes a new version at another ctid, a delete none; VACUUM
\* frees the old ctid, and a later version may take it.
ClientRewrite(s) ==
    /\ ClientsBusy /\ s \in Used
    /\ rewrites < MaxRewrites /\ rewrites' = rewrites + 1
    /\ \/ \E q \in Slots \ Used : heap' = [heap EXCEPT ![s] = NoRow, ![q] = heap[s]]
          /\ UNCHANGED live
       \/ heap' = [heap EXCEPT ![s] = NoRow] /\ live' = live \ {heap[s]}
    /\ UNCHANGED <<attached, children, placed, drain, faults>>

Blocked(k) == attached /\ \E s \in Used : GroupKey(heap[s]) = k

\* EnsurePartitions of module Provisioner, one range at a time: refused
\* while the attached default holds rows of the range.
Provision(k) ==
    /\ k \notin children /\ ~Blocked(k)
    /\ children' = children \cup {k}
    /\ UNCHANGED <<heap, attached, placed, live, drain, rewrites, faults>>

\* An operator may take the default off the parent, and put it back once
\* nothing in it belongs elsewhere.  Nothing in the library does this or asks
\* for it (the integration tests do it by hand), but PostgreSQL lets a
\* default and a partition share a range in no other way.
DetachDefault ==
    /\ OperatorDetaches /\ attached
    /\ \E s \in Used : GroupKey(heap[s]) \in Provisioned
    /\ attached' = FALSE
    /\ UNCHANGED <<heap, children, placed, live, drain, rewrites, faults>>

AttachDefault ==
    /\ ~attached
    /\ \A s \in Used : GroupKey(heap[s]) \notin Provisioned
    /\ attached' = TRUE
    /\ UNCHANGED <<heap, children, placed, live, drain, rewrites, faults>>

-----------------------------------------------------------------------------
Call == \E f \in Filters, n \in Limits : PartitionData(f, n)

DrainStep ==
    \/ ReadBatch \/ AppendNullAnomalies
    \/ \E g \in drain.groups : RecordAnomaly(g) \/ MoveGroup(g) \/ MoveRejected(g)

Operator == DetachDefault \/ AttachDefault

Next ==
    \/ Call \/ DrainStep \/ DrainFault \/ Operator
    \/ \E r \in Rows : ClientInsert(r)
    \/ \E s \in Slots : ClientRewrite(s)
    \/ \E k \in Provisioned : Provision(k)

Spec == Init /\ [][Next]_vars

\* The statements of a call follow each other and the drain is run again and
\* again.  The operator, clients and maintenance need not do anything.
FairSpec == Spec /\ WF_vars(DrainStep) /\ WF_vars(Call)

\* Maintenance is run again and again as well.
MaintainedSpec == FairSpec /\ \A k \in Provisioned : WF_vars(Provision(k))

-----------------------------------------------------------------------------
(* Properties *)

\* An unlimited drain returns without an error in this step.
Returns == drain.step # "ok" /\ drain'.step = "ok" /\ drain.limit = 0

Copies(r) == placed[r] + Cardinality({s \in Slots : heap[s] = r})

\* The default and the bounded partitions together hold every row exactly
\* once, and none that was deleted, at every step of a drain: when it is
\* cancelled, when the reply to a commit is lost, and when clients rewrite
\* rows between the read and the move (drain.go moveGroup, sql.go
\* buildMoveCTE).
RowsConserved ==
    \A r \in Rows : Copies(r) = IF r \in live THEN 1 ELSE 0

\* PartitionData returns: the rows it cannot place are not read again and
\* again (sql.go buildReadBatch).
DrainTerminates == Running ~> ~Running

\* What stays behind is in the report: when an unlimited drain returns
\* without an error, each row left in the default that the caller asked for
\* has a missing target or a NULL control column on record (drain.go
\* PartitionData).
LeftIsReported ==
    [][Returns =>
          /\ \A s \in Dated : drain.anomalies[GroupKey(heap[s])] > 0
          /\ \A s \in InScope \ Dated : TenantOf[heap[s]] \in drain'.nulls]_vars

\* A drain that is run again finishes what earlier ones left: a row in the
\* default whose partition exists leaves it, although clients lock and
\* rewrite rows, a ctid may hold another row by the time of the move, and
\* calls fail or are cut off between two moves (drain.go PartitionData,
\* sql.go buildReadBatch).
RerunDelivers ==
    \A s \in Slots, k \in Provisioned :
        (s \in Used /\ GroupKey(heap[s]) = k /\ k \in children)
            ~> ~(s \in Used /\ GroupKey(heap[s]) = k)

\* Provisioning and draining alone, without an operator who detaches the
\* default, empty it: a row in it whose range EnsurePartitions is asked for
\* reaches its partition.
DrainEmpties ==
    \A s \in Slots, k \in Provisioned :
        (s \in Used /\ GroupKey(heap[s]) = k)
            ~> ~(s \in Used /\ GroupKey(heap[s]) = k)

\* The report counts the rows left in the default for each missing target.
AnomalyCountsLeft ==
    [][Returns => \A k \in Anomalous :
          drain.anomalies[k] = Cardinality({s \in Used : GroupKey(heap[s]) = k})]_vars

\* The DELETE by ctid is safe: without a fault a drain does not fail.
FailsOnlyOnFault == faults = 0 => drain.step # "err"
=============================================================================
