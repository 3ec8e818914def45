------------------------------ MODULE Catalog ------------------------------
(***************************************************************************)
(* What gopartman keeps in PostgreSQL for one parent table: the metadata   *)
(* rows of the partman schema (schema.sql, internal/{parents,tenants,      *)
(* partitions}/queries.sql) and, next to them, the child tables themselves *)
(* as pg_class and pg_inherits know them.  The modules above this one call *)
(* its operators; every operator is one SQL statement.                     *)
(*                                                                         *)
(* Time is counted in partition intervals: period p is the half-open range *)
(* [p, p+1), and the current period at time now is period now.  Tenants    *)
(* are identifiers in capitals; what names do to other ones is the subject *)
(* of modules Naming and Importer.                                         *)
(***************************************************************************)
EXTENDS Integers, FiniteSets

CONSTANTS
    Callers,             \* goroutines that call the Registry
    Maintainers,         \* goroutines that run maintenance passes
    Tenants,             \* tenant identifiers
    NoTenant,            \* SQL NULL in a tenant_id column
    HasTenantColumn,     \* parent_tables.tenant_column is set
    HasRetentionSchema,  \* parent_tables.retention_schema is set
    Premake,             \* parent_tables.premake; RegisterParent turns 0 into 4
    Retention,           \* parent_tables.retention_period, in periods
    PeriodsPerName,      \* periods that share one YYYYMMDD table name suffix
    StrayPeriods,        \* periods for which clients write unexpected rows
    MaxNow,              \* bound: the clock stops here
    MaxEpoch             \* bound: registrations of the parent and of tenants

ASSUME CatalogAssumption ==
    /\ Callers \cap Maintainers = {}
    /\ HasTenantColumn \in BOOLEAN /\ HasRetentionSchema \in BOOLEAN
    /\ NoTenant \notin Tenants
    /\ Premake \in Nat \ {0} /\ Retention \in Nat
    /\ PeriodsPerName \in Nat \ {0}
    /\ MaxNow \in Nat /\ MaxEpoch \in Nat
    /\ StrayPeriods \subseteq Nat

Workers == Callers \cup Maintainers

VARIABLES
    now,      \* the clock every replica reads (clock.go)
    epoch,    \* rows inserted into parent_tables and tenants so far
    parent,   \* id of the parent's metadata row, 0 when not registered
    tenants,  \* partman.tenants rows of that parent
    parts,    \* partman.partitions, by name
    tables,   \* child tables in the parent's schema, by name
    archive,  \* child tables moved to the retention schema
    stray     \* (tenant, period) pairs that have rows in the default table

catalogVars == <<now, epoch, parent, tenants, parts, tables, archive, stray>>

-----------------------------------------------------------------------------
(* Names, ranges and rows *)

\* floorUTC and nextUTC: consecutive periods, without gap or overlap.
Period == 0 .. (MaxNow + Premake)
TenantKeys == IF HasTenantColumn THEN Tenants ELSE {NoTenant}

\* naming.TableName.Build: the suffix is the date of the lower bound, so
\* all the hours of one day share a name.
Build(t, p) == <<t, p \div PeriodsPerName>>
DefaultName == <<NoTenant, -1>>

BoundedNames == {Build(t, p) : t \in TenantKeys, p \in Period}
Names == BoundedNames \cup {DefaultName}

NoRow   == [id |-> 0, period |-> 0, status |-> "none"]
NoTable == [at |-> "none", period |-> 0]

Rows   == [id : Nat, period : Nat, status : {"none", "active", "detached", "dropped"}]
TablesOf == [at : {"none", "attached", "standalone"}, period : Nat]

Attached(n) == tables[n].at = "attached"
\* The range of (t, p) has a bounded child of the parent.
Covered(t, p) == \E n \in Names : /\ n # DefaultName /\ n[1] = t
                                  /\ Attached(n) /\ tables[n].period = p

TypeOKCatalog ==
    /\ now \in 0 .. MaxNow
    /\ epoch \in Nat
    /\ parent \in 0 .. epoch
    /\ tenants \subseteq Tenants
    /\ parts \in [Names -> Rows]
    /\ tables \in [Names -> TablesOf]
    /\ archive \subseteq Names
    /\ stray \subseteq TenantKeys \X Nat

InitCatalog ==
    /\ now = 0 /\ epoch = 0
    /\ parent = 0 /\ tenants = {}
    /\ parts = [n \in Names |-> NoRow]
    /\ tables = [n \in Names |-> NoTable]
    /\ archive = {} /\ stray = {}

-----------------------------------------------------------------------------
(* Queries *)

\* internal/partitions: ListPartitionsForParent, every status, the default too.
ListPartitionsForParent(pid) ==
    {n \in Names : pid = parent /\ parts[n].status # "none"}

\* internal/partitions: GetDefaultPartition looks at no status.
DefaultTracked(pid) == pid = parent /\ parts[DefaultName].status # "none"

\* Mutants of Expired: retention counted one period short, or one long.
ExpiredEarly(p, t) == p <= t - Retention
ExpiredLate(p, t) == p + 1 < t - Retention

\* partition_bounds_to <= cutoff, with cutoff = now - retention_period.
Expired(p, t) == p + 1 <= t - Retention

\* internal/partitions: ListExpiredPartitions.
ListExpiredPartitions(pid, at) ==
    {n \in Names : /\ pid = parent /\ n # DefaultName
                   /\ parts[n].status = "active"
                   /\ Expired(parts[n].period, at)}

-----------------------------------------------------------------------------
(* Writes *)

\* Mutant of Mark: the metadata write is forgotten.
MarkForgotten(r, status) == parts

\* UPDATE ... WHERE id = r.id: no row has that id once the row r was read
\* from has been deleted, whatever row took its name since.
Mark(r, status) ==
    IF parts[r.name].status # "none" /\ parts[r.name].id = r.id
      THEN [parts EXCEPT ![r.name].status = status]
      ELSE parts

\* DELETE FROM parent_tables: the foreign keys cascade.
DeleteParentTable ==
    /\ parent' = 0 /\ tenants' = {}
    /\ parts' = [n \in Names |-> NoRow]

\* DELETE FROM tenants WHERE parent_table_id = pid AND id = t.
DeleteTenant(pid, t) ==
    IF pid = parent /\ t \in tenants
      THEN /\ tenants' = tenants \ {t}
           /\ parts' = [n \in Names |-> IF n[1] = t THEN NoRow ELSE parts[n]]
      ELSE UNCHANGED <<tenants, parts>>

-----------------------------------------------------------------------------
(* The environment: time, and clients of the partitioned table *)

\* A client inserts a row for (t, p).  PostgreSQL routes it to the bounded
\* child of its range, else to the default; only the second is recorded.
InsertStray(t, p) ==
    /\ Attached(DefaultName)
    /\ ~Covered(t, p)
    /\ stray' = stray \cup {<<t, p>>}
    /\ UNCHANGED <<now, epoch, parent, tenants, parts, tables, archive>>
=============================================================================
