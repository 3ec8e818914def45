------------------------------ MODULE Importer ------------------------------
(***************************************************************************)
(* Importer.Import (internal/importer): children that PostgreSQL has and   *)
(* the metadata does not are taken into the metadata.                      *)
(*                                                                         *)
(* Import takes no lock and opens no transaction.  It reads the parent,    *)
(* the children, the partition rows and the tenants in four statements,    *)
(* and then writes a tenant or a partition row at a time, from what it     *)
(* read.  Other imports, EnsurePartitions, sweeps and the Registry run in  *)
(* between; each of those is one step here, as its transaction is.         *)
(*                                                                         *)
(* Time is counted in days, so that a parent may be registered with one    *)
(* interval or another.                                                    *)
(***************************************************************************)
EXTENDS Naming, FiniteSets, FiniteSetsExt

CONSTANTS
    Importers,        \* goroutines that call Import
    ParentName,       \* the parent's table name
    TenantIds,        \* tenants that are registered by callers
    HasTenantColumn,
    Lengths,          \* days of the intervals the parent may be registered with
    Adopted,          \* children there before, as [name, bound]
    Offsets,          \* how PostgreSQL prints the UTC offset of a bound
    Premake, Retention,
    Detaches,         \* hooks may have sweeps detach a partition
    RemovalsAnytime,  \* tenants and parents are removed also during imports
    MaxDay,           \* bound: the clock stops here
    MaxEpoch          \* bound: registrations of the parent

ASSUME ImporterAssumption ==
    /\ ParentName \in Seq(Segments) /\ TenantIds \subseteq Seq(Segments) \ {NoTenant}
    /\ {HasTenantColumn, Detaches, RemovalsAnytime} \subseteq BOOLEAN
    /\ Offsets \in {"hours", "minutes", "none"}
    /\ Lengths \subseteq Nat \ {0} /\ Lengths # {}
    /\ {Premake, Retention, MaxDay, MaxEpoch} \subseteq Nat

VARIABLES
    day,      \* today
    epoch,    \* registrations of the parent so far
    parent,   \* its row: id, 0 when there is none, and interval
    tenants,  \* partman.tenants
    rows,     \* partman.partitions, by name
    tables,   \* tables, by name, with their partition bounds
    imp,      \* the call each importer is in
    settled   \* an import found nobody else writing, and nothing was written since

dbVars == <<day, epoch, parent, tenants, rows, tables>>
vars == <<dbVars, imp, settled>>

-----------------------------------------------------------------------------
(* Names, bounds, rows *)

\* Tenants that callers or imports may register.
TenantKeys ==
    IF HasTenantColumn
      THEN LET ids == TenantIds \cup {a.bound.tenant : a \in Adopted} IN
           (TenantIds \cup {Upper(t) : t \in ids}) \ {NoTenant}
      ELSE {NoTenant}
MaxFrom == MaxDay + Premake * Max(Lengths)

DefaultName == Build(ParentName, NoTenant, Default)
Names == {a.name : a \in Adopted} \cup {DefaultName}
         \cup {Build(ParentName, t, f) : t \in TenantKeys, f \in 0 .. MaxFrom}

RangeBound(t, f, len) == [kind |-> "range", tenant |-> t, from |-> f, to |-> f + len]
DefaultBound == [kind |-> "default", tenant |-> NoTenant, from |-> 0, to |-> 0]
\* A bound that parseBoundExpr does not know, as MINVALUE or three columns.
OddBound == [DefaultBound EXCEPT !.kind = "odd"]

NoRow == [status |-> "none", bound |-> DefaultBound]
NoTable == [at |-> "none", bound |-> DefaultBound]
Row(b) == [status |-> "active", bound |-> b]
Table(b) == [at |-> "attached", bound |-> b]

Attached(n) == tables[n].at = "attached"
Tracked == {n \in Names : rows[n].status # "none"}

BoundsOf(kinds) == [kind : kinds, tenant : Seq(Segments), from : Nat, to : Nat]
Bounds == BoundsOf({"range", "default", "odd"})
RowsOf == [status : {"none", "active", "detached", "dropped"}, bound : BoundsOf({"range", "default"})]
TablesOf == [at : {"none", "attached", "standalone"}, bound : Bounds]
ChildrenOf == [name : Names, bound : Bounds]

ASSUME AdoptedAssumption == \A a \in Adopted : a.bound \in Bounds

\* Intervals in which EnsurePartitions is asked to have partitions.
Required == {(day \div parent.len + i) * parent.len : i \in 0 .. Premake}

-----------------------------------------------------------------------------
(* The call *)

NoReport == [imported |-> {}, drifted |-> {}, skipped |-> {}, orphaned |-> {}]

NoImport == [step |-> "idle", pid |-> 0, len |-> 0, children |-> {}, existing |-> {},
             known |-> {}, todo |-> {}, report |-> NoReport, alone |-> TRUE]

Reports == [imported : SUBSET Names, drifted : SUBSET Names,
            skipped : SUBSET Names, orphaned : SUBSET Names]

Imports == [step : {"idle", "children", "existing", "tenants", "child"},
            pid : Nat, len : Nat, children : SUBSET ChildrenOf, existing : SUBSET Names,
            known : SUBSET Seq(Segments), todo : SUBSET ChildrenOf, report : Reports,
            alone : BOOLEAN]

TypeOK ==
    /\ day \in 0 .. MaxDay /\ epoch \in 0 .. MaxEpoch
    /\ parent \in [id : 0 .. epoch, len : Lengths]
    /\ tenants \subseteq Seq(Segments) \ {NoTenant}
    /\ rows \in [Names -> RowsOf] /\ tables \in [Names -> TablesOf]
    /\ imp \in [Importers -> Imports]
    /\ \A w \in Importers : imp[w].todo \subseteq imp[w].children
    /\ settled \in BOOLEAN

Init ==
    /\ day = 0 /\ epoch = 0
    /\ parent = [id |-> 0, len |-> Min(Lengths)]
    /\ tenants = {}
    /\ rows = [n \in Names |-> NoRow]
    /\ tables = [n \in Names |-> IF \E a \in Adopted : a.name = n
                                   THEN Table((CHOOSE a \in Adopted : a.name = n).bound)
                                   ELSE NoTable]
    /\ imp = [w \in Importers |-> NoImport]
    /\ settled = FALSE

Importing(w) == imp[w].step # "idle"

\* Everyone but w learns that the database has been written.
Disturbs(w) == [v \in Importers |-> IF v # w /\ Importing(v)
                                      THEN [imp[v] EXCEPT !.alone = FALSE] ELSE imp[v]]
Goto(w, s) == imp' = [imp EXCEPT ![w].step = s]
Fails(w) == imp' = [imp EXCEPT ![w] = NoImport]
ReadOnly == UNCHANGED <<dbVars, settled>>

-----------------------------------------------------------------------------
(* What is compared *)

\* parsePGTimestamp reads 2026-01-01 00:00:00+00, and neither the +05:30 of
\* a session in such a zone nor a date or timestamp without an offset.
Readable(b) == b.kind = "default" \/ (b.kind = "range" /\ Offsets = "hours")

\* parseBoundExpr: the tenant of a bound is upper-cased.
ParseBound(b) == [b EXCEPT !.tenant = Upper(@)]

\* Mutant of IntervalMatches: a longer period passes.
IntervalMatchesLonger(len, b) == b.to - b.from >= len

\* intervalMatches
IntervalMatches(len, b) == b.to - b.from = len

\* Mutant of Aligned: the tenant of the bound is compared as it is stored.
AlignedExactCase(c) ==
    LET name == Parse(c.name)  bound == c.bound IN
    \/ name.suffix = Default /\ bound.kind = "default"
    \/ /\ name.suffix # Default /\ bound.kind = "range"
       /\ Upper(name.tenant) = bound.tenant
       /\ name.suffix = bound.from

\* compareNameAndBound: the name says what the bound says.
Aligned(c) ==
    LET name == Parse(c.name)  bound == ParseBound(c.bound) IN
    \/ name.suffix = Default /\ bound.kind = "default"
    \/ /\ name.suffix # Default /\ bound.kind = "range"
       /\ Upper(name.tenant) = bound.tenant
       /\ name.suffix = bound.from

Skips(c) == ~Parses(c.name) \/ ~Readable(c.bound)
Drifts(c) == ~Skips(c) /\ ~Aligned(c)
Accepts(c) == ~Skips(c) /\ Aligned(c)

\* Uniqueness of the name, of tenant and bounds unless the tenant is NULL,
\* and of the default.
Conflicts(n, b) ==
    \/ n \in Tracked
    \/ \E m \in Tracked : /\ rows[m].bound = b
                          /\ b.kind = "default" \/ b.tenant # NoTenant

\* Mutant of UpsertPartition: the conflicting row is brought back.
UpsertPartitionReviving(n, b) ==
    IF n \in Tracked THEN [rows EXCEPT ![n].status = "active"]
    ELSE IF Conflicts(n, b) THEN rows ELSE [rows EXCEPT ![n] = Row(b)]

\* INSERT ... ON CONFLICT DO NOTHING
UpsertPartition(n, b) == IF Conflicts(n, b) THEN rows ELSE [rows EXCEPT ![n] = Row(b)]

\* The trigger and the foreign keys: a tenant that is gone refuses every
\* row, a parent that is gone those that would be inserted.
Refuses(pid, n, b) ==
    \/ b.tenant # NoTenant /\ (pid # parent.id \/ b.tenant \notin tenants)
    \/ pid # parent.id /\ ~Conflicts(n, b)

-----------------------------------------------------------------------------
(* Statements of Import *)

\* GetParentTable; an absent parent is ErrParentNotFound.
Import(w) ==
    /\ ~Importing(w) /\ parent.id # 0
    /\ imp' = [imp EXCEPT ![w] = [NoImport EXCEPT !.step = "children", !.pid = parent.id,
                                    !.len = parent.len]]
    /\ ReadOnly

Children == {[name |-> n, bound |-> tables[n].bound] : n \in {m \in Names : Attached(m)}}

\* listChildrenFromPG, and the pre-flight: ErrIntervalMismatch before any write.
ListChildren(w) ==
    /\ imp[w].step = "children"
    /\ IF \E c \in Children : /\ Readable(c.bound) /\ c.bound.kind = "range"
                             /\ ~IntervalMatches(imp[w].len, c.bound)
         THEN Fails(w)
         ELSE imp' = [imp EXCEPT ![w] = [@ EXCEPT !.step = "existing", !.children = Children,
                                                  !.todo = Children]]
    /\ ReadOnly

\* ListPartitionsForParent: rows of every status.
ListExisting(w) ==
    /\ imp[w].step = "existing"
    /\ imp' = [imp EXCEPT ![w] = [@ EXCEPT !.step = "tenants",
                 !.existing = IF imp[w].pid = parent.id THEN Tracked ELSE {}]]
    /\ ReadOnly

LoadKnownTenants(w) ==
    /\ imp[w].step = "tenants"
    /\ imp' = [imp EXCEPT ![w] = [@ EXCEPT !.step = "child",
                 !.known = IF imp[w].pid = parent.id THEN tenants ELSE {}]]
    /\ ReadOnly

\* The loop over the children, in one order for all imports.
NextChild(w, c) == imp[w].step = "child" /\ c = CHOOSE d \in imp[w].todo : TRUE
TenantKnown(w, c) == Upper(c.bound.tenant) \in imp[w].known \cup {NoTenant}
\* Mutant of Recorded: the child is taken from those that were seen.
RecordedUnseen(call, f, c) ==
    [call EXCEPT !.children = @ \ {c}, !.report[f] = @ \cup {c.name}]

\* The call after child c, recorded in field f of the report.
Recorded(call, f, c) == [call EXCEPT !.todo = @ \ {c}, !.report[f] = @ \cup {c.name}]

\* Mutant of SkipChild: the loop ends at a child that is skipped.
SkipChildBreaks(w, c) ==
    /\ NextChild(w, c) /\ Skips(c)
    /\ imp' = [imp EXCEPT ![w] = [Recorded(@, "skipped", c) EXCEPT !.todo = {}]]
    /\ ReadOnly

SkipChild(w, c) ==
    /\ NextChild(w, c) /\ Skips(c)
    /\ imp' = [imp EXCEPT ![w] = Recorded(@, "skipped", c)]
    /\ ReadOnly

DriftChild(w, c) ==
    /\ NextChild(w, c) /\ Drifts(c)
    /\ imp' = [imp EXCEPT ![w] = Recorded(@, "drifted", c)]
    /\ ReadOnly

\* UpsertTenant for a tenant that was not listed; an error ends the import.
RegisterBoundTenant(w, c) ==
    /\ NextChild(w, c) /\ Accepts(c) /\ ~TenantKnown(w, c)
    /\ IF imp[w].pid = parent.id
         THEN /\ tenants' = tenants \cup {Upper(c.bound.tenant)}
              /\ imp' = [Disturbs(w) EXCEPT ![w].known = @ \cup {Upper(c.bound.tenant)}]
         ELSE Fails(w) /\ UNCHANGED tenants
    /\ settled' = FALSE
    /\ UNCHANGED <<day, epoch, parent, rows, tables>>

\* Mutant of AlreadyTracked: the metadata that was read is not consulted.
AlreadyTrackedNever(w, c) == FALSE

AlreadyTracked(w, c) == c.name \in imp[w].existing

KeepChild(w, c) ==
    /\ NextChild(w, c) /\ Accepts(c) /\ TenantKnown(w, c) /\ AlreadyTracked(w, c)
    /\ imp' = [imp EXCEPT ![w].todo = @ \ {c}]
    /\ ReadOnly

\* insertMetadata; the child counts as imported also when the insert met a
\* conflict.
InsertMetadata(w, c) ==
    LET b == ParseBound(c.bound) IN
    /\ NextChild(w, c) /\ Accepts(c) /\ TenantKnown(w, c) /\ ~AlreadyTracked(w, c)
    /\ IF Refuses(imp[w].pid, c.name, b)
         THEN Fails(w) /\ UNCHANGED rows
         ELSE /\ rows' = UpsertPartition(c.name, b)
              /\ imp' = [Disturbs(w) EXCEPT ![w] = Recorded(@, "imported", c)]
    /\ settled' = FALSE
    /\ UNCHANGED <<day, epoch, parent, tenants, tables>>

\* Rows that were read and whose names were not among the children.
Orphans(w) == imp[w].existing \ {c.name : c \in imp[w].children}
Report(w) == [imp[w].report EXCEPT !.orphaned = Orphans(w)]

Finish(w) ==
    /\ imp[w].step = "child" /\ imp[w].todo = {}
    /\ imp' = [imp EXCEPT ![w] = NoImport]
    /\ settled' = (settled \/ imp[w].alone)
    /\ UNCHANGED dbVars

\* A statement fails; what was written before stays.
ImportFault(w) ==
    /\ Importing(w) /\ (imp[w].step = "child" => imp[w].todo # {})
    /\ Fails(w) /\ ReadOnly

-----------------------------------------------------------------------------
(* The rest of the library.  Each transaction is one step; the call of     *)
(* EnsurePartitions with which a registration ends is a step of its own.   *)

Undisturbed == \A w \in Importers : ~Importing(w)
\* The database has been written by someone who does not import.
Written == /\ imp' = [w \in Importers |-> IF Importing(w) THEN [imp[w] EXCEPT !.alone = FALSE]
                                          ELSE imp[w]]
           /\ settled' = FALSE

\* The parent may be registered with another interval than before.
RegisterParent(len) ==
    /\ parent.id = 0 /\ epoch < MaxEpoch
    /\ epoch' = epoch + 1 /\ parent' = [id |-> epoch + 1, len |-> len]
    /\ Written
    /\ UNCHANGED <<day, tenants, rows, tables>>

\* Without cascade: the rows go, the tables stay attached.
RemoveParent ==
    /\ parent.id # 0 /\ (RemovalsAnytime \/ Undisturbed)
    /\ parent' = [parent EXCEPT !.id = 0]
    /\ tenants' = {} /\ rows' = [n \in Names |-> NoRow]
    /\ Written
    /\ UNCHANGED <<day, epoch, tables>>

RegisterTenant(t) ==
    /\ HasTenantColumn /\ parent.id # 0 /\ t \notin tenants
    /\ tenants' = tenants \cup {t}
    /\ Written
    /\ UNCHANGED <<day, epoch, parent, rows, tables>>

RemoveTenant(t) ==
    /\ t \in tenants /\ (RemovalsAnytime \/ Undisturbed)
    /\ tenants' = tenants \ {t}
    /\ rows' = [n \in Names |-> IF rows[n].bound.tenant = t THEN NoRow ELSE rows[n]]
    /\ Written
    /\ UNCHANGED <<day, epoch, parent, tables>>

\* buildExistingSet and createInTx of module Provisioner.
Missing(t) == {f \in Required : \A n \in Names :
                  ~(rows[n].status = "active" /\ rows[n].bound = RangeBound(t, f, parent.len))}
Overlaps(b) == \E n \in Names :
    /\ Attached(n) /\ tables[n].bound.kind = "range" /\ tables[n].bound.tenant = b.tenant
    /\ tables[n].bound.from < b.to /\ b.from < tables[n].bound.to

EnsurePartitions(t) ==
    LET made == [n \in {Build(ParentName, t, f) : f \in Missing(t)} |->
                   RangeBound(t, n.suffix, parent.len)]
        needDefault == \A n \in Tracked : rows[n].bound.kind # "default"
        wanted == [n \in Names |-> IF n \in DOMAIN made THEN made[n] ELSE DefaultBound]
        fresh == DOMAIN made \cup (IF needDefault THEN {DefaultName} ELSE {})
    IN
    /\ parent.id # 0 /\ (HasTenantColumn => t \in tenants)
    /\ fresh # {}
    /\ \A n \in DOMAIN made : tables[n].at # "none" \/ ~Overlaps(made[n])
    /\ DefaultName \in fresh /\ tables[DefaultName].at = "none" =>
          \A n \in Names : ~(Attached(n) /\ tables[n].bound.kind = "default")
    /\ tables' = [n \in Names |-> IF n \in fresh /\ tables[n].at = "none"
                                    THEN Table(wanted[n]) ELSE tables[n]]
    /\ rows' = [n \in Names |-> IF n \in fresh /\ ~Conflicts(n, wanted[n])
                                  THEN Row(wanted[n]) ELSE rows[n]]
    /\ Written
    /\ UNCHANGED <<day, epoch, parent, tenants>>

\* One candidate of a sweep: the table goes, or leaves the parent.
Sweep(n, detach) ==
    /\ parent.id # 0 /\ rows[n].status = "active" /\ rows[n].bound.kind = "range"
    /\ rows[n].bound.to <= day - Retention
    /\ IF detach THEN Attached(n) ELSE tables[n].at # "none"
    /\ tables' = [tables EXCEPT ![n] = IF detach THEN [@ EXCEPT !.at = "standalone"] ELSE NoTable]
    /\ rows' = [rows EXCEPT ![n].status = IF detach THEN "detached" ELSE "dropped"]
    /\ Written
    /\ UNCHANGED <<day, epoch, parent, tenants>>

NextDay ==
    /\ day < MaxDay /\ day' = day + 1
    /\ UNCHANGED <<epoch, parent, tenants, rows, tables, imp, settled>>

-----------------------------------------------------------------------------
ChildStep(w, c) ==
    \/ SkipChild(w, c) \/ DriftChild(w, c) \/ RegisterBoundTenant(w, c)
    \/ KeepChild(w, c) \/ InsertMetadata(w, c)

ImportStep(w) ==
    \/ Import(w) \/ ListChildren(w) \/ ListExisting(w) \/ LoadKnownTenants(w)
    \/ \E c \in imp[w].todo : ChildStep(w, c)
    \/ Finish(w)

Others ==
    \/ \E len \in Lengths : RegisterParent(len)
    \/ RemoveParent \/ NextDay
    \/ \E t \in TenantIds : RegisterTenant(t)
    \/ \E t \in tenants : RemoveTenant(t)
    \/ \E t \in TenantKeys : EnsurePartitions(t)
    \/ \E n \in Names, detach \in {FALSE, Detaches} : Sweep(n, detach)

Next == Others \/ \E w \in Importers : ImportStep(w) \/ ImportFault(w)

Spec == Init /\ [][Next]_vars

-----------------------------------------------------------------------------
(* Properties *)

\* Import w returns its report in this step.
Returns(w) == imp[w].step = "child" /\ imp[w].todo = {} /\ ~imp'[w].step = "child"

\* However old the list of children an import works from, its row is true:
\* an active row has its table attached and says where its range begins,
\* and what a sweep has dropped or detached since is not brought back
\* (importer.go insertMetadata, UpsertPartition).
ActiveIsAttached ==
    \A n \in Names : rows[n].status = "active" =>
        /\ Attached(n)
        /\ tables[n].bound.from = rows[n].bound.from
        /\ Upper(tables[n].bound.tenant) = Upper(rows[n].bound.tenant)

\* A row has the bounds of its table, also after the parent has been
\* registered again with another interval (registry.go RegisterParent).
BoundsAgree ==
    \A n \in Names : rows[n].status = "active" => rows[n].bound.to = tables[n].bound.to

\* The metadata of a parent never mixes intervals, also when the parent is
\* registered again with another one while children of the first are still
\* attached (importer.go, the pre-flight; importer/interval.go).
RowsFitInterval ==
    \A n \in Tracked : rows[n].bound.kind = "range" =>
        rows[n].bound.to - rows[n].bound.from = parent.len

\* N children give N rows: when Import returns, each child it listed that is
\* still there has a row, or is reported as drifted or skipped.
ImportCovers ==
    [][\A w \in Importers : Returns(w) =>
          \A c \in imp[w].children :
             Attached(c.name) /\ tables[c.name].bound = c.bound =>
                c.name \in Tracked \cup imp[w].report.drifted \cup imp[w].report.skipped]_vars

\* Calling Import twice: the second import of an unchanged database writes
\* nothing and imports nothing, and what an undisturbed import reports as
\* drifted, skipped and orphaned is what the database holds.
ImportIsIdempotent ==
    [][\A w \in Importers : imp[w].alone /\ Importing(w) /\ imp'[w] # imp[w] =>
          /\ settled => imp'[w].report.imported \subseteq imp[w].report.imported
          /\ Returns(w) =>
               /\ Report(w).drifted = {c.name : c \in {d \in Children : Drifts(d)}}
               /\ Report(w).skipped = {c.name : c \in {d \in Children : Skips(d)}}
               /\ Report(w).orphaned = {n \in Tracked : ~Attached(n)}]_vars

\* Parse reads what Build wrote: no child that has the name EnsurePartitions
\* gives to its bound is reported as drifted or skipped.
OwnIsRecognised ==
    [][\A w \in Importers : Returns(w) =>
          \A c \in imp[w].children :
             c.bound.kind = "range" /\ c.name = Build(ParentName, c.bound.tenant, c.bound.from) =>
                c.name \notin imp[w].report.drifted \cup imp[w].report.skipped]_vars

\* What Import reports as orphaned has no table attached to the parent.
OrphansAreGone ==
    [][\A w \in Importers : Returns(w) => \A n \in Orphans(w) : ~Attached(n)]_vars

\* Once EnsurePartitions has succeeded for a tenant, every period it was
\* asked for has a partition with that tenant's bounds.
TenantIsServed ==
    [][\A t \in TenantKeys :
          EnsurePartitions(t) => \A f \in Required : \E n \in Names :
             tables'[n] = Table(RangeBound(t, f, parent.len))]_vars
=============================================================================
