# gopartman: TLA+ models and proofs

gopartman is a Go library that keeps the child tables of range-partitioned
PostgreSQL tables in step with the clock: it creates the partitions of the
current and the next few periods, takes away those past their retention, and
moves rows that landed in the default partition. Its state is in PostgreSQL:
metadata rows in schema `partman`, and the tables themselves. Several replicas
of an application embed the library and share that state.

This directory holds TLA+ models of the library, TLC runs on small instances,
and TLAPS proofs. `PROJECT.json` maps every definition to the lines it models.

## The system

| Part | State | Operations | Module |
|---|---|---|---|
| Metadata schema (`schema.sql`, `internal/{parents,tenants,partitions}`) | rows for parents, tenants, partitions | one operator per SQL statement | `Catalog` |
| Provisioner (`internal/provisioner`) | none of its own | `EnsurePartitions` | `Provisioner` |
| Retention (`internal/retention`) | none | `Sweep`, `DropAll` | `Retention` |
| Registry (`internal/registry`) | none | `RegisterParent`, `RegisterTenant`, `RemoveParent`, `RemoveTenant`, `ListTenants` | `Partman` |
| Maintainer (`internal/maintainer/maintainer.go`) | advisory lock per parent | `Maintain`: a pass over all parents | `Maintainer`; one parent's turn in detail in `Partman` |
| Scheduler (`internal/maintainer/scheduler.go`) | `running`, `done`, `wg` | `Start`, `Stop`, the loop | `Scheduler` |
| Advisory lock (`internal/maintainer/advisory_lock.go`) | locks of pooled sessions | `TryLock`, `release` | `AdvisoryLock`; the promise in `AbstractLock` |
| Drain (`internal/drain`) | anomalies of one call | `PartitionData` | `Drain` |
| Importer (`internal/importer`) | none | `Import` | `Importer` |
| Naming (`internal/naming`) | none | `Build`, `Parse` | `Naming` |
| Bounds (`internal/provisioner/bounds.go`, `internal/importer/interval.go`) | none | `floorUTC`, `nextUTC`, `BoundsFor`, `NextBoundsUTC`, `intervalMatches` | `Calendar` |
| Retry (`internal/retry`) | attempts of one call | `Do` | `Maintainer`; a lost reply and its retry in `Provisioner`, `Retention` |
| Manager facade (`manager.go`) | wiring | `ImportExisting` | the report in `Importer`; the rest forwards |
| Options, migrations, metrics | none | | not modelled |

How they interact. A replica's scheduler calls `Maintain` on every tick, each
time with the context that `Start` was given; it does not notice when that ends.
`Maintain` takes the parent's advisory lock on a session of its own, calls
`EnsurePartitions` (per tenant, when the parent has a tenant column), then
`Sweep`, each on other connections. Callers of the Registry run
`EnsurePartitions` and `DropAll` without that lock. `PartitionData` takes the
lock and works on the locked session. `ImportExisting` takes no lock: it
compares the children PostgreSQL lists with the metadata and inserts row by
row what is missing. Nothing else orders the components:
each reads, decides, and then writes in a transaction of its own.

What is hard: decisions made from older reads; names and ids that mean another
row by the time they are used; transactions that commit without the caller
learning of it; locks that belong to sessions while work belongs to goroutines;
goroutines left behind by a `Stop` that timed out; loops that go on after their
context has ended; PostgreSQL's rules about the
default partition; names that do not give back what was put into them; the
calendar. `PROJECT.json` lists these hazards with their lines.

## The modules

**Catalog** is one parent's part of the database. Time is counted in partition
intervals; period `p` is `[p, p+1)`. A table name is the pair of a tenant and
`p \div PeriodsPerName`: the code puts only the date of the lower bound into a
name, so `PeriodsPerName` is 1 for daily and longer intervals and 24 for hourly
ones. `parts` is the metadata, by name (the column is unique), `tables` the
tables, `archive` the retention schema, `stray` the ranges of which the default
has rows. Row ids are ULIDs in the code; `id` is the count of registrations at
the time of the insert, which tells a row from the one it replaced.

**Provisioner** and **Retention** are calls in progress, `ens[w]` and `swp[w]`
for worker `w`, with one action per round trip. `createInTx`, `applyDecision`
and `dropOne` are each one atomic step, because each is one transaction; the
variant with `replyLost` commits and is run again.

**Partman** composes them. `job[w]` is the Registry operation or maintenance
pass of worker `w`, `lock` the worker whose session has the advisory lock.
Faults, bounded by `MaxFaults`: a failed round trip, a lost reply, a lost lock
session, a crash or panic.

**Scheduler** follows `scheduler.go` line by line: a mutex section is a step,
channels and loops are numbered by the start that made them, and a loop reads
`s.done` in a step of its own. `sync.WaitGroup` is modelled with the window
between the wake-up of `Wait` and its check of the counter.

**AdvisoryLock** has connections that hold locks, workers that hold
connections, and a pool per replica. A cancelled context keeps the unlock query
from being sent; a lost session loses its locks while its owner works on.

**Drain** has the default table as a map from ctids to rows. Clients insert,
update (a new ctid), delete and lock rows between the statements of the drain.
`SqlTenant` is the conversion of `sqlTenantArg` and `pgTenantID`, which maps
the empty string to NULL. `MCDrain` gives rows their tenants and periods.

**AbstractLock** is what callers of `TryLock` rely on: a worker enters a parent
nobody is inside of, and leaves it. `AdvisoryLock` implements it
(`LockPromise`); a worker whose session is lost has left, although it works on,
and that is the one promise the code does not keep (`AdvisoryLockLost`).

**Maintainer** is the loop over all parents, above the lock and the work. It
takes the lock through `AbstractLock`. A maintainer is the loop of one `Start`,
with the one context that every tick of it uses; `ended` are those whose context
is over, which is for good: the pass in hand leaves its lock behind in the
replica's pool (`leaked`), and every later pass of that loop fails at
`ListParents`. On a lock that was left behind other loops of that pool may get
in (`poolOf`), those of other pools may not, until the pool closes the
connection. A later `Start` in the same process is another loop of the same pool.
Nobody stops the loops here; that is in `Scheduler`. The work of a parent succeeds, fails for good,
fails with a transient error and is retried (`retry.Do`), or panics in a hook;
what it does to the database is in `Partman`. `due` are the parents that have
not had a full turn since time last gave them work.

**Naming** reads a table name as segments between underscores and a suffix, so
that `Parse` can mistake a segment of the parent or of the tenant, as the code
can. **Importer** follows `Import` statement by statement: the parent, the
children (with the pre-flight on the interval), the rows, the tenants, and then
one insert at a time. Its database is one parent whose interval, in days, may
be another after each registration. The rest of the library acts in between,
one transaction at a time. `alone` and `settled` are history: whether anybody
wrote during an import, and since the last undisturbed one. `MCImporter` has
the identifiers and the children that were there before gopartman.

**Calendar** puts `bounds.go`, `intervalMatches` and the date of a name next to
a clock that never computes: it carries from hour to day, weekday, month and
year and remembers when each period began. The functions of Go's `time` package
are written out as the code uses them. `MCCalendar` has the dates to start from.

**PartmanProofs**, **EnsureProofs**, **SchedulerProofs**, **AdvisoryLockProofs**,
**MaintainerProofs**, **DrainProofs**, **ImporterProofs** and **CalendarProofs**
hold the theorems, each about the module it is named after; `EnsureProofs`
continues `PartmanProofs` with `EnsurePartitions`.

## The runs

| Run | What it shows |
|---|---|
| `PartmanTenants`, `PartmanLive` | metadata and tables agree (`MetadataAgrees`), a sweep takes only what is overdue (`SweepSparesLive`), `EnsurePartitions` delivers what it reports (`EnsureDelivers`), with removals, re-registrations, faults and rows in the default, with and without tenants; under fairness, passes provision the current period (`MaintenanceKeepsUp`) and take away what has expired (`RetentionCatchesUp`) |
| `PartmanCascade` | with two replicas, overlapping passes and a cascading removal, no row is active without its table (`ActiveIsAttached`), and sweeps stay safe |
| `SchedulerShared` | `RunningHasLoop`, `StopWaits` and `LoopsEnd` for two goroutines whose waits may expire |
| `AdvisoryLockPool` | with cancelled contexts, leaked locks and dying sessions: `MutualExclusion`, the refinement `LockPromise`, `LeaksAreCancelled` (no more locks stay behind than there were cancellations and lost sessions) and `CallsReturn` |
| `MaintainerFaults` | two loops of two replicas or of one process, three parents: no two work on one parent, and a lock outlives its work only in a pool of which a context has ended (`LocksFollowWork`); a pass leaves no parent out (`EveryParentHasItsTurn`); and while the context of one loop lives, every parent is maintained again and again beside one that panics, the loop whose context has ended and the lock it left (`ParentsAreMaintained`) |
| `ImporterRaces` | imports from stale lists never write an untrue row (`ActiveIsAttached`) nor mix intervals (`RowsFitInterval`), account for every child (`ImportCovers`), do nothing the second time (`ImportIsIdempotent`), and recognise what the library made (`OwnIsRecognised`) |
| `CalendarPeriods` | a computed window is the calendar's (`InstantIsInPeriod`), windows made ahead stand as time passes (`PremadeStands`), kinds are told apart (`KindsTellApart`), names give lower bounds back (`NameTellsPeriod`) |
| `DrainBusy`, `DrainQuiet` | beside clients, no row is lost or doubled (`RowsConserved`) and drains that are run again move every row whose partition exists (`RerunDelivers`); without clients, a drain returns (`DrainTerminates`) and reports what it leaves (`LeftIsReported`) |

Two runs expect a violation. Each shows that the code does not do what a
sentence of its documentation or comments says; `PROJECT.json` ("findings")
quotes the sentence and the line:

- `PartmanHourly`: the hours of a day share one table name, so all but the
  first are reported as provisioned and never created;
- `SchedulerReuse`: a `Start` after a `Stop` that timed out may panic in the
  WaitGroup.

### Other configurations

These are not listed as runs. `ImporterDetach` passes: the properties of
`ImporterRaces` with hooks that detach. The others are counterexamples to
smaller claims of the documents:

| Configuration | Property that fails | What happens | Claim |
|---|---|---|---|
| `PartmanKeepAll` | `ZeroRetentionKeepsAll` | retention 0 makes the cutoff now and every past partition is dropped (`cutoff.go:20`) | `docs/adr/0005-registry-lifecycle.md:45` "0 => keep all" |
| `PartmanStray` | `MaintenanceKeepsUp` | a row in the default for a future period makes every later pass fail (`provisioner.go:251`) | `docs/adr/0004-provisioner-create-partitions.md:31` "the next call finishes the work" |
| `PartmanCascadeFailed` | `MaintenanceKeepsUp` | a cascade that fails after dropping the default leaves a row that keeps later passes from making one (`provisioner.go:172`) | `CONTEXT.md:45` "Every parent has exactly one default partition." |
| `PartmanCascadeRace` | `CascadeDropsChildren` | tables created after the cascade's listing stay attached (`registry.go:228`) | `docs/adr/0005-registry-lifecycle.md:140` "drops all child tables" |
| `PartmanCascadeStale` | `ActiveIsAttached` | a removal that comes late drops tables of a later registration and cannot mark their rows (`retention.go:369`) | `docs/adr/0006-retention-drop-or-detach.md:135` "The metadata is consistent." |
| `SchedulerTwoLoops` | `OneLoop` | `Start` after a `Stop` that timed out adds a second loop (`scheduler.go:82`) | `docs/adr/0007-maintainer-scheduler-advisory-lock.md:32` "`Start` spins ONE goroutine." |
| `SchedulerSecondStop` | `StopMeansStopped` | a second `Stop` returns nil beside a working loop (`scheduler.go:51`) | `docs/adr/0007-...:62` "prevents `Stop` from returning before the goroutine actually exits" |
| `AdvisoryLockLeak` | `ReleaseFrees` | `release` unlocks with the pass's ctx; once that is cancelled the connection goes back to the pool with the lock on it (`advisory_lock.go:76`) | `maintainer.go:81` "it releases the lock and any underlying resources" |
| `AdvisoryLockLost` | `NeverTwoAtWork` | the lock's session ends and its pass goes on beside a second one (`advisory_lock.go:62`) | `maintainer.go:73` "guards one parent's maintenance step against concurrent maintainers" |
| `DrainEmptyTenant` | `DrainTerminates` | rows whose tenant is the empty string are not excluded after their anomaly and are read again for ever (`drain/sql.go:79`) | `drain/sql.go:28` "so the drain loop terminates instead of re-reading them" |
| `DrainCounts` | `AnomalyCountsLeft` | an anomaly counts the rows of its first batch only (`drain.go:265`) | `drain.go:51` "the row counts left in the default" |
| `DrainStale` | `FailsOnlyOnFault` | a ctid read earlier may hold another row at the `DELETE`; the child refuses it and the call fails (`sql.go:72`) | `docs/adr/0009-partition-data-drain.md:109` "This is safe under the `FOR UPDATE SKIP LOCKED` read lock." |
| `DrainBlocked` | `DrainEmpties` | with the default attached the partition waits for the rows to leave and the drain for the partition (`provisioner.go:251`) | `docs/adr/0009-partition-data-drain.md:107` "Operators fix the Provisioner or clock and re-run drain." |
| `ImporterStale` | `ActiveIsAttached` | a parent or tenant is removed and registered again, or its table dropped, between the reads of an import and its insert: the row is of a table that is gone (`importer.go:227`) | none: the documents do not speak of this |
| `ImporterOrphans` | `OrphansAreGone` | a partition made between the listing of the children and that of the rows is reported as orphaned (`importer.go:236`) | `docs/adr/0008-import-and-reconcile.md:126` "`Orphaned` fires when metadata rows have no matching `pg_class`" entry |
| `ImporterReregister` | `BoundsAgree` | after a registration with another interval `CREATE TABLE IF NOT EXISTS` finds the old table by its name, and the new row has bounds the table does not have (`registry.go:141`) | none: the documents do not speak of this |
| `ImporterCase` | `TenantIsServed` | the import of a child of `acme` registers `ACME`, for which provisioning then reports success without a partition (`importer.go:203`) | `docs/adr/0004-...:31` as above |
| `ImporterTwins` | `ImportCovers` | children of `acme` and `ACME` for one period become one row (`importer.go:227`) | `docs/adr/0008-...:118` N partitions give N metadata rows |
| `ImporterNames` | `OwnIsRecognised` | of tenant `acme_us` only `US` is read from the name, and the library's own table is reported as drifted (`naming.go:126`) | `naming.go:84` "Parse is the inverse of Build." |
| `ImporterZone` | `OwnIsRecognised` | where offsets print as `+05:30` no layout matches and every bounded child is skipped (`parse_bounds.go:29`) | `parse_bounds.go:27` "a safety net for outputs that include minutes on the offset" |
| `CalendarShifted` | `OnlyPeriodsMatch` | weeks and months that begin on any day pass the pre-flight, and the library's own then overlap them (`interval.go:45`) | `docs/adr/0004-...:72` "`[00:00 UTC of Monday, 00:00 UTC of next Monday)`" |

### Bounds

- Partman: premake and retention of 1, so that a pass has a current, a future
  and an expired period at once; `MaxNow` 2 or 3 lets a partition be created,
  expire and be swept while a call of an earlier period is still in flight;
  `MaxEpoch` 2 or 3 allows a removal and a new registration; one fault, since
  each fault alone reaches every error path. Two workers of different kinds, or
  three in `PartmanCascade`.
- `MaxStall` bounds how many periods an `EnsurePartitions` call may stay in
  flight. It is an assumption as well as a bound: a call that outlasts the
  retention period re-creates a range that was swept, over a row that says
  dropped. `MetadataAgrees` is claimed for `MaxStall <= Retention` only.
- Scheduler: `MaxStarts` 2, a stop and a start again by two callers. AdvisoryLock: two
  parents, and more connections than workers (with as many, all may wait for each other until
  their contexts end), two faults so that a leaked lock meets a second fault.
- Drain: up to five rows, ctids for all of them, batches of 1 or 2, so that a
  missing range is larger than a batch; two client interferences, one fault.
  `RerunDelivers` is about drains without `WithMaxBatches`: a limited drain may
  spend its batches on older rows without a partition each time it is run.
- Maintainer: two loops, in either deployment; three parents, one of each sort;
  two attempts, which is the least that has a retry; two faults, so that the end
  of a context meets an error elsewhere, or both contexts end.
- Importer: two imports; three children that conform, drift and are unknown;
  intervals of one and two days, two days of time, two registrations. Removals
  wait for imports to end, which is an assumption (see `ImporterStale`); tenants
  have one segment, and offsets whole hours.
- Calendar: two instants an hour, five periods ahead, 62 days from three
  Mondays that are the first of a month, before 29 February 2024, 28 February
  2100 and the end of 2025.

### Fairness

- Partman: weak fairness of `Maintain` (the scheduler ticks for ever) and of
  each worker's own steps (goroutines run). Callers and faults have none.
- Scheduler: weak fairness of goroutines; strong fairness of the loop's exit,
  because `select` chooses at random among ready cases and a closed channel is
  always ready. Users have none: nobody has to call `Stop`.
- AdvisoryLock: strong fairness of each worker, because `pgxpool` serves those
  who wait for a connection in order.
- Maintainer: weak fairness of each loop's steps (the ticker fires, statements
  return or fail) and of `Recycle`, because `pgxpool` closes connections past
  their idle time and lifetime. A loop whose context has ended has no step left
  that changes anything. Faults, the ends of contexts and the Registry have none.
- Drain: weak fairness of the call's statements and of the call itself, which
  whoever drains repeats (`docs/adr/0009-partition-data-drain.md:107`: "re-run
  drain"). Clients, provisioning and the operator have none. Nothing in the
  repository tells an operator to detach the default, although only a detached
  default can hold rows whose partition exists; the integration tests do it by
  hand. `MaintainedSpec`, for `DrainBlocked`, adds fairness of provisioning.

## What is proved

`PartmanProofs` (any number of workers, tenants, periods, registrations and
faults):

- `TypeCorrect`: `Spec => []TypeOK`. The lemma for a created period needs that
  `FirstOf`'s CHOOSE has a witness, from the well-foundedness of the naturals
  (`LeastElement`).
- `SweepIsSafe`: with a name per period, `Spec => SweepSparesLive`. What a
  sweep lists was overdue when listed and stays so, since time does not go
  back; the table behind a listed name has the period of that name, whoever
  created it. The proof carries `PeriodOfName` and `SweepRows`.
- `MetadataIsTrue`: `Spec => []MetadataAgrees` for `Steady` constants (no
  cascade, a name per period, `MaxStall <= Retention`). The inductive
  invariant `SteadyInv` adds to `MetadataAgrees`: names determine periods
  (`PeriodOfName`); listed rows are overdue (`SweepRows`); a table that is out
  of the parent, or a row that is not active, is overdue (`OutIsOverdue`), so
  no required period meets one; the periods a call is about to create are not
  overdue (`EnsureRecent`), which is where `MaxStall` enters; and the id of a
  listed row identifies the row while it exists (`SweepIds`). No step of the
  proof uses the lock: this property does not depend on it.
- `CascadeKeepsActive`: with one registration in all (`MaxEpoch <= 1`: a parent
  without tenants), `Spec => []ActiveIsAttached`, cascading removals included.
  `OnceInv`: every row, and every row a sweep or a cascade has listed, has id 1;
  rows exist only while the parent does, so once `DropAll` may run no insert
  succeeds; and while the parent exists each table has a row. The hypothesis is
  where the code stops keeping the promise: after a second registration an older
  `DropAll` drops tables of the new rows (`PartmanCascadeStale`).

`EnsureProofs`:

- `EnsureKeepsPromise`: `Spec => EnsureDelivers` for `Steady` constants. Two
  invariants are carried with `SteadyInv`: a call is for a tenant exactly where
  the parent has a tenant column (`Keyed`), and what a call will not create
  because it found it is there (`Found`). It stays there because what is swept
  is overdue and what a call was asked for is not (`Stays`).

`SchedulerProofs` (any number of callers and starts):

- `TypeCorrect`, `RunningIsServed` (`Spec => []RunningHasLoop`) and
  `StopHasWaited` (`Spec => StopWaits`). `SchedInv`: loops and channels are
  numbered by starts (`Numbered`); `wg` is the number of loops that are alive
  (`Counts`), the fact on which waiting rests; while running, the newest channel
  is open and the newest loop has yet to read `s.done` or listens to it
  (`Served`); and a waiter that came back from `wg.Wait` leaves no loop of its
  own or an earlier start behind (`Waited`).

`AdvisoryLockProofs` (any number of replicas, workers, connections, keys,
cancellations and lost sessions):

- `LockExcludes`: `Spec => []MutualExclusion`. The invariant `LockInv`: a
  connection has one holder, a guarded key is held by its worker's connection
  unless the session is dead, and no two connections hold one key. Leaked
  locks are therefore harmless to exclusion; they only block.
- `LockImplements`: `Spec => LockPromise`, the refinement. `Inside` maps a worker
  to the key it guards on a living session. `LockStep` shows for each action
  that one worker enters (`TryLock`), one leaves (`WorkReturns`, `SessionLost`,
  errors) or `Inside` stays as it is; that the key is free when a worker enters
  is what `LockInv` is needed for.
- `TypeCorrect`, and `LeaksArePaidFor`: `Spec => []LeaksAreCancelled`. The
  invariant `LeakInv` counts a leak before it happens: connections whose session
  has a key more often than their holder will unlock it, together with calls
  whose context is cancelled, are at most `faults`.

`MaintainerProofs` (any number of loops and pools, finitely many parents, any
tenants, attempts and faults):

- `TypeCorrect`: `Spec => []TypeOK`, which bounds attempts and turns.
- `LocksFollow`: `Spec => []LocksFollowWork`. `LockInv`: nobody is inside a parent
  together with another (`Alone`), and a lock left behind is in a pool of which a
  context has ended, with whoever is inside on its connection (`Excused`). The
  first is needed for the second: whoever leaves a lock behind was inside alone.
- `TurnsAreGiven`: `Spec => EveryParentHasItsTurn`. The invariant `Inv` says of
  every pass that it has a parent at hand from the head of the loop to the end
  of the turn and at no other time (`AtHand`), and that turns given, the parent
  at hand and the automatic parents to come add up to those listed (`Counted`).
  A pass that ends has none to come and none at hand.

`DrainProofs` (any finite sets of rows and ctids):

- `TypeCorrect`, and `RowsAreConserved`: `Spec => []RowsConserved`. `DrainInv`
  is the type of the state with `RowsConserved` itself; the work is in the
  lemmas that a move, an insert and a rewrite leave every living row in exactly
  one place (`MovesConserve`, `InsertConserves`, `RewriteConserves`).
- `LeftIsInReport`: `Spec => LeftIsReported` when no client writes and a tenant
  column holds no empty string (`Quiet`). Reading ends only when nothing is left
  to read (`ReadAll`), and a key that the exclusion list hides is itself on
  record. With an empty tenant the list hides the NULL tenant's rows as well
  (`DrainEmptyTenant`), which is why the hypothesis is there.

`ImporterProofs` (any parents, tenants, days, intervals and adopted children):

- `TypeCorrect`.
- `RowsFit`: `Spec => []RowsFitInterval`, without further hypotheses. `FitInv`:
  without a parent there are no rows; a call that still has the current parent
  has the parent's interval; and what a call is about to insert has passed the
  pre-flight for the interval the call has read. A call whose parent has gone
  inserts nothing, by the foreign key.
- `ActiveIsTrue`: `Spec => []ActiveIsAttached` when nobody detaches a child by
  hand, removals wait for imports to end, and adopted children that have a name
  of the library have the bound this name tells (`Orderly`). `TruthInv`: a child
  that was listed has a row by now or is attached as it was.
  `ImporterStale` shows what happens without the second hypothesis.
- `OwnNamesAreRead`: `Spec => OwnIsRecognised` when `Parse` has no second
  reading of a name (`Plain`): whole-hour offsets, a parent of one segment or
  with a last segment that is no tenant, tenants of at most one segment.
  `ParseBuild` is the lemma on `Naming`. `ImporterNames` and `ImporterZone` show
  the names that are misread otherwise.

`CalendarProofs` (any resolution of the clock, any starting dates since 1970,
any running time, any number of periods made ahead):

- `TypeCorrect`, `PeriodsHoldTheirInstants` (`Spec => []InstantIsInPeriod`),
  `PreflightTellsApart` (`Spec => []KindsTellApart`) and `NamesAreReadBack`
  (`Spec => []NameTellsPeriod`). First comes the calendar itself: years follow
  each other and are 365 or 366 days long (`YearLength`, `YearsAscend`), each
  day number is one date (`DateExists`) and is read back as it (`DateRead`), and
  `AddDate` moves by days and months (`AddDateIs`). The invariant `ClockInv`
  then ties the clock that counts to the day number, and gives the beginnings of
  its periods. The leap rule is used in full: 2000, 2100 and 2400 are covered
  by the same formula.
- `PremadeIsAskedFor`: `Spec => PremadeStands`. `NextBoundsUTC` is a recursive
  function; its value is fixed by an infinite sequence of beginnings given in
  closed form (`PeriodsFollow`: for months, `Date` with a growing month), and a
  least index at which the two would differ (`ListIs`). `PeriodTurns` says that
  a period goes on until its upper bound and that the next begins there.

Assumptions on constants, which TLC evaluates on every run: rows and slots of
Drain are finite; what the Importer adopts has bounds of the declared kinds; clocks
of Calendar start on a Monday, the first of a month, since 1970 (the clock
carries the weekday and the month without computing them, so it has to start
where both are known).

Each inductive invariant was checked by TLC before it was proved, on the
constants of the component's runs.

Only model-checked:

- Liveness (`MaintenanceKeepsUp`, `RetentionCatchesUp`, `LoopsEnd`,
  `CallsReturn`, `DrainTerminates`, `RerunDelivers`, `ParentsAreMaintained`),
  which needs fairness and ENABLED.
- `ImportCovers` and `ImportIsIdempotent`: planned. The first does not hold when
  two children share what is recorded (`ImporterTwins`), so its proof needs a
  hypothesis about what is adopted.
- The properties outside the hypotheses above: hourly partitions
  (`PartmanHourly`).

## What is not modelled

- Identifier validation, SQL text and quoting, logging, metrics, dry runs: no
  effect on the state above.
- Delays between attempts: they have no effect but time. With the one policy in
  use the last is 0.8 s, below the cap of 2 s.
- The text of bound expressions: a bound is a default, a range with or without
  a tenant, or not readable. `Partman` counts in consecutive periods, which
  `Calendar` shows the periods of each kind to be.
- Concurrent `CREATE TABLE IF NOT EXISTS` of one name: PostgreSQL may fail one
  of two transactions with a unique violation, which is a failed round trip
  here.
- In Drain: a cascading removal beside the drain, and updates that change the
  range of a row. A `DELETE` that waits for a client's update and then follows
  it to the new version is the case of a move before that update.
- `RetentionKeepTable` is stored by the code and read by nothing.

## Plan

1. Proofs: `ImportCovers` and `ImportIsIdempotent` of the Importer.
2. Partman's `lock` as an instance of `AbstractLock` with lost sessions.
3. The Importer on Partman's step-by-step `EnsurePartitions` and `Sweep` instead
   of whole transactions.
