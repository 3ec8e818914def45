----------------------------- MODULE Retention -----------------------------
(***************************************************************************)
(* Retention.Sweep and Retention.DropAll (internal/retention/retention.go).*)
(* Both list metadata rows first and then act on one row per transaction,  *)
(* by the name and the id they read.  Neither takes a lock; Sweep runs     *)
(* under the Maintainer's, DropAll under none.                             *)
(*                                                                         *)
(* swp[w] is the call worker w is in.                                      *)
(***************************************************************************)
EXTENDS Catalog

CONSTANT Hook    \* the decisions the configured hook may return

ASSUME HookAssumption == Hook \subseteq {"drop", "detach", "archive", "skip"}

VARIABLE swp

NoSweep == [mode |-> "none", step |-> "none", pid |-> 0, at |-> 0, rows |-> {}]

SweepCall   == [NoSweep EXCEPT !.mode = "sweep", !.step = "load"]
DropAllCall == [NoSweep EXCEPT !.mode = "dropAll", !.step = "load"]

\* A row as the queries return it.  ORDER BY partition_bounds_from puts the
\* default, whose bounds are the zero time, first.
ListedRow(n) == [name |-> n, id |-> parts[n].id,
                 from |-> IF n = DefaultName THEN -1 ELSE parts[n].period]
ListedRows == [name : Names, id : Nat, from : Int]

SweepCalls == [mode : {"none", "sweep", "dropAll"},
               step : {"none", "load", "list", "apply", "ok", "err"},
               pid : Nat, at : Nat, rows : SUBSET ListedRows]

TypeOKRetention == swp \in [Workers -> SweepCalls]

-----------------------------------------------------------------------------
SweepGoto(w, s) == swp' = [swp EXCEPT ![w].step = s]

\* Take up the rows just listed, or what is left of them; none is success.
Proceed(w, rest) ==
    swp' = [swp EXCEPT ![w] = [@ EXCEPT !.rows = rest,
                                 !.step = IF rest = {} THEN "ok" ELSE "apply"]]

IsNext(w, r) == r \in swp[w].rows /\ \A q \in swp[w].rows : r.from <= q.from

\* Sweep of an absent parent is an error, DropAll of one is done.
RetentionLoad(w) ==
    /\ swp[w].step = "load"
    /\ IF parent = 0
         THEN SweepGoto(w, IF swp[w].mode = "sweep" THEN "err" ELSE "ok")
         ELSE swp' = [swp EXCEPT ![w] = [@ EXCEPT !.step = "list", !.pid = parent, !.at = now]]
    /\ UNCHANGED catalogVars

SweepList(w) ==
    /\ swp[w].mode = "sweep" /\ swp[w].step = "list"
    /\ Proceed(w, {ListedRow(n) : n \in ListExpiredPartitions(swp[w].pid, swp[w].at)})
    /\ UNCHANGED catalogVars

DropAllList(w) ==
    /\ swp[w].mode = "dropAll" /\ swp[w].step = "list"
    /\ Proceed(w, {ListedRow(n) : n \in ListPartitionsForParent(swp[w].pid)})
    /\ UNCHANGED catalogVars

-----------------------------------------------------------------------------
(* Sweep: the hook decides, one transaction applies the decision *)

\* DROP TABLE needs the table, DETACH PARTITION needs it attached, and
\* SET SCHEMA needs its name free in the retention schema.
DecisionApplies(n, d) ==
    \/ d = "drop" /\ tables[n].at # "none"
    \/ d = "detach" /\ Attached(n)
    \/ d = "archive" /\ HasRetentionSchema /\ Attached(n) /\ n \notin archive

\* Mutant of StatusFor: a status the table's CHECK constraint does not know.
StatusForArchived(d) == IF d = "drop" THEN "dropped" ELSE "archived"

\* MarkPartitionDropped, or MarkPartitionDetached for both other decisions.
StatusFor(d) == IF d = "drop" THEN "dropped" ELSE "detached"

\* The transaction commits.  When the reply is lost the decision is applied
\* again, and then the statement fails because it was.
ApplyDecision(w, r, d, replyLost) ==
    /\ swp[w].mode = "sweep" /\ swp[w].step = "apply" /\ IsNext(w, r)
    /\ DecisionApplies(r.name, d)
    /\ tables' = [tables EXCEPT ![r.name] =
                    IF d = "detach" THEN [@ EXCEPT !.at = "standalone"] ELSE NoTable]
    /\ archive' = IF d = "archive" THEN archive \cup {r.name} ELSE archive
    /\ parts' = Mark(r, StatusFor(d))
    /\ IF replyLost THEN UNCHANGED swp ELSE Proceed(w, swp[w].rows \ {r})
    /\ UNCHANGED <<now, epoch, parent, tenants, stray>>

\* HookSkip, an archive without a retention schema, or a failed
\* transaction: the row goes to SweepReport.Skipped and the loop goes on.
SkipCandidate(w, r, d) ==
    /\ swp[w].mode = "sweep" /\ swp[w].step = "apply" /\ IsNext(w, r)
    /\ ~DecisionApplies(r.name, d)
    /\ Proceed(w, swp[w].rows \ {r})
    /\ UNCHANGED catalogVars

-----------------------------------------------------------------------------
(* DropAll: DROP TABLE IF EXISTS ... CASCADE and mark dropped, row by row *)

DropOne(w, r, replyLost) ==
    /\ swp[w].mode = "dropAll" /\ swp[w].step = "apply" /\ IsNext(w, r)
    /\ tables' = [tables EXCEPT ![r.name] = NoTable]
    /\ stray' = IF r.name = DefaultName THEN {} ELSE stray
    /\ parts' = Mark(r, "dropped")
    /\ IF replyLost THEN UNCHANGED swp ELSE Proceed(w, swp[w].rows \ {r})
    /\ UNCHANGED <<now, epoch, parent, tenants, archive>>

\* A round trip fails: Sweep skips the row in hand, anything else returns
\* the error.
RetentionFault(w) ==
    /\ swp[w].step \in {"load", "list", "apply"}
    /\ IF swp[w].mode = "sweep" /\ swp[w].step = "apply"
         THEN \E r \in swp[w].rows : IsNext(w, r) /\ Proceed(w, swp[w].rows \ {r})
         ELSE SweepGoto(w, "err")
    /\ UNCHANGED catalogVars
=============================================================================
