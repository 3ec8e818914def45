--------------------------- MODULE ImporterProofs ---------------------------
(***************************************************************************)
(* Proofs about the importer.                                              *)
(***************************************************************************)
EXTENDS Importer, FiniteSetTheorems, SequenceTheorems, WellFoundedInduction, TLAPS

-----------------------------------------------------------------------------
(* Facts about the operators *)

\* Every non-empty set of numbers has a least element.
LEMMA LeastElement ==
    ASSUME NEW S \in SUBSET Nat, S # {}
    PROVE  Min(S) \in S
<1> DEFINE T == {0 .. p : p \in S}
<1>1. \A p \in S : IsFiniteSet(0 .. p) /\ 0 .. p \in SUBSET Nat
  BY FS_Interval
<1>2. T \subseteq FiniteSubsetsOf(Nat)
  <2> SUFFICES ASSUME NEW p \in S PROVE 0 .. p \in FiniteSubsetsOf(Nat)
    OBVIOUS
  <2> QED BY <1>1 DEF FiniteSubsetsOf
<1>3. T # {}
  <2>1. PICK p \in S : TRUE
    OBVIOUS
  <2>2. 0 .. p \in T
    OBVIOUS
  <2> QED BY <2>2
<1>4. IsWellFoundedOn(StrictSubsetOrdering(Nat), FiniteSubsetsOf(Nat))
  BY FS_StrictSubsetOrderingWellFounded
<1> HIDE DEF T
<1>5. PICK X \in T : \A Y \in T : ~ (<<Y, X>> \in StrictSubsetOrdering(Nat))
  BY <1>2, <1>3, <1>4, WFMin, Zenon
<1>6. PICK p \in S : X = 0 .. p
  BY DEF T
<1>7. ASSUME NEW q \in S, q < p PROVE FALSE
  <2>1. <<0 .. q, 0 .. p>> \in StrictSubsetOrdering(Nat)
    BY <1>7 DEF StrictSubsetOrdering
  <2>2. 0 .. q \in T
    BY DEF T
  <2> QED BY <1>5, <1>6, <2>1, <2>2
<1>8. \A q \in S : p <= q
  BY <1>7
<1> QED BY <1>8 DEF Min

\* Identifiers in capitals stay as they are (naming.go, strings.ToUpper).
LEMMA UpperFacts ==
    ASSUME NEW t \in Seq(Segments)
    PROVE  /\ Upper(t) \in Seq(Segments)
           /\ Upper(Upper(t)) = Upper(t)
<1>1. Upper(t) \in Seq(Segments)
  BY NamingAssumption DEF Upper
<1>2. DOMAIN Upper(t) = DOMAIN t
  BY DEF Upper
<1>3. \A i \in DOMAIN t : UpperOf[UpperOf[t[i]]] = UpperOf[t[i]]
  BY NamingAssumption
<1> QED BY <1>1, <1>2, <1>3 DEF Upper

\* No tenant stays no tenant in upper case.
LEMMA UpperNone == Upper(NoTenant) = NoTenant
BY DEF Upper, NoTenant

\* Names that Build gives tell the tenant and the suffix.
LEMMA BuildTells ==
    ASSUME NEW t \in Seq(Segments), NEW u \in Seq(Segments), NEW f \in Int, NEW g \in Int,
           Build(ParentName, t, f) = Build(ParentName, u, g)
    PROVE  f = g /\ Upper(t) = Upper(u)
<1>1. Build(ParentName, t, f).suffix = f /\ Build(ParentName, u, g).suffix = g
  BY DEF Build
<1>2. ParentName \o Upper(t) = ParentName \o Upper(u)
  BY DEF Build
<1>3. Upper(t) = Upper(u)
  BY <1>2, UpperFacts, ImporterAssumption, ConcatSimplifications
<1> QED BY <1>1, <1>3

\* Tenants are identifiers.
LEMMA TenantKeysType == TenantKeys \subseteq Seq(Segments)
<1>1. NoTenant \in Seq(Segments)
  BY DEF NoTenant
<1>2. \A a \in Adopted : a.bound.tenant \in Seq(Segments)
  BY AdoptedAssumption DEF Bounds, BoundsOf
<1>3. TenantIds \subseteq Seq(Segments)
  BY ImporterAssumption
<1> QED BY <1>1, <1>2, <1>3, UpperFacts DEF TenantKeys

\* Days, registrations and lengths are numbers.
LEMMA NumberTypes ==
    ASSUME TypeOK
    PROVE  day \in Nat /\ epoch \in Nat /\ parent.id \in 0 .. epoch /\ parent.len \in Nat \ {0}
<1>1. day \in 0 .. MaxDay /\ epoch \in 0 .. MaxEpoch
  BY DEF TypeOK
<1>2. parent.id \in 0 .. epoch /\ parent.len \in Lengths
  BY DEF TypeOK
<1>3. MaxDay \in Nat /\ MaxEpoch \in Nat /\ Lengths \subseteq Nat \ {0}
  BY ImporterAssumption
<1>4. day \in Nat /\ epoch \in Nat
  BY <1>1, <1>3
<1>5. parent.len \in Nat \ {0}
  BY <1>2, <1>3
<1> QED BY <1>2, <1>4, <1>5

\* Required periods begin on days.
LEMMA RequiredType == ASSUME TypeOK PROVE Required \subseteq Nat
<1>1. day \in Nat /\ parent.len \in Nat \ {0}
  BY NumberTypes
<1>2. day \div parent.len \in Nat
  BY <1>1
<1>3. \A i \in 0 .. Premake : day \div parent.len + i \in Nat
  BY <1>2, ImporterAssumption
<1>4. \A m, n \in Nat : m * n \in Nat
  OBVIOUS
<1> QED BY <1>1, <1>3, <1>4 DEF Required

\* What an import accepts is the default or a range.
LEMMA AcceptedBound ==
    ASSUME NEW c \in ChildrenOf, Accepts(c)
    PROVE  ParseBound(c.bound) \in BoundsOf({"range", "default"})
<1>1. c.bound \in BoundsOf({"range", "default"})
  BY DEF Accepts, Skips, Readable, ChildrenOf, Bounds, BoundsOf
<1>2. Upper(c.bound.tenant) \in Seq(Segments)
  BY <1>1, UpperFacts DEF BoundsOf
<1> QED BY <1>1, <1>2 DEF ParseBound, BoundsOf

-----------------------------------------------------------------------------
(* The calls *)

\* The calls are well formed, and what is left to do was among the children.
CallsOK == /\ imp \in [Importers -> Imports]
           /\ \A w \in Importers : imp[w].todo \subseteq imp[w].children

\* A call that has not begun is a call.
LEMMA NoImportType == NoImport \in Imports /\ NoImport.todo = {} /\ NoImport.children = {}
BY DEF NoImport, Imports, NoReport, Reports

\* One call goes on, the others are left alone.
LEMMA CallMoves ==
    ASSUME CallsOK, NEW w \in Importers, NEW r \in Imports, r.todo \subseteq r.children,
           imp' = [imp EXCEPT ![w] = r]
    PROVE  CallsOK'
BY DEF CallsOK

\* r goes on as s: only whether it was alone may differ.
SameCall(r, s) == /\ s \in Imports /\ s.todo \subseteq s.children
                  /\ s.step = r.step /\ s.pid = r.pid /\ s.len = r.len /\ s.todo = r.todo
                  /\ s.children = r.children /\ s.report = r.report

\* A call that others disturb is the same call.
LEMMA NotAlone ==
    ASSUME NEW r \in Imports, r.todo \subseteq r.children
    PROVE  SameCall(r, r) /\ SameCall(r, [r EXCEPT !.alone = FALSE])
BY DEF SameCall, Imports

\* Someone who does not import has written: the calls go on as they are.
LEMMA WrittenCalls ==
    ASSUME CallsOK, Written
    PROVE  CallsOK' /\ \A w \in Importers : SameCall(imp[w], imp'[w])
<1>1. ASSUME NEW w \in Importers PROVE SameCall(imp[w], imp'[w])
  <2>1. imp[w] \in Imports /\ imp[w].todo \subseteq imp[w].children
    BY DEF CallsOK
  <2>2. imp'[w] = imp[w] \/ imp'[w] = [imp[w] EXCEPT !.alone = FALSE]
    BY DEF Written
  <2> QED BY <2>1, <2>2, NotAlone
<1>2. imp' = [w \in Importers |-> imp'[w]]
  BY DEF Written
<1> QED BY <1>1, <1>2 DEF CallsOK, SameCall

\* An import has written: its own call goes on as r, the others as they are.
LEMMA DisturbedCalls ==
    ASSUME CallsOK, NEW w \in Importers, NEW r \in Imports, r.todo \subseteq r.children,
           imp' = [Disturbs(w) EXCEPT ![w] = r]
    PROVE  /\ CallsOK' /\ imp'[w] = r
           /\ \A v \in Importers \ {w} : SameCall(imp[v], imp'[v])
<1>1. imp'[w] = r /\ imp' = [v \in Importers |-> imp'[v]]
  BY DEF Disturbs
<1>2. ASSUME NEW v \in Importers \ {w} PROVE SameCall(imp[v], imp'[v])
  <2>1. imp[v] \in Imports /\ imp[v].todo \subseteq imp[v].children
    BY DEF CallsOK
  <2>2. imp'[v] = imp[v] \/ imp'[v] = [imp[v] EXCEPT !.alone = FALSE]
    BY DEF Disturbs
  <2> QED BY <2>1, <2>2, NotAlone
<1> QED BY <1>1, <1>2 DEF CallsOK, SameCall

\* The report takes the child's name, and the child is done.
LEMMA RecordedCall ==
    ASSUME NEW r \in Imports, r.todo \subseteq r.children, NEW c \in r.todo,
           NEW f \in {"imported", "drifted", "skipped"}
    PROVE  /\ Recorded(r, f, c) \in Imports
           /\ Recorded(r, f, c).todo = r.todo \ {c}
           /\ Recorded(r, f, c).children = r.children
           /\ Recorded(r, f, c).step = r.step
           /\ Recorded(r, f, c).pid = r.pid /\ Recorded(r, f, c).len = r.len
           /\ Recorded(r, f, c).report.drifted =
                r.report.drifted \cup (IF f = "drifted" THEN {c.name} ELSE {})
           /\ Recorded(r, f, c).report.skipped =
                r.report.skipped \cup (IF f = "skipped" THEN {c.name} ELSE {})
<1> DEFINE rep == [r.report EXCEPT ![f] = @ \cup {c.name}]
<1>1. c.name \in Names /\ r.report \in Reports
  BY DEF Imports, ChildrenOf
<1>2. rep \in Reports
  BY <1>1 DEF Reports
<1>3. Recorded(r, f, c) = [[r EXCEPT !.todo = @ \ {c}] EXCEPT !.report = rep]
  BY DEF Recorded, Imports
<1> HIDE DEF rep
<1>4. r.todo \ {c} \in SUBSET ChildrenOf
  BY DEF Imports
<1>5. Recorded(r, f, c) = [step |-> r.step, pid |-> r.pid, len |-> r.len, children |-> r.children,
                           existing |-> r.existing, known |-> r.known, todo |-> r.todo \ {c},
                           report |-> rep, alone |-> r.alone]
  BY <1>3 DEF Imports
<1>6. /\ rep.drifted = r.report.drifted \cup (IF f = "drifted" THEN {c.name} ELSE {})
      /\ rep.skipped = r.report.skipped \cup (IF f = "skipped" THEN {c.name} ELSE {})
  BY <1>1 DEF rep, Reports
<1>7. Recorded(r, f, c).report = rep
  BY <1>5
<1>8. /\ Recorded(r, f, c) \in Imports
      /\ Recorded(r, f, c).todo = r.todo \ {c} /\ Recorded(r, f, c).children = r.children
      /\ Recorded(r, f, c).step = r.step
      /\ Recorded(r, f, c).pid = r.pid /\ Recorded(r, f, c).len = r.len
  BY <1>2, <1>4, <1>5 DEF Imports
<1> QED BY <1>6, <1>7, <1>8

-----------------------------------------------------------------------------
(* Steps of an import *)

\* A call that reads the children refuses those of another interval.
ChildFits(len, c) ==
    Readable(c.bound) /\ c.bound.kind = "range" => IntervalMatches(len, c.bound)

\* Names that r's report has as drifted or skipped.
Rejected(r) == r.report.drifted \cup r.report.skipped

\* How a step of Import takes its call r to s.
Starts(r, s) == /\ r.step = "idle" /\ parent.id # 0 /\ s.todo = {} /\ s.children = {}
                /\ s.step = "children" /\ s.pid = parent.id /\ s.len = parent.len
                /\ Rejected(s) = {}
Lists(r, s) == /\ r.step = "children" /\ s.step = "existing"
               /\ s.pid = r.pid /\ s.len = r.len /\ Rejected(s) = Rejected(r)
               /\ s.children = Children /\ s.todo = Children
               /\ \A c \in Children : ChildFits(r.len, c)
GoesOn(r, s) == /\ r.step \notin {"idle", "children"} /\ s.step \notin {"idle", "children"}
                /\ s.pid = r.pid /\ s.len = r.len
                /\ s.children = r.children /\ s.todo \subseteq r.todo
                /\ \A n \in Rejected(s) :
                      n \in Rejected(r) \/ \E c \in r.todo : c.name = n /\ ~Accepts(c)
Moves(r, s) == s = NoImport \/ Starts(r, s) \/ Lists(r, s) \/ GoesOn(r, s)

\* What a step of importer w does to the calls.
CallStep(w) == /\ CallsOK'
               /\ Moves(imp[w], imp'[w])
               /\ \A v \in Importers \ {w} : SameCall(imp[v], imp'[v])

\* A call goes on when it moves to a later statement with no more to do.
LEMMA GoesOnUnreported ==
    ASSUME NEW r, NEW s, r.step \notin {"idle", "children"}, s.step \notin {"idle", "children"},
           s.pid = r.pid, s.len = r.len, s.children = r.children, s.todo \subseteq r.todo,
           s.report = r.report
    PROVE  GoesOn(r, s)
BY DEF GoesOn, Rejected

\* It goes on when it puts a child into its report.
LEMMA GoesOnRecorded ==
    ASSUME NEW r \in Imports, r.todo \subseteq r.children, r.step = "child", NEW c \in r.todo,
           NEW f \in {"imported", "drifted", "skipped"}, f # "imported" => ~Accepts(c)
    PROVE  GoesOn(r, Recorded(r, f, c))
<1> DEFINE s == Recorded(r, f, c)
<1>1. /\ s.step = "child" /\ s.pid = r.pid /\ s.len = r.len
      /\ s.children = r.children /\ s.todo \subseteq r.todo
  BY RecordedCall
<1>2. /\ s.report.drifted = r.report.drifted \cup (IF f = "drifted" THEN {c.name} ELSE {})
      /\ s.report.skipped = r.report.skipped \cup (IF f = "skipped" THEN {c.name} ELSE {})
  BY RecordedCall
<1> HIDE DEF s
<1>3. \A n \in Rejected(s) : n \in Rejected(r) \/ (c.name = n /\ ~Accepts(c))
  BY <1>2 DEF Rejected
<1> QED BY <1>1, <1>3 DEF GoesOn, s

\* Children that are listed are children.
LEMMA ChildrenType == ASSUME TypeOK PROVE Children \subseteq ChildrenOf
BY DEF TypeOK, Children, ChildrenOf, TablesOf

\* A call that moves as calls may is a step of that call alone.
LEMMA CallStepOf ==
    ASSUME CallsOK, NEW w \in Importers, NEW r \in Imports, r.todo \subseteq r.children,
           imp' = [imp EXCEPT ![w] = r], Moves(imp[w], r)
    PROVE  CallStep(w)
<1>1. CallsOK'
  BY CallMoves
<1>2. imp'[w] = r /\ \A v \in Importers \ {w} : imp'[v] = imp[v]
  BY DEF CallsOK
<1>3. \A v \in Importers \ {w} : SameCall(imp[v], imp'[v])
  BY <1>2, NotAlone DEF CallsOK
<1> QED BY <1>1, <1>2, <1>3 DEF CallStep

\* A call that fails is over.
LEMMA FailedCall ==
    ASSUME CallsOK, NEW w \in Importers, imp' = [imp EXCEPT ![w] = NoImport]
    PROVE  CallStep(w)
BY NoImportType, CallStepOf DEF Moves

\* Each statement of an import is a step of its call.
LEMMA ImportCalls ==
    ASSUME TypeOK, NEW w \in Importers, ImportStep(w) \/ ImportFault(w)
    PROVE  CallStep(w)
<1>0. CallsOK /\ imp[w] \in Imports /\ imp[w].todo \subseteq imp[w].children
  BY DEF TypeOK, CallsOK
<1>1. CASE Import(w)
  <2> DEFINE r == [NoImport EXCEPT !.step = "children", !.pid = parent.id, !.len = parent.len]
  <2>1. parent.id \in Nat /\ parent.len \in Nat
    BY NumberTypes
  <2>2. r \in Imports /\ r.todo \subseteq r.children
    BY <2>1, NoImportType DEF Imports
  <2>3. Starts(imp[w], r)
    <3>1. Rejected(r) = {}
      BY DEF Rejected, NoImport, NoReport
    <3>2. r.todo = {} /\ r.children = {} /\ r.step = "children" /\ r.pid = parent.id
          /\ r.len = parent.len
      BY DEF NoImport
    <3>3. imp[w].step = "idle" /\ parent.id # 0
      BY <1>1 DEF Import, Importing
    <3> HIDE DEF r
    <3> QED BY <3>1, <3>2, <3>3 DEF Starts
  <2>4. imp' = [imp EXCEPT ![w] = r]
    BY <1>1 DEF Import
  <2> HIDE DEF r
  <2> QED BY <1>0, <2>2, <2>3, <2>4, CallStepOf DEF Moves
<1>2. CASE ListChildren(w)
  <2> DEFINE r == [imp[w] EXCEPT !.step = "existing", !.children = Children, !.todo = Children]
  <2>1. CASE Fails(w)
    BY <1>0, <2>1, FailedCall DEF Fails
  <2>2. CASE /\ imp' = [imp EXCEPT ![w] = r]
             /\ \A c \in Children : ChildFits(imp[w].len, c)
    <3>1. r \in Imports /\ r.todo \subseteq r.children
      BY <1>0, ChildrenType DEF Imports
    <3>2. Lists(imp[w], r)
      <4>1. /\ r.step = "existing" /\ r.pid = imp[w].pid /\ r.len = imp[w].len
            /\ r.children = Children /\ r.todo = Children /\ r.report = imp[w].report
        BY <1>0 DEF Imports
      <4>2. imp[w].step = "children"
        BY <1>2 DEF ListChildren
      <4> HIDE DEF r
      <4> QED BY <2>2, <4>1, <4>2 DEF Lists, Rejected
    <3>3. imp' = [imp EXCEPT ![w] = r]
      BY <2>2
    <3> HIDE DEF r
    <3> QED BY <1>0, <3>1, <3>2, <3>3, CallStepOf DEF Moves
  <2> QED BY <1>2, <2>1, <2>2 DEF ListChildren, ChildFits
<1>3. CASE ListExisting(w)
  <2> DEFINE e == IF imp[w].pid = parent.id THEN Tracked ELSE {}
             r == [imp[w] EXCEPT !.step = "tenants", !.existing = e]
  <2>1. e \in SUBSET Names
    BY DEF Tracked
  <2>2. imp' = [imp EXCEPT ![w] = r]
    BY <1>3 DEF ListExisting
  <2>3. imp[w].step \notin {"idle", "children"}
    BY <1>3 DEF ListExisting
  <2> HIDE DEF e
  <2>4. r \in Imports /\ r.todo \subseteq r.children
    BY <1>0, <2>1 DEF Imports
  <2>5. GoesOn(imp[w], r)
    <3>1. /\ r.step = "tenants" /\ r.pid = imp[w].pid /\ r.len = imp[w].len
          /\ r.children = imp[w].children /\ r.todo = imp[w].todo /\ r.report = imp[w].report
      BY <1>0 DEF Imports
    <3> HIDE DEF r
    <3> QED BY <2>3, <3>1, GoesOnUnreported
  <2> HIDE DEF r
  <2> QED BY <1>0, <2>2, <2>4, <2>5, CallStepOf DEF Moves
<1>4. CASE LoadKnownTenants(w)
  <2> DEFINE k == IF imp[w].pid = parent.id THEN tenants ELSE {}
             r == [imp[w] EXCEPT !.step = "child", !.known = k]
  <2>1. k \in SUBSET Seq(Segments)
    BY DEF TypeOK
  <2>2. imp' = [imp EXCEPT ![w] = r]
    BY <1>4 DEF LoadKnownTenants
  <2>3. imp[w].step \notin {"idle", "children"}
    BY <1>4 DEF LoadKnownTenants
  <2> HIDE DEF k
  <2>4. r \in Imports /\ r.todo \subseteq r.children
    BY <1>0, <2>1 DEF Imports
  <2>5. GoesOn(imp[w], r)
    <3>1. /\ r.step = "child" /\ r.pid = imp[w].pid /\ r.len = imp[w].len
          /\ r.children = imp[w].children /\ r.todo = imp[w].todo /\ r.report = imp[w].report
      BY <1>0 DEF Imports
    <3> HIDE DEF r
    <3> QED BY <2>3, <3>1, GoesOnUnreported
  <2> HIDE DEF r
  <2> QED BY <1>0, <2>2, <2>4, <2>5, CallStepOf DEF Moves
<1>5. ASSUME NEW c \in imp[w].todo, ChildStep(w, c)
      PROVE  CallStep(w)
  <2>0. imp[w].step = "child"
    BY <1>5 DEF ChildStep, SkipChild, DriftChild, RegisterBoundTenant, KeepChild,
                InsertMetadata, NextChild
  <2>1. ASSUME NEW f \in {"imported", "drifted", "skipped"}, f # "imported" => ~Accepts(c)
        PROVE  GoesOn(imp[w], Recorded(imp[w], f, c))
    BY <1>0, <2>0, <2>1, GoesOnRecorded
  <2>2. CASE SkipChild(w, c)
    <3> DEFINE r == Recorded(imp[w], "skipped", c)
    <3>1. imp' = [imp EXCEPT ![w] = r]
      BY <2>2 DEF SkipChild
    <3>2. r \in Imports /\ r.todo \subseteq r.children
      BY <1>0, RecordedCall
    <3>3. GoesOn(imp[w], r)
      BY <2>1, <2>2 DEF SkipChild, Accepts, Skips
    <3> HIDE DEF r
    <3> QED BY <1>0, <3>1, <3>2, <3>3, CallStepOf DEF Moves
  <2>3. CASE DriftChild(w, c)
    <3> DEFINE r == Recorded(imp[w], "drifted", c)
    <3>1. imp' = [imp EXCEPT ![w] = r]
      BY <2>3 DEF DriftChild
    <3>2. r \in Imports /\ r.todo \subseteq r.children
      BY <1>0, RecordedCall
    <3>3. GoesOn(imp[w], r)
      BY <2>1, <2>3 DEF DriftChild, Accepts, Drifts
    <3> HIDE DEF r
    <3> QED BY <1>0, <3>1, <3>2, <3>3, CallStepOf DEF Moves
  <2>4. CASE RegisterBoundTenant(w, c)
    <3> DEFINE r == [imp[w] EXCEPT !.known = @ \cup {Upper(c.bound.tenant)}]
    <3>1. CASE Fails(w)
      BY <1>0, <3>1, FailedCall DEF Fails
    <3>2. CASE imp' = [Disturbs(w) EXCEPT ![w].known = @ \cup {Upper(c.bound.tenant)}]
      <4>1. Disturbs(w)[w] = imp[w]
        BY DEF Disturbs
      <4>2. imp' = [Disturbs(w) EXCEPT ![w] = r]
        BY <3>2, <4>1
      <4>3. c.bound.tenant \in Seq(Segments)
        BY <1>0 DEF Imports, ChildrenOf, Bounds, BoundsOf
      <4>4. Upper(c.bound.tenant) \in Seq(Segments)
        BY <4>3, UpperFacts
      <4>5. r \in Imports /\ r.todo \subseteq r.children
        BY <1>0, <4>4 DEF Imports
      <4>6. GoesOn(imp[w], r)
        BY <1>0, <2>0, GoesOnUnreported DEF Imports
      <4> HIDE DEF r
      <4> QED BY <1>0, <4>2, <4>5, <4>6, DisturbedCalls DEF Moves, CallStep
    <3> QED BY <2>4, <3>1, <3>2 DEF RegisterBoundTenant
  <2>5. CASE KeepChild(w, c)
    <3> DEFINE r == [imp[w] EXCEPT !.todo = @ \ {c}]
    <3>1. imp' = [imp EXCEPT ![w] = r]
      BY <2>5 DEF KeepChild
    <3>2. r \in Imports /\ r.todo \subseteq r.children
      BY <1>0 DEF Imports
    <3>3. GoesOn(imp[w], r)
      BY <1>0, <2>0, GoesOnUnreported DEF Imports
    <3> HIDE DEF r
    <3> QED BY <1>0, <3>1, <3>2, <3>3, CallStepOf DEF Moves
  <2>6. CASE InsertMetadata(w, c)
    <3> DEFINE r == Recorded(imp[w], "imported", c)
    <3>1. CASE Fails(w)
      BY <1>0, <3>1, FailedCall DEF Fails
    <3>2. CASE imp' = [Disturbs(w) EXCEPT ![w] = Recorded(@, "imported", c)]
      <4>1. Disturbs(w)[w] = imp[w]
        BY DEF Disturbs
      <4>2. imp' = [Disturbs(w) EXCEPT ![w] = r]
        BY <3>2, <4>1
      <4>3. r \in Imports /\ r.todo \subseteq r.children
        BY <1>0, RecordedCall
      <4>4. GoesOn(imp[w], r)
        BY <2>1
      <4> HIDE DEF r
      <4> QED BY <1>0, <4>2, <4>3, <4>4, DisturbedCalls DEF Moves, CallStep
    <3> QED BY <2>6, <3>1, <3>2 DEF InsertMetadata
  <2> QED BY <1>5, <2>2, <2>3, <2>4, <2>5, <2>6 DEF ChildStep
<1>6. CASE Finish(w)
  BY <1>0, <1>6, FailedCall DEF Finish
<1>7. CASE ImportFault(w)
  BY <1>0, <1>7, FailedCall DEF ImportFault, Fails
<1> QED BY <1>1, <1>2, <1>3, <1>4, <1>5, <1>6, <1>7 DEF ImportStep

-----------------------------------------------------------------------------
(* What EnsurePartitions and Import write *)

\* EnsurePartitions gives the partition named n of tenant t the bound b.
OwnBound(n, t, b) ==
    \/ \E f \in Required : n = Build(ParentName, t, f) /\ b = RangeBound(t, f, parent.len)
    \/ n = DefaultName /\ b = DefaultBound

\* EnsurePartitions leaves a name alone or writes it with its own bound.
LEMMA EnsureWrites ==
    ASSUME TypeOK, NEW t \in TenantKeys, EnsurePartitions(t), NEW n \in Names
    PROVE  \/ rows'[n] = rows[n] /\ tables'[n] = tables[n]
           \/ \E b : /\ OwnBound(n, t, b)
                     /\ tables'[n] = IF tables[n].at = "none" THEN Table(b) ELSE tables[n]
                     /\ rows'[n] = IF Conflicts(n, b) THEN rows[n] ELSE Row(b)
<1> DEFINE S == {Build(ParentName, t, f) : f \in Missing(t)}
           made == [m \in S |-> RangeBound(t, m.suffix, parent.len)]
           needDefault == \A m \in Tracked : rows[m].bound.kind # "default"
           fresh == S \cup (IF needDefault THEN {DefaultName} ELSE {})
           b == IF n \in S THEN made[n] ELSE DefaultBound
<1>1. /\ tables'[n] = IF n \in fresh /\ tables[n].at = "none" THEN Table(b) ELSE tables[n]
      /\ rows'[n] = IF n \in fresh /\ ~Conflicts(n, b) THEN Row(b) ELSE rows[n]
  BY DEF EnsurePartitions
<1>2. ASSUME n \in S PROVE OwnBound(n, t, b)
  <2>1. PICK f \in Missing(t) : n = Build(ParentName, t, f)
    BY <1>2
  <2>2. f \in Required
    BY DEF Missing
  <2>3. n.suffix = f
    BY <2>1 DEF Build
  <2>4. b = RangeBound(t, f, parent.len)
    BY <1>2, <2>3
  <2> QED BY <2>1, <2>2, <2>4 DEF OwnBound
<1>3. ASSUME n \in fresh PROVE OwnBound(n, t, b)
  <2>1. CASE n \in S
    BY <1>2, <2>1
  <2>2. CASE n \notin S
    <3>1. n = DefaultName /\ b = DefaultBound
      BY <1>3, <2>2
    <3> QED BY <3>1 DEF OwnBound
  <2> QED BY <2>1, <2>2
<1> HIDE DEF fresh, b
<1>4. CASE n \notin fresh
  BY <1>1, <1>4
<1>5. CASE n \in fresh
  BY <1>1, <1>3, <1>5
<1> QED BY <1>4, <1>5

\* The bounds of its partitions are bounds.
LEMMA OwnBoundType ==
    ASSUME TypeOK, NEW t \in TenantKeys, NEW n, NEW b, OwnBound(n, t, b)
    PROVE  b \in BoundsOf({"range", "default"})
<1>1. t \in Seq(Segments) /\ NoTenant \in Seq(Segments)
  BY TenantKeysType DEF NoTenant
<1>2. CASE n = DefaultName /\ b = DefaultBound
  BY <1>1, <1>2 DEF DefaultBound, BoundsOf
<1>3. ASSUME NEW f \in Required, b = RangeBound(t, f, parent.len)
      PROVE  b \in BoundsOf({"range", "default"})
  <2>1. f \in Nat /\ parent.len \in Nat
    BY RequiredType, NumberTypes
  <2> QED BY <1>1, <1>3, <2>1 DEF RangeBound, BoundsOf
<1> QED BY <1>2, <1>3 DEF OwnBound

\* A step of Import leaves the tables and the parent alone, and inserts at
\* most one row, for a child it listed.
Inserts(w, c) ==
    /\ Accepts(c) /\ imp[w].step # "idle" /\ imp[w].pid = parent.id
    /\ c.name \notin Tracked
    /\ rows' = [rows EXCEPT ![c.name] = Row(ParseBound(c.bound))]

\* ... and registers at most one tenant, that of such a child.
Registers(c) ==
    Upper(c.bound.tenant) # NoTenant /\ tenants' = tenants \cup {Upper(c.bound.tenant)}

\* An import writes at most the row and the tenant of a child it has left to do.
LEMMA ImportWrites ==
    ASSUME TypeOK, NEW w \in Importers, ImportStep(w) \/ ImportFault(w)
    PROVE  /\ UNCHANGED <<day, epoch, parent, tables>>
           /\ rows' = rows \/ \E c \in imp[w].todo : Inserts(w, c)
           /\ tenants' = tenants \/ \E c \in imp[w].todo : Registers(c)
           /\ settled' \in BOOLEAN
<1>0. settled \in BOOLEAN /\ imp[w].alone \in BOOLEAN
  BY DEF TypeOK, Imports
<1>1. CASE Import(w) \/ ListChildren(w) \/ ListExisting(w) \/ LoadKnownTenants(w) \/ ImportFault(w)
  BY <1>0, <1>1 DEF Import, ListChildren, ListExisting, LoadKnownTenants, ImportFault, ReadOnly, dbVars
<1>2. CASE Finish(w)
  BY <1>0, <1>2 DEF Finish, dbVars
<1>3. ASSUME NEW c \in imp[w].todo, ChildStep(w, c)
      PROVE  /\ UNCHANGED <<day, epoch, parent, tables>>
             /\ rows' = rows \/ Inserts(w, c)
             /\ tenants' = tenants \/ Registers(c)
             /\ settled' \in BOOLEAN
  <2>1. CASE SkipChild(w, c) \/ DriftChild(w, c) \/ KeepChild(w, c)
    <3>1. ReadOnly
      BY <2>1 DEF SkipChild, DriftChild, KeepChild
    <3> QED BY <1>0, <3>1 DEF ReadOnly, dbVars
  <2>2. CASE RegisterBoundTenant(w, c)
    <3>1. Upper(c.bound.tenant) # NoTenant
      BY <2>2 DEF RegisterBoundTenant, TenantKnown
    <3>2. tenants' = tenants \/ tenants' = tenants \cup {Upper(c.bound.tenant)}
      BY <2>2 DEF RegisterBoundTenant
    <3>3. UNCHANGED <<day, epoch, parent, rows, tables>> /\ settled' = FALSE
      BY <2>2, Zenon DEF RegisterBoundTenant
    <3>4. settled' \in BOOLEAN
      BY <3>3
    <3> QED BY <3>1, <3>2, <3>3, <3>4, Zenon DEF Registers
  <2>3. CASE InsertMetadata(w, c)
    <3> DEFINE b == ParseBound(c.bound)
    <3>1. UNCHANGED <<day, epoch, parent, tenants, tables>> /\ settled' = FALSE
      BY <2>3, Zenon DEF InsertMetadata
    <3>2. imp[w].step # "idle" /\ Accepts(c)
      BY <2>3 DEF InsertMetadata, NextChild
    <3>3. \/ rows' = rows
          \/ ~Refuses(imp[w].pid, c.name, b) /\ rows' = UpsertPartition(c.name, b)
      BY <2>3, Zenon DEF InsertMetadata
    <3> HIDE DEF b
    <3>4. ASSUME rows' # rows
          PROVE  /\ ~Conflicts(c.name, b) /\ c.name \notin Tracked /\ imp[w].pid = parent.id
                 /\ rows' = [rows EXCEPT ![c.name] = Row(b)]
      BY <3>3, <3>4 DEF UpsertPartition, Refuses, Conflicts
    <3>5. rows' = rows \/ Inserts(w, c)
      BY <3>2, <3>4, Zenon DEF Inserts, b
    <3>6. settled' \in BOOLEAN
      BY <3>1
    <3> QED BY <3>1, <3>5, <3>6, Zenon
  <2> QED BY <1>3, <2>1, <2>2, <2>3, Zenon DEF ChildStep
<1> QED BY <1>1, <1>2, <1>3, Zenon DEF ImportStep

-----------------------------------------------------------------------------
(* Type correctness *)

\* An absent row is a row, an absent table a table.
LEMMA NoRowType == NoRow \in RowsOf /\ NoTable \in TablesOf
<1>1. DefaultBound \in BoundsOf({"range", "default"}) /\ DefaultBound \in Bounds
  BY DEF DefaultBound, Bounds, BoundsOf, NoTenant
<1> QED BY <1>1 DEF NoRow, NoTable, RowsOf, TablesOf

\* Rows and tables made from a bound have their types.
LEMMA WrittenType ==
    ASSUME NEW b \in BoundsOf({"range", "default"})
    PROVE  Row(b) \in RowsOf /\ Table(b) \in TablesOf
BY DEF Row, Table, RowsOf, TablesOf, Bounds, BoundsOf

\* The types hold at first.
LEMMA TypeInit == Init => TypeOK
<1> SUFFICES ASSUME Init PROVE TypeOK
  OBVIOUS
<1>1. day \in 0 .. MaxDay /\ epoch \in 0 .. MaxEpoch
  BY ImporterAssumption DEF Init
<1>2. parent \in [id : 0 .. epoch, len : Lengths]
  BY ImporterAssumption, LeastElement DEF Init
<1>3. tenants \subseteq Seq(Segments) \ {NoTenant} /\ settled \in BOOLEAN
  BY DEF Init
<1>4. rows \in [Names -> RowsOf]
  BY NoRowType DEF Init
<1>5. tables \in [Names -> TablesOf]
  <2> SUFFICES ASSUME NEW n \in Names PROVE tables[n] \in TablesOf
    BY DEF Init
  <2>1. CASE \E a \in Adopted : a.name = n
    <3> DEFINE a == CHOOSE a \in Adopted : a.name = n
    <3>1. a \in Adopted
      BY <2>1
    <3>2. tables[n] = Table(a.bound)
      BY <2>1 DEF Init
    <3> HIDE DEF a
    <3>3. a.bound \in Bounds
      BY <3>1, AdoptedAssumption
    <3> QED BY <3>2, <3>3 DEF Table, TablesOf
  <2>2. CASE ~\E a \in Adopted : a.name = n
    BY <2>2, NoRowType DEF Init
  <2> QED BY <2>1, <2>2
<1>6. \A w \in Importers : imp[w] \in Imports /\ imp[w].todo \subseteq imp[w].children
  BY NoImportType DEF Init
<1>7. imp \in [Importers -> Imports]
  BY <1>6 DEF Init
<1> QED BY <1>1, <1>2, <1>3, <1>4, <1>5, <1>6, <1>7 DEF TypeOK

\* The types of what is not the calls.
DbOK ==
    /\ day \in 0 .. MaxDay /\ epoch \in 0 .. MaxEpoch
    /\ parent \in [id : 0 .. epoch, len : Lengths]
    /\ tenants \subseteq Seq(Segments) \ {NoTenant}
    /\ rows \in [Names -> RowsOf] /\ tables \in [Names -> TablesOf]

\* The types of the database, of the calls and of what is remembered.
LEMMA TypeParts == TypeOK <=> DbOK /\ CallsOK /\ settled \in BOOLEAN
BY DEF TypeOK, DbOK, CallsOK

\* A step of the library that keeps the database's types keeps all of them.
LEMMA WrittenTypes ==
    ASSUME TypeOK, Written, DbOK' PROVE TypeOK'
<1>1. CallsOK'
  BY TypeParts, WrittenCalls
<1>2. settled' \in BOOLEAN
  BY DEF Written
<1> QED BY <1>1, <1>2 DEF TypeOK, DbOK, CallsOK

\* A step of an import keeps the types.
LEMMA ImportTypes ==
    ASSUME TypeOK, NEW w \in Importers, ImportStep(w) \/ ImportFault(w)
    PROVE  TypeOK'
<1>0. CallsOK' /\ settled' \in BOOLEAN /\ UNCHANGED <<day, epoch, parent, tables>>
  BY ImportCalls, ImportWrites DEF CallStep
<1>1. imp[w].todo \subseteq ChildrenOf
  BY DEF TypeOK, Imports
<1>2. rows' \in [Names -> RowsOf]
  <2>1. CASE rows' = rows
    BY <2>1 DEF TypeOK
  <2>2. ASSUME NEW c \in imp[w].todo, Inserts(w, c) PROVE rows' \in [Names -> RowsOf]
    <3>1. Row(ParseBound(c.bound)) \in RowsOf
      BY <1>1, <2>2, AcceptedBound, WrittenType DEF Inserts
    <3> QED BY <2>2, <3>1 DEF TypeOK, Inserts
  <2> QED BY <2>1, <2>2, ImportWrites
<1>3. tenants' \subseteq Seq(Segments) \ {NoTenant}
  <2>1. CASE tenants' = tenants
    BY <2>1 DEF TypeOK
  <2>2. ASSUME NEW c \in imp[w].todo, Registers(c)
        PROVE  tenants' \subseteq Seq(Segments) \ {NoTenant}
    <3>1. c.bound.tenant \in Seq(Segments)
      BY <1>1 DEF ChildrenOf, Bounds, BoundsOf
    <3>2. Upper(c.bound.tenant) \in Seq(Segments)
      BY <3>1, UpperFacts
    <3> QED BY <2>2, <3>2 DEF Registers, TypeOK
  <2> QED BY <2>1, <2>2, ImportWrites
<1> QED BY <1>0, <1>2, <1>3 DEF TypeOK, CallsOK

\* So does a step of anything else.
LEMMA OthersTypes == ASSUME TypeOK, Others PROVE TypeOK'
<1>0. DbOK
  BY TypeParts
<1>1. ASSUME NEW len \in Lengths, RegisterParent(len) PROVE TypeOK'
  <2>1. epoch' \in 0 .. MaxEpoch
    <3>1. epoch \in Nat /\ MaxEpoch \in Nat
      BY NumberTypes, ImporterAssumption
    <3> QED BY <1>1, <3>1 DEF RegisterParent
  <2>2. epoch' \in 0 .. epoch'
    BY <2>1, ImporterAssumption
  <2>3. parent' = [id |-> epoch', len |-> len]
    BY <1>1 DEF RegisterParent
  <2>4. parent' \in [id : 0 .. epoch', len : Lengths]
    BY <2>2, <2>3
  <2>5. DbOK'
    BY <1>0, <1>1, <2>1, <2>4 DEF RegisterParent, DbOK
  <2> QED BY <1>1, <2>5, WrittenTypes DEF RegisterParent
<1>2. CASE RemoveParent
  <2>1. parent' \in [id : 0 .. epoch, len : Lengths]
    BY <1>2, NumberTypes DEF RemoveParent, TypeOK
  <2>2. rows' \in [Names -> RowsOf]
    BY <1>2, NoRowType DEF RemoveParent
  <2>3. DbOK'
    BY <1>0, <1>2, <2>1, <2>2 DEF RemoveParent, DbOK
  <2> QED BY <1>2, <2>3, WrittenTypes DEF RemoveParent
<1>3. CASE NextDay
  <2>1. day' \in 0 .. MaxDay
    BY <1>3, NumberTypes, ImporterAssumption DEF NextDay
  <2> QED BY <1>3, <2>1 DEF NextDay, TypeOK
<1>4. ASSUME NEW t \in TenantIds, RegisterTenant(t) PROVE TypeOK'
  <2>1. DbOK'
    BY <1>0, <1>4, ImporterAssumption DEF RegisterTenant, DbOK
  <2> QED BY <1>4, <2>1, WrittenTypes DEF RegisterTenant
<1>5. ASSUME NEW t \in tenants, RemoveTenant(t) PROVE TypeOK'
  <2>1. rows' \in [Names -> RowsOf]
    BY <1>0, <1>5, NoRowType DEF RemoveTenant, DbOK
  <2>2. DbOK'
    BY <1>0, <1>5, <2>1 DEF RemoveTenant, DbOK
  <2> QED BY <1>5, <2>2, WrittenTypes DEF RemoveTenant
<1>6. ASSUME NEW t \in TenantKeys, EnsurePartitions(t) PROVE TypeOK'
  <2>1. ASSUME NEW n \in Names PROVE rows'[n] \in RowsOf /\ tables'[n] \in TablesOf
    <3>1. rows[n] \in RowsOf /\ tables[n] \in TablesOf
      BY DEF TypeOK
    <3>2. \A b : OwnBound(n, t, b) => Row(b) \in RowsOf /\ Table(b) \in TablesOf
      BY OwnBoundType, WrittenType
    <3> QED BY <1>6, <3>1, <3>2, EnsureWrites
  <2>2. rows' = [n \in Names |-> rows'[n]] /\ tables' = [n \in Names |-> tables'[n]]
    BY <1>6 DEF EnsurePartitions
  <2>3. UNCHANGED <<day, epoch, parent, tenants>> /\ Written
    BY <1>6 DEF EnsurePartitions
  <2>4. DbOK'
    BY <1>0, <2>1, <2>2, <2>3 DEF DbOK
  <2> QED BY <2>3, <2>4, WrittenTypes
<1>7. ASSUME NEW n \in Names, NEW detach \in {FALSE, Detaches}, Sweep(n, detach) PROVE TypeOK'
  <2>1. rows' \in [Names -> RowsOf]
    BY <1>0, <1>7 DEF Sweep, DbOK, RowsOf
  <2>2. tables' \in [Names -> TablesOf]
    BY <1>0, <1>7, NoRowType DEF Sweep, DbOK, TablesOf
  <2>3. DbOK'
    BY <1>0, <1>7, <2>1, <2>2 DEF Sweep, DbOK
  <2> QED BY <1>7, <2>3, WrittenTypes DEF Sweep
<1> QED BY <1>1, <1>2, <1>3, <1>4, <1>5, <1>6, <1>7 DEF Others

\* Each step keeps the types.
LEMMA TypeNext == TypeOK /\ [Next]_vars => TypeOK'
<1> SUFFICES ASSUME TypeOK, [Next]_vars PROVE TypeOK'
  OBVIOUS
<1>1. CASE Others
  BY <1>1, OthersTypes
<1>2. ASSUME NEW w \in Importers, ImportStep(w) \/ ImportFault(w) PROVE TypeOK'
  BY <1>2, ImportTypes
<1>3. CASE UNCHANGED vars
  BY <1>3 DEF vars, dbVars, TypeOK
<1> QED BY <1>1, <1>2, <1>3 DEF Next

\* The calls, the rows and the tables are what their types say, in
\* particular Import only writes tenants and bounds that it parsed, and only
\* works on children that it listed (importer.go Import).
THEOREM TypeCorrect == Spec => []TypeOK
<1> QED BY TypeInit, TypeNext, PTL DEF Spec

-----------------------------------------------------------------------------
(* The rows of a parent never mix intervals *)

\* A call knows the interval of the registration it read, and the children
\* it has left have passed the pre-flight for that interval.  A registration
\* never gets an id that was given before.
CallFits(call) ==
    /\ call.step # "idle" => /\ call.pid \in 1 .. epoch
                             /\ call.pid = parent.id => call.len = parent.len
    /\ \A c \in call.todo : ChildFits(call.len, c)
CallsFit == \A w \in Importers : CallFits(imp[w])

RowFits(len, r) ==
    r.status # "none" /\ r.bound.kind = "range" => r.bound.to - r.bound.from = len

FitInv == /\ TypeOK
          /\ parent.id = 0 => \A n \in Names : rows[n].status = "none"
          /\ CallsFit
          /\ \A n \in Names : RowFits(parent.len, rows[n])

\* A call that has not begun has nothing to insert.
LEMMA NoCallFits == CallFits(NoImport)
BY DEF CallFits, NoImport

\* A call that keeps its parent and its list fits as before.
LEMMA SameCallFits ==
    ASSUME NEW r, NEW s, CallFits(r), SameCall(r, s) PROVE CallFits(s)
BY DEF CallFits, SameCall

\* At first there is no row.
LEMMA FitInit == Init => FitInv
<1> SUFFICES ASSUME Init PROVE FitInv
  OBVIOUS
<1>1. TypeOK
  BY TypeInit
<1>2. \A n \in Names : rows[n].status = "none"
  BY DEF Init, NoRow
<1>3. CallsFit
  BY NoCallFits DEF Init, CallsFit
<1> QED BY <1>1, <1>2, <1>3 DEF FitInv, RowFits

\* A step of Import: the row it inserts is for a child of its pre-flight.
LEMMA ImportFits ==
    ASSUME FitInv, NEW w \in Importers, ImportStep(w) \/ ImportFault(w)
    PROVE  FitInv'
<1>0. TypeOK /\ TypeOK' /\ CallsFit
  BY ImportTypes DEF FitInv
<1>1. CallStep(w) /\ parent' = parent /\ epoch' = epoch
  BY <1>0, ImportCalls, ImportWrites
<1>2. CallsFit'
  <2>1. ASSUME NEW v \in Importers PROVE CallFits(imp'[v])
    <3>1. CASE v # w
      BY <1>0, <1>1, <3>1, SameCallFits DEF CallStep, CallsFit
    <3>2. CASE imp'[w] = NoImport
      <4>1. CASE v = w
        BY <3>2, <4>1, NoCallFits
      <4> QED BY <3>1, <4>1
    <3>3. ASSUME Starts(imp[w], imp'[w]) PROVE CallFits(imp'[w])
      <4>1. parent.id \in 1 .. epoch
        BY <1>0, <3>3, NumberTypes DEF Starts
      <4> QED BY <3>3, <4>1 DEF Starts, CallFits
    <3>4. ASSUME Lists(imp[w], imp'[w]) \/ GoesOn(imp[w], imp'[w]) PROVE CallFits(imp'[w])
      <4>1. CallFits(imp[w])
        BY <1>0 DEF CallsFit
      <4> QED BY <3>4, <4>1 DEF Lists, GoesOn, CallFits
    <3> QED BY <1>1, <3>1, <3>2, <3>3, <3>4 DEF CallStep, Moves
  <2> QED BY <1>1, <2>1 DEF CallsFit, CallFits
<1>3. CASE rows' = rows
  BY <1>0, <1>1, <1>2, <1>3 DEF FitInv
<1>4. ASSUME NEW c \in imp[w].todo, Inserts(w, c) PROVE FitInv'
  <2>1. CallFits(imp[w]) /\ imp[w].step # "idle" /\ imp[w].pid = parent.id
    BY <1>0, <1>4 DEF CallsFit, Inserts
  <2>2. parent.id # 0 /\ ChildFits(parent.len, c)
    <3>1. imp[w].pid \in 1 .. epoch /\ imp[w].len = parent.len
      BY <2>1 DEF CallFits
    <3>2. epoch \in Nat
      BY <1>0, NumberTypes
    <3> QED BY <2>1, <3>1, <3>2 DEF CallFits
  <2> DEFINE b == ParseBound(c.bound)
  <2>3. c.bound \in Bounds /\ c.name \in Names
    BY <1>0 DEF TypeOK, Imports, ChildrenOf
  <2>4. b.kind = c.bound.kind /\ b.from = c.bound.from /\ b.to = c.bound.to
    BY <2>3 DEF ParseBound, Bounds, BoundsOf
  <2>5. RowFits(parent.len, Row(b))
    <3>1. Readable(c.bound)
      BY <1>4 DEF Inserts, Accepts, Skips
    <3> QED BY <2>2, <2>4, <3>1 DEF RowFits, Row, ChildFits, IntervalMatches
  <2>6. rows' = [rows EXCEPT ![c.name] = Row(b)]
    BY <1>4 DEF Inserts
  <2> HIDE DEF b
  <2>7. \A n \in Names : RowFits(parent.len, rows'[n])
    BY <1>0, <2>3, <2>5, <2>6 DEF FitInv, TypeOK
  <2> QED BY <1>0, <1>1, <1>2, <2>2, <2>7 DEF FitInv
<1> QED BY <1>0, <1>3, <1>4, ImportWrites

\* Steps of the rest of the library keep FitInv.
LEMMA OthersFit == ASSUME FitInv, Others PROVE FitInv'
<1>0. TypeOK /\ TypeOK' /\ CallsOK
  BY OthersTypes, TypeParts DEF FitInv
<1>1. ASSUME Written, parent' = parent, epoch' = epoch PROVE CallsFit'
  <2>1. \A w \in Importers : SameCall(imp[w], imp'[w])
    BY <1>0, <1>1, WrittenCalls
  <2>2. \A w \in Importers : CallFits(imp'[w])
    BY <2>1, SameCallFits DEF FitInv, CallsFit
  <2> QED BY <1>1, <2>2 DEF CallsFit, CallFits
<1>2. ASSUME NEW len \in Lengths, RegisterParent(len) PROVE FitInv'
  <2>1. \A n \in Names : rows'[n].status = "none"
    BY <1>2 DEF RegisterParent, FitInv
  <2>2. parent'.id = epoch + 1 /\ epoch' = epoch + 1 /\ epoch \in Nat
    BY <1>0, <1>2, NumberTypes DEF RegisterParent
  <2>3. ASSUME NEW w \in Importers PROVE CallFits(imp[w])'
    <3>1. SameCall(imp[w], imp'[w])
      BY <1>0, <1>2, WrittenCalls DEF RegisterParent
    <3>2. CallFits(imp[w])
      BY DEF FitInv, CallsFit
    <3> QED BY <2>2, <3>1, <3>2 DEF CallFits, SameCall
  <2> QED BY <1>0, <2>1, <2>3 DEF FitInv, CallsFit, RowFits
<1>3. CASE RemoveParent
  <2>1. \A n \in Names : rows'[n].status = "none"
    BY <1>3 DEF RemoveParent, NoRow
  <2>2. parent'.id = 0 /\ epoch' = epoch /\ epoch \in Nat
    BY <1>0, <1>3, NumberTypes DEF RemoveParent, TypeOK
  <2>3. ASSUME NEW w \in Importers PROVE CallFits(imp[w])'
    <3>1. SameCall(imp[w], imp'[w])
      BY <1>0, <1>3, WrittenCalls DEF RemoveParent
    <3>2. CallFits(imp[w])
      BY DEF FitInv, CallsFit
    <3> QED BY <2>2, <3>1, <3>2 DEF CallFits, SameCall
  <2> QED BY <1>0, <2>1, <2>3 DEF FitInv, CallsFit, RowFits
<1>4. CASE NextDay
  BY <1>0, <1>4 DEF NextDay, FitInv, CallsFit, CallFits
<1>5. ASSUME NEW t \in TenantIds, RegisterTenant(t) PROVE FitInv'
  BY <1>0, <1>1, <1>5 DEF RegisterTenant, FitInv
<1>6. ASSUME NEW t \in tenants, RemoveTenant(t) PROVE FitInv'
  <2>1. \A n \in Names : rows'[n] = rows[n] \/ rows'[n].status = "none"
    BY <1>6 DEF RemoveTenant, NoRow
  <2>2. parent' = parent /\ CallsFit'
    BY <1>1, <1>6 DEF RemoveTenant
  <2> QED BY <1>0, <2>1, <2>2 DEF FitInv, RowFits
<1>7. ASSUME NEW t \in TenantKeys, EnsurePartitions(t) PROVE FitInv'
  <2>1. parent' = parent /\ CallsFit' /\ parent.id # 0
    BY <1>1, <1>7 DEF EnsurePartitions
  <2>2. ASSUME NEW n, NEW b, OwnBound(n, t, b) PROVE RowFits(parent.len, Row(b))
    <3>1. CASE b = DefaultBound
      BY <3>1 DEF RowFits, Row, DefaultBound
    <3>2. ASSUME NEW f \in Required, b = RangeBound(t, f, parent.len)
          PROVE  RowFits(parent.len, Row(b))
      <4>1. f \in Nat /\ parent.len \in Nat
        BY <1>0, RequiredType, NumberTypes
      <4> QED BY <3>2, <4>1 DEF RowFits, Row, RangeBound
    <3> QED BY <2>2, <3>1, <3>2 DEF OwnBound
  <2>3. ASSUME NEW n \in Names PROVE RowFits(parent.len, rows'[n])
    <3>1. RowFits(parent.len, rows[n])
      BY DEF FitInv
    <3>2. \/ rows'[n] = rows[n]
          \/ \E b : OwnBound(n, t, b) /\ rows'[n] = Row(b)
      BY <1>0, <1>7, EnsureWrites
    <3> QED BY <2>2, <3>1, <3>2
  <2> QED BY <1>0, <2>1, <2>3 DEF FitInv
<1>8. ASSUME NEW n \in Names, NEW detach \in {FALSE, Detaches}, Sweep(n, detach) PROVE FitInv'
  <2>1. parent' = parent /\ CallsFit' /\ parent.id # 0
    BY <1>1, <1>8 DEF Sweep
  <2>2. rows[n].status = "active"
    BY <1>8 DEF Sweep
  <2>3. \A m \in Names : rows'[m].bound = rows[m].bound
                         /\ (rows[m].status = "none" => rows'[m].status = "none")
    BY <1>0, <1>8, <2>2 DEF Sweep, TypeOK, RowsOf
  <2> QED BY <1>0, <2>1, <2>3 DEF FitInv, RowFits
<1> QED BY <1>2, <1>3, <1>4, <1>5, <1>6, <1>7, <1>8 DEF Others

\* The metadata of a parent never mixes intervals, whoever registers the
\* parent again with another interval, and whenever, while an import works
\* on children of the first: the id that the import read refuses its rows
\* (importer.go, the pre-flight and insertMetadata; registry.go RegisterParent).
THEOREM RowsFit == Spec => []RowsFitInterval
<1>1. FitInv /\ [Next]_vars => FitInv'
  <2> SUFFICES ASSUME FitInv, [Next]_vars PROVE FitInv'
    OBVIOUS
  <2>1. CASE Others
    BY <2>1, OthersFit
  <2>2. ASSUME NEW w \in Importers, ImportStep(w) \/ ImportFault(w) PROVE FitInv'
    BY <2>2, ImportFits
  <2>3. CASE UNCHANGED vars
    <3>1. TypeOK'
      BY <2>3, TypeNext DEF FitInv
    <3> QED BY <2>3, <3>1 DEF vars, dbVars, FitInv, CallsFit, CallFits
  <2> QED BY <2>1, <2>2, <2>3 DEF Next
<1>2. FitInv => RowsFitInterval
  BY DEF FitInv, RowFits, RowsFitInterval, Tracked
<1> QED BY <1>1, <1>2, FitInit, PTL DEF Spec

-----------------------------------------------------------------------------
(* Active rows are true *)

\* The bound b is the one that the name n tells, if n is one of those that
\* EnsurePartitions gives.
Tells(n, b) ==
    /\ n = DefaultName => b.from = 0 /\ b.tenant = NoTenant
    /\ \A t \in TenantKeys, f \in Nat :
          n = Build(ParentName, t, f) => b.from = f /\ Upper(b.tenant) = Upper(t)

\* Hooks never have a partition detached, tenants and parents are removed
\* while no import runs, and no adopted child has a name of EnsurePartitions
\* with a bound of its own.
Orderly == /\ Detaches = FALSE /\ RemovalsAnytime = FALSE
           /\ \A a \in Adopted : Tells(a.name, a.bound)

\* The row r says what the table t is.
Shows(r, t) == /\ t.at = "attached" /\ t.bound.from = r.bound.from
               /\ Upper(t.bound.tenant) = Upper(r.bound.tenant)

\* A child that was listed has a row by now, or is attached as it was.
StillThere(c) == \/ rows[c.name].status # "none"
                 \/ Attached(c.name) /\ tables[c.name].bound = c.bound
CallTrue(call) == /\ call.step = "idle" => call.todo = {}
                  /\ \A c \in call.todo : StillThere(c)
CallsTrue == \A w \in Importers : CallTrue(imp[w])

TableTrue(n, t) == t.at = "none" \/ (t.at = "attached" /\ Tells(n, t.bound))

TruthInv == /\ TypeOK
            /\ \A n \in Names : TableTrue(n, tables[n])
            /\ CallsTrue
            /\ \A n \in Names : rows[n].status = "active" => Shows(rows[n], tables[n])

\* A call that has not begun has listed nothing.
LEMMA NoCallTrue == NoImport.step = "idle" /\ NoImport.todo = {}
BY DEF NoImport

\* EnsurePartitions gives a partition the bound that its name tells.
LEMMA OwnBoundTells ==
    ASSUME TypeOK, NEW t \in TenantKeys, NEW n, NEW b, OwnBound(n, t, b)
    PROVE  Tells(n, b)
<1>0. t \in Seq(Segments) /\ TenantKeys \subseteq Seq(Segments)
  BY TenantKeysType
<1>1. CASE n = DefaultName /\ b = DefaultBound
  <2>1. n.suffix = Default
    BY <1>1 DEF DefaultName, Build
  <2>2. \A u \in TenantKeys, g \in Nat : n # Build(ParentName, u, g)
    <3>1. \A u, g : Build(ParentName, u, g).suffix = g
      BY DEF Build
    <3> QED BY <2>1, <3>1 DEF Default
  <2> QED BY <1>1, <2>2 DEF Tells, DefaultBound
<1>2. ASSUME NEW f \in Required, n = Build(ParentName, t, f), b = RangeBound(t, f, parent.len)
      PROVE  Tells(n, b)
  <2>1. f \in Nat /\ n.suffix = f
    BY <1>2, RequiredType DEF Build
  <2>2. n # DefaultName
    BY <2>1 DEF DefaultName, Build, Default
  <2>3. ASSUME NEW u \in TenantKeys, NEW g \in Nat, n = Build(ParentName, u, g)
        PROVE  b.from = g /\ Upper(b.tenant) = Upper(u)
    <3>0. Build(ParentName, t, f) = Build(ParentName, u, g) /\ u \in Seq(Segments)
      BY <1>0, <1>2, <2>3
    <3>1. f = g /\ Upper(t) = Upper(u)
      BY <1>0, <2>1, <3>0, BuildTells
    <3> QED BY <1>2, <3>1 DEF RangeBound
  <2> QED BY <2>2, <2>3 DEF Tells
<1> QED BY <1>1, <1>2 DEF OwnBound

\* A table under a name of EnsurePartitions is what its row will say.
LEMMA OwnBoundShows ==
    ASSUME TypeOK, NEW t \in TenantKeys, NEW n, NEW b, OwnBound(n, t, b),
           NEW d, d.at = "attached", Tells(n, d.bound)
    PROVE  Shows(Row(b), d)
<1>1. CASE n = DefaultName /\ b = DefaultBound
  BY <1>1 DEF Tells, Shows, Row, DefaultBound
<1>2. ASSUME NEW f \in Required, n = Build(ParentName, t, f), b = RangeBound(t, f, parent.len)
      PROVE  Shows(Row(b), d)
  <2>1. f \in Nat
    BY RequiredType
  <2>2. d.bound.from = f /\ Upper(d.bound.tenant) = Upper(t)
    BY <1>2, <2>1 DEF Tells
  <2> QED BY <1>2, <2>2 DEF Shows, Row, RangeBound
<1> QED BY <1>1, <1>2 DEF OwnBound

\* At first only adopted children are there.
LEMMA TruthInit == ASSUME Orderly PROVE Init => TruthInv
<1> SUFFICES ASSUME Init PROVE TruthInv
  OBVIOUS
<1>1. TypeOK
  BY TypeInit
<1>2. ASSUME NEW n \in Names PROVE TableTrue(n, tables[n])
  <2>1. CASE \E a \in Adopted : a.name = n
    <3> DEFINE a == CHOOSE a \in Adopted : a.name = n
    <3>1. a \in Adopted /\ a.name = n
      BY <2>1
    <3>2. tables[n] = Table(a.bound)
      BY <2>1 DEF Init
    <3> HIDE DEF a
    <3>3. Tells(n, a.bound)
      BY <3>1 DEF Orderly
    <3> QED BY <3>2, <3>3 DEF Table, TableTrue
  <2>2. CASE ~\E a \in Adopted : a.name = n
    BY <2>2 DEF Init, NoTable, TableTrue
  <2> QED BY <2>1, <2>2
<1>3. CallsTrue
  BY NoCallTrue DEF Init, CallsTrue, CallTrue
<1>4. \A n \in Names : rows[n].status # "active"
  BY DEF Init, NoRow
<1> QED BY <1>1, <1>2, <1>3, <1>4 DEF TruthInv

\* Rows stay, and tables without a row stay as they are.
Keeps == \A n \in Names : /\ rows[n].status # "none" => rows'[n].status # "none"
                          /\ Attached(n) /\ rows[n].status = "none" => tables'[n] = tables[n]

\* A listed child stays accounted for where its row and its table stay.
LEMMA StaysThere ==
    ASSUME Keeps, NEW c \in ChildrenOf, StillThere(c) PROVE StillThere(c)'
BY DEF Keeps, StillThere, ChildrenOf, Attached

\* Steps of imports keep TruthInv.
LEMMA ImportTrue ==
    ASSUME TruthInv, NEW w \in Importers, ImportStep(w) \/ ImportFault(w)
    PROVE  TruthInv'
<1>0. TypeOK /\ TypeOK' /\ CallsTrue /\ imp[w].todo \subseteq ChildrenOf
  BY ImportTypes DEF TruthInv, TypeOK, Imports
<1>1. CallStep(w) /\ tables' = tables
  BY <1>0, ImportCalls, ImportWrites
<1>2. Keeps
  <2>1. CASE rows' = rows
    BY <1>1, <2>1 DEF Keeps
  <2>2. ASSUME NEW c \in imp[w].todo, Inserts(w, c) PROVE Keeps
    <3>1. \A n \in Names : rows'[n] = rows[n] \/ rows'[n].status = "active"
      BY <1>0, <2>2 DEF Inserts, Row, TypeOK
    <3> QED BY <1>1, <3>1 DEF Keeps
  <2> QED BY <1>0, <2>1, <2>2, ImportWrites
<1>3. CallsTrue'
  <2>1. \A v \in Importers : imp[v].todo \subseteq ChildrenOf
    BY <1>0 DEF TypeOK, Imports
  <2>2. ASSUME NEW v \in Importers, NEW c \in imp[v].todo PROVE StillThere(c)'
    BY <1>0, <1>2, <2>1, StaysThere DEF CallsTrue, CallTrue
  <2>3. ASSUME NEW c \in Children PROVE StillThere(c)'
    <3>1. StillThere(c)
      BY DEF StillThere, Children
    <3> QED BY <1>0, <1>2, <3>1, ChildrenType, StaysThere
  <2>4. ASSUME NEW v \in Importers \ {w} PROVE CallTrue(imp[v])'
    <3>1. SameCall(imp[v], imp'[v]) /\ CallTrue(imp[v])
      BY <1>0, <1>1 DEF CallStep, CallsTrue
    <3> QED BY <2>2, <3>1 DEF CallTrue, SameCall
  <2>5. CallTrue(imp[w])'
    <3>1. CASE imp'[w] = NoImport
      BY <3>1, NoCallTrue DEF CallTrue
    <3>2. CASE Starts(imp[w], imp'[w])
      BY <3>2 DEF CallTrue, Starts
    <3>3. CASE Lists(imp[w], imp'[w])
      BY <2>3, <3>3 DEF CallTrue, Lists
    <3>4. CASE GoesOn(imp[w], imp'[w])
      BY <2>2, <3>4 DEF CallTrue, GoesOn
    <3> QED BY <1>1, <3>1, <3>2, <3>3, <3>4 DEF CallStep, Moves
  <2> QED BY <2>4, <2>5 DEF CallsTrue
<1>4. ASSUME NEW c \in imp[w].todo, Inserts(w, c), NEW n \in Names, rows'[n].status = "active"
      PROVE  Shows(rows'[n], tables[n])
  <2> DEFINE b == ParseBound(c.bound)
  <2>1. rows' = [rows EXCEPT ![c.name] = Row(b)]
    BY <1>4 DEF Inserts
  <2>2. CASE n # c.name
    <3>1. rows'[n] = rows[n]
      BY <1>0, <2>1, <2>2 DEF TypeOK
    <3> QED BY <1>4, <3>1 DEF TruthInv
  <2>3. CASE n = c.name
    <3>1. Attached(n) /\ tables[n].bound = c.bound
      BY <1>0, <1>4, <2>3 DEF CallsTrue, CallTrue, StillThere, Inserts, Tracked
    <3>2. c.bound \in Bounds /\ c.bound.tenant \in Seq(Segments)
      BY <1>0 DEF ChildrenOf, Bounds, BoundsOf
    <3>3. b.from = c.bound.from /\ b.tenant = Upper(c.bound.tenant)
      BY <3>2 DEF ParseBound, Bounds, BoundsOf
    <3>4. rows'[n].bound = b
      BY <1>0, <2>1, <2>3 DEF TypeOK, Row
    <3>5. Upper(b.tenant) = Upper(c.bound.tenant)
      BY <3>2, <3>3, UpperFacts
    <3> QED BY <3>1, <3>3, <3>4, <3>5 DEF Shows, Attached
  <2> QED BY <2>2, <2>3
<1>5. \A n \in Names : rows'[n].status = "active" => Shows(rows'[n], tables[n])
  <2>1. CASE rows' = rows
    BY <2>1 DEF TruthInv
  <2> QED BY <1>0, <1>4, <2>1, ImportWrites
<1> QED BY <1>0, <1>1, <1>3, <1>5 DEF TruthInv

\* So do those of the rest of the library, in order.
LEMMA OthersTrue == ASSUME Orderly, TruthInv, Others PROVE TruthInv'
<1>0. TypeOK /\ TypeOK' /\ CallsOK /\ CallsTrue
  BY OthersTypes, TypeParts DEF TruthInv
<1>1. ASSUME Written, Keeps PROVE CallsTrue'
  <2> SUFFICES ASSUME NEW w \in Importers PROVE CallTrue(imp[w])'
    BY DEF CallsTrue
  <2>1. SameCall(imp[w], imp'[w]) /\ CallTrue(imp[w]) /\ imp[w].todo \subseteq ChildrenOf
    BY <1>0, <1>1, WrittenCalls DEF CallsTrue, TypeOK, Imports
  <2>2. ASSUME NEW c \in imp[w].todo PROVE StillThere(c)'
    BY <1>1, <2>1, StaysThere DEF CallTrue
  <2> QED BY <2>1, <2>2 DEF CallTrue, SameCall
  \* Removals happen while nobody imports, when no call has children to do.
<1>2. ASSUME Written, Undisturbed PROVE CallsTrue'
  <2> SUFFICES ASSUME NEW w \in Importers PROVE CallTrue(imp[w])'
    BY DEF CallsTrue
  <2>1. SameCall(imp[w], imp'[w]) /\ imp[w].todo = {}
    BY <1>0, <1>2, WrittenCalls DEF CallsTrue, CallTrue, Undisturbed, Importing
  <2> QED BY <2>1 DEF CallTrue, SameCall
<1>3. ASSUME NEW len \in Lengths, RegisterParent(len) PROVE TruthInv'
  <2>1. rows' = rows /\ tables' = tables /\ Written
    BY <1>3 DEF RegisterParent
  <2>2. Keeps
    BY <2>1 DEF Keeps
  <2> QED BY <1>0, <1>1, <2>1, <2>2 DEF TruthInv
<1>4. CASE RemoveParent
  <2>1. tables' = tables /\ Written /\ Undisturbed
    BY <1>4 DEF RemoveParent, Orderly
  <2>2. \A n \in Names : rows'[n].status # "active"
    BY <1>4 DEF RemoveParent, NoRow
  <2> QED BY <1>0, <1>2, <2>1, <2>2 DEF TruthInv
<1>5. CASE NextDay
  <2>1. CallsTrue'
    BY <1>0, <1>5 DEF NextDay, CallsTrue, CallTrue, StillThere, Attached
  <2> QED BY <1>0, <1>5, <2>1 DEF NextDay, TruthInv
<1>6. ASSUME NEW t \in TenantIds, RegisterTenant(t) PROVE TruthInv'
  <2>1. rows' = rows /\ tables' = tables /\ Written
    BY <1>6 DEF RegisterTenant
  <2>2. Keeps
    BY <2>1 DEF Keeps
  <2> QED BY <1>0, <1>1, <2>1, <2>2 DEF TruthInv
<1>7. ASSUME NEW t \in tenants, RemoveTenant(t) PROVE TruthInv'
  <2>1. tables' = tables /\ Written /\ Undisturbed
    BY <1>7 DEF RemoveTenant, Orderly
  <2>2. \A n \in Names : rows'[n] = rows[n] \/ rows'[n].status # "active"
    BY <1>7 DEF RemoveTenant, NoRow
  <2> QED BY <1>0, <1>2, <2>1, <2>2 DEF TruthInv
<1>8. ASSUME NEW t \in TenantKeys, EnsurePartitions(t) PROVE TruthInv'
  <2>0. Written
    BY <1>8 DEF EnsurePartitions
  <2>1. ASSUME NEW n \in Names
        PROVE  /\ rows[n].status # "none" => rows'[n].status # "none"
               /\ Attached(n) => tables'[n] = tables[n]
               /\ TableTrue(n, tables'[n])
               /\ rows'[n].status = "active" => Shows(rows'[n], tables'[n])
    <3>0. TableTrue(n, tables[n]) /\ (rows[n].status = "active" => Shows(rows[n], tables[n]))
      BY DEF TruthInv
    <3>1. CASE rows'[n] = rows[n] /\ tables'[n] = tables[n]
      BY <3>0, <3>1
    <3>2. ASSUME NEW b, OwnBound(n, t, b),
                 tables'[n] = IF tables[n].at = "none" THEN Table(b) ELSE tables[n],
                 rows'[n] = IF Conflicts(n, b) THEN rows[n] ELSE Row(b)
          PROVE  /\ rows[n].status # "none" => rows'[n].status # "none"
                 /\ Attached(n) => tables'[n] = tables[n]
                 /\ TableTrue(n, tables'[n])
                 /\ rows'[n].status = "active" => Shows(rows'[n], tables'[n])
      <4>1. Attached(n) => tables'[n] = tables[n]
        BY <3>2 DEF Attached
      <4>2. Row(b).status = "active" /\ Table(b).at = "attached" /\ Table(b).bound = b
        BY DEF Row, Table
      <4>3. Tells(n, b)
        BY <1>0, <3>2, OwnBoundTells
      <4>4. tables'[n].at = "attached" /\ Tells(n, tables'[n].bound)
        BY <3>0, <3>2, <4>2, <4>3 DEF TableTrue
      <4>5. Shows(Row(b), tables'[n])
        BY <1>0, <3>2, <4>4, OwnBoundShows
      <4>6. rows[n].status = "active" => Shows(rows[n], tables'[n])
        BY <3>0, <4>1 DEF Shows, Attached
      <4> QED BY <3>2, <4>1, <4>2, <4>4, <4>5, <4>6 DEF TableTrue
    <3> QED BY <1>0, <1>8, <3>1, <3>2, EnsureWrites
  <2>2. Keeps
    BY <2>1 DEF Keeps
  <2> QED BY <1>0, <1>1, <2>0, <2>1, <2>2 DEF TruthInv
<1>9. ASSUME NEW n \in Names, NEW detach \in {FALSE, Detaches}, Sweep(n, detach) PROVE TruthInv'
  <2>1. detach = FALSE
    BY DEF Orderly
  <2>2. /\ rows[n].status = "active" /\ Written
        /\ tables' = [tables EXCEPT ![n] = NoTable]
        /\ rows' = [rows EXCEPT ![n].status = "dropped"]
    BY <1>9, <2>1 DEF Sweep
  <2>3. rows'[n].status = "dropped" /\ tables'[n] = NoTable
    BY <1>0, <2>2 DEF TypeOK, RowsOf
  <2>4. \A m \in Names \ {n} : rows'[m] = rows[m] /\ tables'[m] = tables[m]
    BY <1>0, <2>2 DEF TypeOK
  <2>5. Keeps
    BY <2>2, <2>3, <2>4 DEF Keeps
  <2>6. TableTrue(n, NoTable)
    BY DEF TableTrue, NoTable
  <2> QED BY <1>0, <1>1, <2>2, <2>3, <2>4, <2>5, <2>6 DEF TruthInv
<1> QED BY <1>3, <1>4, <1>5, <1>6, <1>7, <1>8, <1>9 DEF Others

\* However old the list of children an import works from, an active row has
\* its table attached and says where its range begins and whose it is, for
\* any number of importers and through every registration of the parent
\* (importer.go insertMetadata; provisioner.go createInTx).
THEOREM ActiveIsTrue == ASSUME Orderly PROVE Spec => []ActiveIsAttached
<1>1. TruthInv /\ [Next]_vars => TruthInv'
  <2> SUFFICES ASSUME TruthInv, [Next]_vars PROVE TruthInv'
    OBVIOUS
  <2>1. CASE Others
    BY <2>1, OthersTrue
  <2>2. ASSUME NEW w \in Importers, ImportStep(w) \/ ImportFault(w) PROVE TruthInv'
    BY <2>2, ImportTrue
  <2>3. CASE UNCHANGED vars
    <3>1. TypeOK'
      BY <2>3, TypeNext DEF TruthInv
    <3>2. CallsTrue'
      BY <2>3 DEF vars, dbVars, TruthInv, CallsTrue, CallTrue, StillThere, Attached
    <3> QED BY <2>3, <3>1, <3>2 DEF vars, dbVars, TruthInv
  <2> QED BY <2>1, <2>2, <2>3 DEF Next
<1>2. TruthInv => ActiveIsAttached
  BY DEF TruthInv, Shows, ActiveIsAttached, Attached
<1>3. Init => TruthInv
  BY TruthInit
<1> QED BY <1>1, <1>2, <1>3, PTL DEF Spec

-----------------------------------------------------------------------------
(* Parse reads what Build wrote *)

\* Identifiers that a name keeps apart: the parent has one segment or does
\* not end in one that looks like a tenant, a tenant has one segment.
Plain == /\ Offsets = "hours" /\ ParentName # << >>
         /\ Len(ParentName) > 1 => Last(ParentName) \notin UpperAlnum
         /\ \A t \in TenantIds \cup {a.bound.tenant : a \in Adopted} : Len(t) <= 1

\* Upper case keeps the number of segments.
LEMMA UpperLen == ASSUME NEW t \in Seq(Segments) PROVE Len(Upper(t)) = Len(t)
<1>1. DOMAIN Upper(t) = 1 .. Len(t)
  BY DEF Upper
<1> QED BY <1>1, UpperFacts

\* Tenants of a plain parent have at most one segment.
LEMMA PlainKeys == ASSUME Plain PROVE \A t \in TenantKeys : Len(t) <= 1
<1> SUFFICES ASSUME NEW t \in TenantKeys PROVE Len(t) <= 1
  OBVIOUS
<1> DEFINE ids == TenantIds \cup {a.bound.tenant : a \in Adopted}
<1>1. ids \subseteq Seq(Segments)
  BY ImporterAssumption, AdoptedAssumption DEF Bounds, BoundsOf
<1>2. \A u \in ids : Len(u) <= 1 /\ Len(Upper(u)) <= 1
  BY <1>1, UpperLen DEF Plain
<1>3. Len(NoTenant) <= 1
  BY DEF NoTenant
<1>4. t = NoTenant \/ t \in ids \/ \E u \in ids : t = Upper(u)
  BY DEF TenantKeys
<1> QED BY <1>2, <1>3, <1>4

\* Parse gives the suffix and, up to capitals, the tenant back.
LEMMA ParseBuild ==
    ASSUME NEW p \in Seq(Segments), p # << >>, Len(p) > 1 => Last(p) \notin UpperAlnum,
           NEW t \in Seq(Segments), Len(t) <= 1, NEW f
    PROVE  /\ Parse(Build(p, t, f)).suffix = f
           /\ Upper(Parse(Build(p, t, f)).tenant) = Upper(t)
<1> DEFINE u == Upper(t)
           n == Build(p, t, f)
<1>1. u \in Seq(Segments) /\ Upper(u) = u /\ Len(u) = Len(t)
  BY UpperFacts, UpperLen
<1>2. n.segs = p \o u /\ n.suffix = f
  BY DEF Build
<1>3. Parse(n).suffix = f
  BY <1>2 DEF Parse
<1>4. CASE t = << >>
  <2>1. u = NoTenant /\ t = NoTenant
    BY <1>4, UpperNone DEF NoTenant
  <2>2. n.segs = p
    BY <1>2, <2>1, ConcatEmptySeq DEF NoTenant
  <2>3. ~HasTenantSegment(n)
    BY <2>2 DEF HasTenantSegment
  <2>4. Parse(n).tenant = NoTenant
    BY <2>3 DEF Parse
  <2> QED BY <1>3, <2>1, <2>4
<1>5. CASE t # << >>
  <2>1. Len(t) = 1
    <3>1. Len(t) \in Nat \ {0}
      BY <1>5, EmptySeq
    <3>2. \A k \in Nat \ {0} : k <= 1 => k = 1
      OBVIOUS
    <3> QED BY <3>1, <3>2, Zenon
  <2>2. u[1] = UpperOf[t[1]] /\ t[1] \in Segments
    BY <2>1 DEF Upper
  <2>3. u[1] \in UpperAlnum
    BY <2>2, NamingAssumption
  <2> HIDE DEF u
  <2>4. u = <<u[1]>>
    BY <1>1, <2>1
  <2>5. /\ Len(p \o u) = Len(p) + Len(u)
        /\ \A i \in 1 .. Len(p) + Len(u) : (p \o u)[i] = IF i <= Len(p) THEN p[i] ELSE u[i - Len(p)]
    BY <1>1, ConcatProperties
  <2>6. Len(p) \in Nat /\ Len(p) >= 1
    OBVIOUS
  <2>7. Len(p \o u) = Len(p) + 1 /\ (p \o u)[Len(p) + 1] = u[1]
    BY <1>1, <2>1, <2>5, <2>6
  <2>8. HasTenantSegment(n) /\ Last(n.segs) = u[1]
    BY <1>2, <2>3, <2>6, <2>7 DEF HasTenantSegment, Last
  <2>9. Parse(n).tenant = u
    BY <2>4, <2>8 DEF Parse
  <2> QED BY <1>1, <1>3, <2>9 DEF u
<1> QED BY <1>4, <1>5

\* A child with the name that EnsurePartitions gives to its bound is accepted.
LEMMA OwnAccepted ==
    ASSUME Plain, NEW c \in ChildrenOf, c.bound.kind = "range", Len(c.bound.tenant) <= 1,
           c.name = Build(ParentName, c.bound.tenant, c.bound.from)
    PROVE  Accepts(c)
<1>1. c.bound.tenant \in Seq(Segments) /\ c.bound.from \in Nat /\ c.bound \in Bounds
  BY DEF ChildrenOf, Bounds, BoundsOf
<1>2. c.name.suffix = c.bound.from
  BY DEF Build
<1>3. ParentName \in Seq(Segments) /\ ParentName # << >>
      /\ (Len(ParentName) > 1 => Last(ParentName) \notin UpperAlnum)
  BY ImporterAssumption DEF Plain
<1>4. /\ Parse(c.name).suffix = c.bound.from
      /\ Upper(Parse(c.name).tenant) = Upper(c.bound.tenant)
  BY <1>1, <1>3, ParseBuild
<1>5. /\ ParseBound(c.bound).kind = "range" /\ ParseBound(c.bound).from = c.bound.from
      /\ ParseBound(c.bound).tenant = Upper(c.bound.tenant)
  BY <1>1 DEF ParseBound, Bounds, BoundsOf
<1>6. c.bound.from # Default /\ c.bound.from # Odd
  BY <1>1 DEF Default, Odd
<1>7. Aligned(c)
  BY <1>4, <1>5, <1>6 DEF Aligned
<1>8. ~Skips(c)
  BY <1>2, <1>6 DEF Skips, Parses, Readable, Plain
<1> QED BY <1>7, <1>8 DEF Accepts

\* What a call has rejected are names of children it listed, each under one
\* bound, that it does not accept.
CallReads(call) ==
    /\ call.step \in {"idle", "children"} => Rejected(call) = {}
    /\ \A c \in call.children : Len(c.bound.tenant) <= 1
    /\ \A c, d \in call.children : c.name = d.name => c = d
    /\ \A n \in Rejected(call) : \E c \in call.children : c.name = n /\ ~Accepts(c)
CallsRead == \A w \in Importers : CallReads(imp[w])
TablesRead == \A n \in Names : Len(tables[n].bound.tenant) <= 1

ReadInv == TypeOK /\ TablesRead /\ CallsRead

\* A call that has not begun has read nothing.
LEMMA NoCallReads == CallReads(NoImport)
BY DEF CallReads, NoImport, NoReport, Rejected

\* A call that keeps its list reads it as before.
LEMMA SameCallReads == ASSUME NEW r, NEW s, CallReads(r), SameCall(r, s) PROVE CallReads(s)
BY DEF CallReads, SameCall, Rejected

\* At first only adopted children are there.
LEMMA ReadInit == ASSUME Plain PROVE Init => ReadInv
<1> SUFFICES ASSUME Init PROVE ReadInv
  OBVIOUS
<1>0. Len(DefaultBound.tenant) <= 1
  BY DEF DefaultBound, NoTenant
<1>1. ASSUME NEW n \in Names PROVE Len(tables[n].bound.tenant) <= 1
  <2>1. CASE \E a \in Adopted : a.name = n
    <3> DEFINE a == CHOOSE a \in Adopted : a.name = n
    <3>1. a \in Adopted
      BY <2>1
    <3>2. tables[n] = Table(a.bound)
      BY <2>1 DEF Init
    <3> HIDE DEF a
    <3>3. Len(a.bound.tenant) <= 1
      BY <3>1 DEF Plain
    <3> QED BY <3>2, <3>3 DEF Table
  <2>2. CASE ~\E a \in Adopted : a.name = n
    BY <1>0, <2>2 DEF Init, NoTable
  <2> QED BY <2>1, <2>2
<1>2. CallsRead
  BY NoCallReads DEF Init, CallsRead
<1> QED BY <1>1, <1>2, TypeInit DEF ReadInv, TablesRead

\* Steps of imports keep ReadInv.
LEMMA ImportReads ==
    ASSUME ReadInv, NEW w \in Importers, ImportStep(w) \/ ImportFault(w)
    PROVE  ReadInv'
<1>0. TypeOK /\ TypeOK' /\ CallsRead /\ TablesRead
  BY ImportTypes DEF ReadInv
<1>1. CallStep(w) /\ tables' = tables
  BY <1>0, ImportCalls, ImportWrites
<1>2. ASSUME NEW v \in Importers \ {w} PROVE CallReads(imp'[v])
  BY <1>0, <1>1, SameCallReads DEF CallStep, CallsRead
<1>3. CallReads(imp'[w])
  <2>0. CallReads(imp[w]) /\ imp[w].todo \subseteq imp[w].children
    BY <1>0 DEF CallsRead, TypeOK
  <2>1. CASE imp'[w] = NoImport
    BY <2>1, NoCallReads
  <2>2. CASE Starts(imp[w], imp'[w])
    BY <2>2 DEF CallReads, Starts
  <2>3. CASE Lists(imp[w], imp'[w])
    <3>1. \A c \in Children : Len(c.bound.tenant) <= 1
      BY <1>0 DEF Children, TablesRead
    <3>2. \A c, d \in Children : c.name = d.name => c = d
      BY DEF Children
    <3> QED BY <2>0, <2>3, <3>1, <3>2 DEF CallReads, Lists
  <2>4. CASE GoesOn(imp[w], imp'[w])
    BY <2>0, <2>4 DEF CallReads, GoesOn
  <2> QED BY <1>1, <2>1, <2>2, <2>3, <2>4 DEF CallStep, Moves
<1> QED BY <1>0, <1>1, <1>2, <1>3 DEF ReadInv, CallsRead, TablesRead

\* So do those of the rest of the library.
LEMMA OthersRead == ASSUME Plain, ReadInv, Others PROVE ReadInv'
<1>0. TypeOK /\ TypeOK' /\ CallsOK /\ CallsRead /\ TablesRead
  BY OthersTypes, TypeParts DEF ReadInv
<1>1. CASE NextDay
  BY <1>0, <1>1 DEF NextDay, ReadInv, CallsRead, TablesRead
<1>2. ASSUME Written, TablesRead' PROVE ReadInv'
  <2>1. \A w \in Importers : CallReads(imp'[w])
    BY <1>0, <1>2, WrittenCalls, SameCallReads DEF CallsRead
  <2> QED BY <1>0, <1>2, <2>1 DEF ReadInv, CallsRead
<1>3. ASSUME NEW len \in Lengths, RegisterParent(len) PROVE Written /\ TablesRead'
  BY <1>0, <1>3 DEF RegisterParent, TablesRead
<1>4. CASE RemoveParent
  <2>1. Written /\ TablesRead'
    BY <1>0, <1>4 DEF RemoveParent, TablesRead
  <2> QED BY <1>2, <2>1
<1>5. ASSUME NEW t \in TenantIds, RegisterTenant(t) PROVE Written /\ TablesRead'
  BY <1>0, <1>5 DEF RegisterTenant, TablesRead
<1>6. ASSUME NEW t \in tenants, RemoveTenant(t) PROVE Written /\ TablesRead'
  BY <1>0, <1>6 DEF RemoveTenant, TablesRead
<1>7. ASSUME NEW t \in TenantKeys, EnsurePartitions(t) PROVE Written /\ TablesRead'
  <2>1. ASSUME NEW n, NEW b, OwnBound(n, t, b) PROVE Len(b.tenant) <= 1
    BY <2>1, PlainKeys DEF OwnBound, RangeBound, DefaultBound, NoTenant
  <2>2. ASSUME NEW n \in Names PROVE Len(tables'[n].bound.tenant) <= 1
    <3>1. tables'[n] = tables[n] \/ \E b : OwnBound(n, t, b) /\ tables'[n] = Table(b)
      BY <1>0, <1>7, EnsureWrites
    <3>2. \A b : Table(b).bound = b
      BY DEF Table
    <3>3. CASE tables'[n] = tables[n]
      BY <1>0, <3>3 DEF TablesRead
    <3> QED BY <2>1, <3>1, <3>2, <3>3
  <2> QED BY <1>7, <2>2 DEF TablesRead, EnsurePartitions
<1>8. ASSUME NEW n \in Names, NEW detach \in {FALSE, Detaches}, Sweep(n, detach)
      PROVE  Written /\ TablesRead'
  <2>1. \A m \in Names : tables'[m].bound = tables[m].bound \/ tables'[m] = NoTable
    BY <1>0, <1>8 DEF Sweep, TypeOK, TablesOf
  <2>2. Len(NoTable.bound.tenant) <= 1
    BY DEF NoTable, DefaultBound, NoTenant
  <2> QED BY <1>0, <1>8, <2>1, <2>2 DEF Sweep, TablesRead
<1> QED BY <1>1, <1>2, <1>3, <1>4, <1>5, <1>6, <1>7, <1>8 DEF Others

\* Parse reads what Build wrote: no import reports a child that has the name
\* EnsurePartitions gives to its bound as drifted or skipped, whatever else
\* it listed and whatever happened since (naming.go Build and Parse,
\* importer.go compareNameAndBound).
THEOREM OwnNamesAreRead == ASSUME Plain PROVE Spec => OwnIsRecognised
<1>1. ReadInv /\ [Next]_vars => ReadInv'
  <2> SUFFICES ASSUME ReadInv, [Next]_vars PROVE ReadInv'
    OBVIOUS
  <2>1. CASE Others
    BY <2>1, OthersRead
  <2>2. ASSUME NEW w \in Importers, ImportStep(w) \/ ImportFault(w) PROVE ReadInv'
    BY <2>2, ImportReads
  <2>3. CASE UNCHANGED vars
    BY <2>3, TypeNext DEF vars, dbVars, ReadInv, CallsRead, TablesRead
  <2> QED BY <2>1, <2>2, <2>3 DEF Next
<1>2. ASSUME ReadInv, NEW w \in Importers, NEW c \in imp[w].children, c.bound.kind = "range",
             c.name = Build(ParentName, c.bound.tenant, c.bound.from)
      PROVE  c.name \notin imp[w].report.drifted \cup imp[w].report.skipped
  <2>1. c \in ChildrenOf /\ CallReads(imp[w])
    BY <1>2 DEF ReadInv, CallsRead, TypeOK, Imports
  <2>2. Accepts(c)
    BY <1>2, <2>1, OwnAccepted DEF CallReads
  <2> QED BY <2>1, <2>2 DEF CallReads, Rejected
<1>3. Init => ReadInv
  BY ReadInit
<1>4. ReadInv => \A w \in Importers : Returns(w) =>
          \A c \in imp[w].children :
             c.bound.kind = "range" /\ c.name = Build(ParentName, c.bound.tenant, c.bound.from) =>
                c.name \notin imp[w].report.drifted \cup imp[w].report.skipped
  BY <1>2
<1> QED BY <1>1, <1>3, <1>4, PTL DEF Spec, OwnIsRecognised

=============================================================================
