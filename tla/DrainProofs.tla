---------------------------- MODULE DrainProofs ----------------------------
(***************************************************************************)
(* Module Drain, for every table, every stream of client writes and every  *)
(* point at which a drain may fail: no row is lost or doubled, and what a  *)
(* drain leaves behind is in its report.                                   *)
(***************************************************************************)
EXTENDS Drain, FiniteSetTheorems, TLAPS

\* Where the default table holds a row.
Where(r) == {s \in Slots : heap[s] = r}

-----------------------------------------------------------------------------
(* Counting *)

\* A row is in finitely many places.
LEMMA WhereFinite ==
    ASSUME NEW r
    PROVE  /\ IsFiniteSet(Where(r)) /\ Cardinality(Where(r)) \in Nat
           /\ Cardinality(Where(r)) = 0 <=> Where(r) = {}
<1>1. IsFiniteSet(Where(r))
  BY DrainAssumption, FS_Subset DEF Where
<1> QED BY <1>1, FS_CardinalityType, FS_EmptySet

\* A finite set splits into the part outside H and the part in it.
LEMMA CardinalitySplit ==
    ASSUME NEW W, IsFiniteSet(W), NEW H
    PROVE  Cardinality(W) = Cardinality(W \ H) + Cardinality(W \cap H)
<1>1. /\ IsFiniteSet(W \ H) /\ IsFiniteSet(W \cap H)
      /\ (W \ H) \cup (W \cap H) = W /\ (W \ H) \cap (W \cap H) = {}
  BY FS_Subset
<1>2. Cardinality(W \ H) \in Nat /\ Cardinality(W \cap H) \in Nat /\ Cardinality({}) = 0
  BY <1>1, FS_CardinalityType, FS_EmptySet
<1>3. ASSUME NEW A, IsFiniteSet(A), NEW B, IsFiniteSet(B)
      PROVE  Cardinality(A \cup B) = Cardinality(A) + Cardinality(B) - Cardinality(A \cap B)
  BY <1>3, FS_Union
<1>4. Cardinality((W \ H) \cup (W \cap H)) =
        Cardinality(W \ H) + Cardinality(W \cap H) - Cardinality((W \ H) \cap (W \cap H))
  BY <1>1, <1>3
<1>5. Cardinality(W) = Cardinality(W \ H) + Cardinality(W \cap H) - 0
  BY <1>1, <1>2, <1>4
<1> QED BY <1>2, <1>5

-----------------------------------------------------------------------------
(* The invariant: the counts make each other good. *)

\* TypeOK, with the copies in the children only known to be a number.
Typed ==
    /\ heap \in [Slots -> Rows \cup {NoRow}]
    /\ attached \in BOOLEAN
    /\ children \subseteq Provisioned
    /\ placed \in [Rows -> Nat]
    /\ live \subseteq Rows
    /\ drain \in [step : Steps, filter : Filters \cup {Null}, limit : Limits \cup {0}, batch : Nat,
                  groups : SUBSET Groups, anomalies : [Keys -> 0 .. MaxCount],
                  nulls : SUBSET (Tenants \cup {Empty, Null})]
    /\ rewrites \in 0 .. MaxRewrites /\ faults \in 0 .. MaxFaults

\* With the rows conserved no child holds a row twice.
LEMMA TypedAndConserved ==
    ASSUME Typed, RowsConserved PROVE TypeOK
<1>1. \A r \in Rows : placed[r] \in Nat /\ Cardinality(Where(r)) \in Nat
  BY WhereFinite DEF Typed
<1>2. \A r \in Rows : placed[r] + Cardinality(Where(r)) \in {0, 1}
  BY DEF RowsConserved, Copies, Where
<1>3. \A r \in Rows : placed[r] \in 0 .. 1
  BY <1>1, <1>2
<1> QED BY <1>3 DEF Typed, TypeOK

\* TypeOK is enough for Typed.
LEMMA TypeOKTyped == TypeOK => Typed
BY DEF TypeOK, Typed

\* What a step that leaves the table alone leaves conserved.
LEMMA TableUnchanged ==
    ASSUME RowsConserved, UNCHANGED <<heap, placed, live>> PROVE RowsConserved'
BY DEF RowsConserved, Copies

\* A group that moves takes its rows out of the default and into the child,
\* in one statement.
LEMMA MovesConserve ==
    ASSUME Typed, RowsConserved, NEW g, Moves(g), UNCHANGED live
    PROVE  RowsConserved' /\ heap' \in [Slots -> Rows \cup {NoRow}] /\ placed' \in [Rows -> Nat]
<1>0. /\ heap \in [Slots -> Rows \cup {NoRow}] /\ placed \in [Rows -> Nat]
      /\ heap' = [s \in Slots |-> IF s \in Hit(g) THEN NoRow ELSE heap[s]]
      /\ placed' = [r \in Rows |-> placed[r] + Cardinality({s \in Hit(g) : heap[s] = r})]
  BY DEF Typed, Moves
<1>1. ASSUME NEW r \in Rows
      PROVE  /\ Where(r)' = Where(r) \ Hit(g)
             /\ {s \in Hit(g) : heap[s] = r} = Where(r) \cap Hit(g)
  BY <1>0, DrainAssumption DEF Where, Hit, Used
<1>2. ASSUME NEW r \in Rows
      PROVE  Cardinality({s \in Hit(g) : heap[s] = r}) \in Nat
  BY <1>1, WhereFinite, FS_Subset, FS_CardinalityType
<1>3. placed' \in [Rows -> Nat]
  BY <1>0, <1>2
<1>4. heap' \in [Slots -> Rows \cup {NoRow}]
  BY <1>0
<1>5. ASSUME NEW r \in Rows PROVE Copies(r)' = Copies(r)
  <2> DEFINE W == Where(r)  H == Hit(g)
  <2>1. Cardinality(W) = Cardinality(W \ H) + Cardinality(W \cap H)
    BY WhereFinite, CardinalitySplit
  <2>2. /\ IsFiniteSet(W \ H) /\ IsFiniteSet(W \cap H)
    BY WhereFinite, FS_Subset
  <2>3. Cardinality(W \ H) \in Nat /\ Cardinality(W \cap H) \in Nat /\ placed[r] \in Nat
    BY <1>0, <2>2, FS_CardinalityType
  <2>4. placed'[r] = placed[r] + Cardinality(W \cap H)
    BY <1>0, <1>1
  <2>5. Copies(r)' = placed'[r] + Cardinality(W \ H) /\ Copies(r) = placed[r] + Cardinality(W)
    BY <1>1 DEF Copies, Where
  <2> HIDE DEF W, H
  <2> QED BY <2>1, <2>3, <2>4, <2>5
<1> QED BY <1>3, <1>4, <1>5 DEF RowsConserved

\* A client inserts a row that is nowhere.
LEMMA InsertConserves ==
    ASSUME Typed, RowsConserved, NEW r \in Rows, ClientInsert(r)
    PROVE  RowsConserved' /\ heap' \in [Slots -> Rows \cup {NoRow}] /\ placed' \in [Rows -> Nat]
<1>0. /\ heap \in [Slots -> Rows \cup {NoRow}] /\ placed \in [Rows -> Nat]
      /\ live' = live \cup {r} /\ r \notin live
  BY DEF Typed, ClientInsert
<1>1. /\ placed[r] + Cardinality(Where(r)) = 0 /\ placed[r] \in Nat
      /\ Cardinality(Where(r)) \in Nat
  BY <1>0, WhereFinite DEF RowsConserved, Copies, Where
<1>2. CASE placed' = [placed EXCEPT ![r] = @ + 1] /\ UNCHANGED heap
  <2>1. \A q \in Rows : Cardinality(Where(q)) \in Nat
    BY WhereFinite
  <2> QED BY <1>0, <1>1, <1>2, <2>1 DEF RowsConserved, Copies, Where
<1>3. ASSUME NEW s \in Slots \ Used, heap' = [heap EXCEPT ![s] = r], UNCHANGED placed
      PROVE  RowsConserved' /\ heap' \in [Slots -> Rows \cup {NoRow}]
  <2>1. heap[s] = NoRow /\ \A q \in Slots : heap'[q] = IF q = s THEN r ELSE heap[q]
    BY <1>0, <1>3 DEF Used
  <2>2. Where(r) = {}
    BY <1>1, WhereFinite
  <2>3. Where(r)' = {s}
    BY <2>1, <2>2, <1>3 DEF Where
  <2>4. \A q \in Rows : q # r => Where(q)' = Where(q)
    BY <2>1, DrainAssumption DEF Where
  <2>5. Copies(r)' = 1
    <3>1. Cardinality({s}) = 1
      BY FS_Singleton
    <3>2. placed[r] = 0
      BY <1>1
    <3>3. Copies(r)' = placed'[r] + Cardinality(Where(r)')
      BY DEF Copies, Where
    <3> QED BY <1>3, <2>3, <3>1, <3>2, <3>3
  <2>6. \A q \in Rows : q # r => Copies(q)' = Copies(q)
    BY <1>3, <2>4 DEF Copies, Where
  <2> QED BY <1>0, <1>3, <2>5, <2>6 DEF RowsConserved
<1> QED BY <1>0, <1>2, <1>3 DEF ClientInsert

\* A rewrite takes one version away and, unless it is a delete, adds one.
LEMMA RewriteConserves ==
    ASSUME Typed, RowsConserved, NEW s \in Slots, ClientRewrite(s)
    PROVE  RowsConserved' /\ heap' \in [Slots -> Rows \cup {NoRow}] /\ live' \subseteq Rows
<1>a. heap \in [Slots -> Rows \cup {NoRow}] /\ heap[s] \in Rows
  BY DEF Typed, ClientRewrite, Used
<1>b. PICK r \in Rows : r = heap[s]
  BY <1>a
<1>0. /\ heap \in [Slots -> Rows \cup {NoRow}] /\ placed \in [Rows -> Nat] /\ UNCHANGED placed
      /\ r = heap[s] /\ live \subseteq Rows /\ r # NoRow
  BY <1>a, <1>b, DrainAssumption DEF Typed, ClientRewrite
<1>1. s \in Where(r) /\ Cardinality(Where(r)) \in Nat /\ Cardinality(Where(r)) # 0
  BY <1>0, WhereFinite DEF Where
<1>2. Cardinality(Where(r) \ {s}) = Cardinality(Where(r)) - 1
  BY <1>1, WhereFinite, FS_RemoveElement
<1>3. ASSUME NEW q \in Slots \ Used, heap' = [heap EXCEPT ![s] = NoRow, ![q] = heap[s]],
             UNCHANGED live
      PROVE  RowsConserved' /\ heap' \in [Slots -> Rows \cup {NoRow}]
  <2>1. q # s /\ heap[q] = NoRow
    BY <1>0, <1>3 DEF Used
  <2>2. \A t \in Slots : heap'[t] = IF t = q THEN r ELSE IF t = s THEN NoRow ELSE heap[t]
    BY <1>0, <1>3, <2>1
  <2>3. Where(r)' = (Where(r) \ {s}) \cup {q} /\ q \notin Where(r) \ {s}
    BY <1>0, <2>1, <2>2, DrainAssumption DEF Where
  <2>4. \A p \in Rows : p # r => Where(p)' = Where(p)
    BY <1>0, <2>1, <2>2, DrainAssumption DEF Where
  <2>5. Cardinality(Where(r)') = Cardinality(Where(r))
    <3>1. IsFiniteSet(Where(r) \ {s})
      BY WhereFinite, FS_Subset
    <3>2. Cardinality((Where(r) \ {s}) \cup {q}) = Cardinality(Where(r) \ {s}) + 1
      BY <2>3, <3>1, FS_AddElement
    <3> QED BY <1>1, <1>2, <2>3, <3>2
  <2>6. \A p \in Rows : Copies(p)' = Copies(p)
    BY <1>0, <2>4, <2>5 DEF Copies, Where
  <2>7. heap' \in [Slots -> Rows \cup {NoRow}]
    BY <1>0, <1>3
  <2> QED BY <1>3, <2>6, <2>7 DEF RowsConserved
<1>4. ASSUME heap' = [heap EXCEPT ![s] = NoRow], live' = live \ {heap[s]}
      PROVE  RowsConserved' /\ heap' \in [Slots -> Rows \cup {NoRow}] /\ live' \subseteq Rows
  <2>2. \A t \in Slots : heap'[t] = IF t = s THEN NoRow ELSE heap[t]
    BY <1>0, <1>4
  <2>3. Where(r)' = Where(r) \ {s}
    BY <1>0, <2>2, DrainAssumption DEF Where
  <2>4. \A p \in Rows : p # r => Where(p)' = Where(p)
    BY <1>0, <2>2, DrainAssumption DEF Where
  <2>5. Copies(r)' = placed[r] + Cardinality(Where(r)) - 1
    BY <1>0, <1>1, <1>2, <2>3 DEF Copies, Where
  <2>6. placed[r] + Cardinality(Where(r)) \in {0, 1}
    BY <1>0 DEF RowsConserved, Copies, Where
  <2>7. Copies(r)' = 0
    BY <1>0, <1>1, <2>5, <2>6
  <2>8. \A p \in Rows : p # r => Copies(p)' = Copies(p)
    BY <1>0, <2>4 DEF Copies, Where
  <2>9. heap' \in [Slots -> Rows \cup {NoRow}]
    BY <1>0, <1>4
  <2> QED BY <1>0, <1>4, <2>7, <2>8, <2>9 DEF RowsConserved
<1> QED BY <1>0, <1>3, <1>4 DEF ClientRewrite

-----------------------------------------------------------------------------
(* The call *)

\* Counts of anomalies are natural numbers.
LEMMA CountsAreNumbers ==
    /\ MaxCount \in Nat \ {0}
    /\ \A T \in SUBSET Slots : IsFiniteSet(T) /\ Cardinality(T) \in Nat
BY DrainAssumption, FS_Subset, FS_CardinalityType DEF MaxCount

\* The rows of a batch have a control value, so their keys are Keys.
LEMMA CandidatesHaveKeys ==
    ASSUME Typed, NEW s \in Candidates
    PROVE  s \in Slots /\ heap[s] \in Rows /\ GroupKey(heap[s]) \in Keys
BY DEF Typed, Candidates, Dated, InScope, Used, Keys

\* The groups of a batch have slots and keys.
LEMMA GroupsTyped ==
    ASSUME Typed, NEW b \in SUBSET Candidates PROVE GroupsOf(b) \subseteq Groups
<1>1. \A s \in b : s \in Slots /\ GroupKey(heap[s]) \in Keys
  BY CandidatesHaveKeys
<1> QED BY <1>1 DEF GroupsOf, Groups

\* Every step of the call leaves a call.
LEMMA CallTyped ==
    ASSUME Typed, Call \/ DrainStep \/ DrainFault
    PROVE  drain' \in [step : Steps, filter : Filters \cup {Null}, limit : Limits \cup {0},
                       batch : Nat, groups : SUBSET Groups, anomalies : [Keys -> 0 .. MaxCount],
                       nulls : SUBSET (Tenants \cup {Empty, Null})]
<1> DEFINE D == [step : Steps, filter : Filters \cup {Null}, limit : Limits \cup {0},
                 batch : Nat, groups : SUBSET Groups, anomalies : [Keys -> 0 .. MaxCount],
                 nulls : SUBSET (Tenants \cup {Empty, Null})]
<1>0. drain \in D /\ heap \in [Slots -> Rows \cup {NoRow}]
  BY DEF Typed
<1>a. 0 \in 0 .. MaxCount /\ {} \in SUBSET Groups /\ {} \in SUBSET (Tenants \cup {Empty, Null})
      /\ 0 \in Nat
  BY CountsAreNumbers
<1>b. \A x \in Steps : [drain EXCEPT !.step = x] \in D
  BY <1>0
<1>1. ASSUME NEW f \in Filters, NEW n \in Limits, PartitionData(f, n) PROVE drain' \in D
  <2>1. [k \in Keys |-> 0] \in [Keys -> 0 .. MaxCount] /\ "read" \in Steps
    BY <1>a DEF Steps
  <2> QED BY <1>1, <1>a, <2>1 DEF PartitionData, NewCall
<1>2. CASE ReadBatch
  <2>1. PICK b \in SUBSET Candidates :
          drain' = IF b = {} THEN [drain EXCEPT !.step = "nulls"]
                   ELSE [drain EXCEPT !.step = "group", !.groups = GroupsOf(b), !.batch = Counted(@)]
    BY <1>2 DEF ReadBatch
  <2>2. GroupsOf(b) \in SUBSET Groups
    BY GroupsTyped
  <2>3. Counted(drain.batch) \in Nat
    BY <1>0 DEF Counted
  <2> HIDE DEF D
  <2>4. [drain EXCEPT !.step = "nulls"] \in D
    BY <1>b DEF Steps
  <2>5. [drain EXCEPT !.step = "group", !.groups = GroupsOf(b), !.batch = Counted(@)] \in D
    BY <1>0, <2>2, <2>3 DEF D, Steps
  <2>6. CASE b = {}
    BY <2>1, <2>4, <2>6 DEF D
  <2>7. CASE b # {}
    <3>1. drain' = [drain EXCEPT !.step = "group", !.groups = GroupsOf(b), !.batch = Counted(@)]
      BY <2>1, <2>7
    <3> QED BY <2>5, <3>1 DEF D
  <2> QED BY <2>6, <2>7
<1>3. CASE AppendNullAnomalies
  <2>1. {TenantOf[heap[s]] : s \in InScope \ Dated} \in SUBSET (Tenants \cup {Empty, Null})
    BY <1>0, DrainAssumption DEF InScope, Used
  <2>2. drain' = [drain EXCEPT !.step = "ok", !.nulls = {TenantOf[heap[s]] : s \in InScope \ Dated}]
    BY <1>3 DEF AppendNullAnomalies
  <2> QED BY <1>0, <2>1, <2>2 DEF Steps
<1>c. ASSUME NEW g \in drain.groups PROVE Done(g) \in D
  BY <1>0 DEF Done, Steps
<1>4. ASSUME NEW g \in drain.groups, RecordAnomaly(g) PROVE drain' \in D
  <2>1. g \in Groups
    BY <1>0
  <2>2. g.key \in Keys /\ g.slots \in SUBSET Slots
    BY <2>1 DEF Groups
  <2>3. Cardinality(g.slots) \in Nat
    BY <2>2, CountsAreNumbers
  <2>4. PICK d \in D : d = Done(g)
    BY <1>c
  <2>5. d.anomalies \in [Keys -> 0 .. MaxCount] /\ d.anomalies[g.key] \in 0 .. MaxCount
    BY <2>2, <2>4
  <2>6. PICK n \in 0 .. MaxCount :
          n = IF d.anomalies[g.key] + Cardinality(g.slots) < MaxCount
              THEN d.anomalies[g.key] + Cardinality(g.slots) ELSE MaxCount
    BY <2>3, <2>5, CountsAreNumbers
  <2>7. drain' = [d EXCEPT !.anomalies[g.key] = n]
    BY <1>4, <2>4, <2>6 DEF RecordAnomaly
  <2> QED BY <2>2, <2>4, <2>6, <2>7
<1>5. ASSUME NEW g \in drain.groups, MoveGroup(g) PROVE drain' \in D
  BY <1>5, <1>c DEF MoveGroup
<1>6. ASSUME NEW g \in drain.groups, MoveRejected(g) PROVE drain' \in D
  BY <1>6, <1>b DEF MoveRejected, Steps
<1>7. CASE DrainFault
  BY <1>7, <1>b DEF DrainFault, Steps
<1> QED BY <1>1, <1>2, <1>3, <1>4, <1>5, <1>6, <1>7 DEF Call, DrainStep

-----------------------------------------------------------------------------
(* The inductive invariant *)

DrainInv == Typed /\ RowsConserved

\* At first no row is anywhere.
LEMMA DrainInvInit ==
    ASSUME Init PROVE DrainInv
<1>1. 0 \in 0 .. MaxCount /\ 0 \in Nat /\ 0 \in 0 .. MaxRewrites /\ 0 \in 0 .. MaxFaults
  BY CountsAreNumbers, DrainAssumption
<1>2. [k \in Keys |-> 0] \in [Keys -> 0 .. MaxCount]
  BY <1>1
<1>3. drain = [step |-> "idle", filter |-> Null, limit |-> 0, batch |-> 0, groups |-> {},
               anomalies |-> [k \in Keys |-> 0], nulls |-> {}]
  BY DEF Init, NewCall
<1>4. Typed
  BY <1>1, <1>2, <1>3 DEF Init, Typed, Steps
<1>5. \A r \in Rows : Where(r) = {}
  BY DrainAssumption DEF Init, Where
<1>6. RowsConserved
  BY <1>5, FS_EmptySet DEF Init, RowsConserved, Copies, Where
<1> QED BY <1>4, <1>6 DEF DrainInv

\* Each step preserves the invariant.
LEMMA DrainInvStep ==
    ASSUME DrainInv, [Next]_vars PROVE DrainInv'
<1> USE DrainAssumption
<1>0. Typed /\ RowsConserved
  BY DEF DrainInv
<1>1. CASE UNCHANGED vars
  BY <1>0, <1>1, TableUnchanged DEF vars, DrainInv, Typed
<1>2. CASE Call
  BY <1>0, <1>2, CallTyped, TableUnchanged DEF Call, PartitionData, DrainInv, Typed
<1>3. CASE ReadBatch
  <2>1. rewrites' \in 0 .. MaxRewrites
    BY <1>0, <1>3 DEF ReadBatch, Typed
  <2> QED BY <1>0, <1>3, <2>1, CallTyped, TableUnchanged DEF DrainStep, ReadBatch, DrainInv, Typed
<1>4. CASE AppendNullAnomalies
  BY <1>0, <1>4, CallTyped, TableUnchanged DEF DrainStep, AppendNullAnomalies, DrainInv, Typed
<1>5. ASSUME NEW g \in drain.groups, RecordAnomaly(g) \/ MoveRejected(g)
      PROVE  DrainInv'
  <2>1. UNCHANGED <<heap, attached, children, placed, live, rewrites, faults>>
    BY <1>5 DEF RecordAnomaly, MoveRejected
  <2>2. DrainStep
    BY <1>5 DEF DrainStep
  <2> QED BY <1>0, <2>1, <2>2, CallTyped, TableUnchanged DEF DrainInv, Typed
<1>6. ASSUME NEW g \in drain.groups, MoveGroup(g) PROVE DrainInv'
  <2>1. Moves(g) /\ UNCHANGED <<attached, children, live, rewrites, faults>>
    BY <1>6 DEF MoveGroup
  <2>2. DrainStep
    BY <1>6 DEF DrainStep
  <2> QED BY <1>0, <2>1, <2>2, CallTyped, MovesConserve DEF DrainInv, Typed
<1>7. CASE DrainFault
  <2>1. /\ faults' \in 0 .. MaxFaults /\ UNCHANGED <<attached, children, live, rewrites>>
        /\ UNCHANGED <<heap, placed>> \/ \E g \in drain.groups : Moves(g)
    BY <1>0, <1>7 DEF DrainFault, Typed
  <2>2. RowsConserved' /\ heap' \in [Slots -> Rows \cup {NoRow}] /\ placed' \in [Rows -> Nat]
    <3>1. CASE UNCHANGED <<heap, placed>>
      BY <1>0, <2>1, <3>1, TableUnchanged DEF Typed
    <3>2. ASSUME NEW g \in drain.groups, Moves(g)
          PROVE  RowsConserved' /\ heap' \in [Slots -> Rows \cup {NoRow}] /\ placed' \in [Rows -> Nat]
      BY <1>0, <2>1, <3>2, MovesConserve
    <3> QED BY <2>1, <3>1, <3>2
  <2> QED BY <1>0, <1>7, <2>1, <2>2, CallTyped DEF DrainInv, Typed
<1>8. ASSUME NEW r \in Rows, ClientInsert(r) PROVE DrainInv'
  <2>1. live' \subseteq Rows /\ UNCHANGED <<attached, children, drain, rewrites, faults>>
    BY <1>0, <1>8 DEF ClientInsert, Typed
  <2> QED BY <1>0, <1>8, <2>1, InsertConserves DEF DrainInv, Typed
<1>9. ASSUME NEW s \in Slots, ClientRewrite(s) PROVE DrainInv'
  <2>1. rewrites' \in 0 .. MaxRewrites /\ UNCHANGED <<attached, children, placed, drain, faults>>
    BY <1>0, <1>9 DEF ClientRewrite, Typed
  <2> QED BY <1>0, <1>9, <2>1, RewriteConserves DEF DrainInv, Typed
<1>10. ASSUME NEW k \in Provisioned, Provision(k) PROVE DrainInv'
  BY <1>0, <1>10, TableUnchanged DEF Provision, DrainInv, Typed
<1>11. CASE Operator
  BY <1>0, <1>11, TableUnchanged DEF Operator, DetachDefault, AttachDefault, DrainInv, Typed
<1> QED BY <1>1, <1>2, <1>3, <1>4, <1>5, <1>6, <1>7, <1>8, <1>9, <1>10, <1>11 DEF Next, DrainStep

\* Every reachable state satisfies the invariant.
LEMMA DrainInvHolds == Spec => []DrainInv
<1>1. Init => DrainInv
  BY DrainInvInit
<1>2. DrainInv /\ [Next]_vars => DrainInv'
  BY DrainInvStep
<1> QED BY <1>1, <1>2, PTL DEF Spec

-----------------------------------------------------------------------------
(* The theorems *)

\* The default and the bounded partitions hold every live row once and no
\* deleted one, for every table, whatever clients rewrite between the read
\* and the move of a batch, and wherever the drain is cancelled or loses the
\* reply to a commit (drain.go moveGroup, sql.go buildMoveCTE).
THEOREM RowsAreConserved == Spec => []RowsConserved
<1>1. DrainInv => RowsConserved
  BY DEF DrainInv
<1> QED BY <1>1, DrainInvHolds, PTL

\* The state keeps its types: no child ever holds a row twice, the groups
\* of a batch have real keys, and the counts of the report stay within their
\* bound (drain.go PartitionData).
THEOREM TypeCorrect == Spec => []TypeOK
<1>1. DrainInv => TypeOK
  BY TypedAndConserved DEF DrainInv
<1> QED BY <1>1, DrainInvHolds, PTL

-----------------------------------------------------------------------------
(* The report *)

\* No client writes while a drain runs, and no row has the empty string in
\* its tenant column: the NOT clause of a missing target for '' would read
\* NULL, and pass over rows whose own target nobody has looked for.
Quiet == ~ClientsBusy /\ (HasTenantColumn => \A r \in Rows : TenantOf[r] # Empty)

\* A drain reads no further only once no candidate is left.
ReadAll == drain.step = "nulls" => Candidates = {}

\* An excluded key is itself among the missing targets.
LEMMA ExcludedIsAnomalous ==
    ASSUME Quiet, NEW k \in Keys, NEW a \in Keys, Excluded(k, a) PROVE k = a
<1>1. PICK r \in Rows : k = GroupKey(r)
  BY DEF Keys
<1>2. PICK q \in Rows : a = GroupKey(q)
  BY DEF Keys
<1>3. k[2] = a[2]
  BY DEF Excluded
<1>4. CASE HasTenantColumn
  <2>1. a[1] = TenantOf[q] /\ a[1] # Empty
    BY <1>2, <1>4 DEF GroupKey, Quiet
  <2>2. k[1] = a[1]
    BY <1>4, <2>1 DEF Excluded, SqlTenant
  <2> QED BY <1>1, <1>2, <1>3, <2>2 DEF GroupKey
<1>5. CASE ~HasTenantColumn
  BY <1>1, <1>2, <1>3, <1>5 DEF GroupKey
<1> QED BY <1>4, <1>5

\* A batch is empty only when there is nothing to read.
LEMMA EmptyBatch ==
    ASSUME NEW from \in SUBSET Slots, IsBatch({}, from) PROVE from = {}
<1>1. Cardinality({}) = 0 /\ Cardinality(from) \in Nat /\ IsFiniteSet(from)
  BY CountsAreNumbers, FS_EmptySet
<1>2. Cardinality(from) = 0
  BY <1>1, DrainAssumption DEF IsBatch
<1> QED BY <1>1, <1>2, FS_EmptySet

\* The candidates depend on the default table, the filter and the missing
\* targets, not on the step of the call.
LEMMA SameCandidates ==
    ASSUME heap' = heap, drain'.filter = drain.filter, drain'.anomalies = drain.anomalies
    PROVE  Candidates' = Candidates
BY DEF Candidates, Dated, InScope, Used, Anomalous

\* Each step preserves ReadAll.
LEMMA ReadAllStep ==
    ASSUME Quiet, Typed, ReadAll, [Next]_vars PROVE ReadAll'
<1> SUFFICES ASSUME drain'.step = "nulls" PROVE Candidates' = {}
  BY DEF ReadAll
<1>0. drain \in [step : Steps, filter : Filters \cup {Null}, limit : Limits \cup {0}, batch : Nat,
                 groups : SUBSET Groups, anomalies : [Keys -> 0 .. MaxCount],
                 nulls : SUBSET (Tenants \cup {Empty, Null})]
  BY DEF Typed
<1>1. CASE ReadBatch
  <2>1. PICK skipped \in SUBSET Candidates :
          /\ skipped # {} => ClientsBusy
          /\ \E b \in SUBSET (Candidates \ skipped) :
               /\ IsBatch(b, Candidates \ skipped)
               /\ drain' = IF b = {} THEN [drain EXCEPT !.step = "nulls"]
                           ELSE [drain EXCEPT !.step = "group", !.groups = GroupsOf(b),
                                              !.batch = Counted(@)]
    BY <1>1 DEF ReadBatch
  <2>2. skipped = {} /\ Candidates \ skipped = Candidates
    BY <2>1 DEF Quiet
  <2>3. PICK b \in SUBSET Candidates :
          /\ IsBatch(b, Candidates)
          /\ drain' = IF b = {} THEN [drain EXCEPT !.step = "nulls"]
                      ELSE [drain EXCEPT !.step = "group", !.groups = GroupsOf(b),
                                         !.batch = Counted(@)]
    BY <2>1, <2>2
  <2>4. b = {} /\ drain' = [drain EXCEPT !.step = "nulls"]
    BY <1>0, <2>3
  <2>5. Candidates = {}
    <3>1. Candidates \in SUBSET Slots
      BY DEF Candidates, Dated, InScope, Used
    <3> QED BY <2>3, <2>4, <3>1, EmptyBatch
  <2> QED BY <1>0, <1>1, <2>4, <2>5, SameCandidates DEF ReadBatch
<1>2. CASE drain' = drain /\ heap' = heap
  BY <1>2, SameCandidates DEF ReadAll
<1>3. CASE Call
  BY <1>3 DEF Call, PartitionData, NewCall
<1>4. CASE AppendNullAnomalies \/ DrainFault
  BY <1>0, <1>4 DEF AppendNullAnomalies, DrainFault
<1>5. ASSUME NEW g \in drain.groups, RecordAnomaly(g) \/ MoveGroup(g) \/ MoveRejected(g)
      PROVE  FALSE
  <2>1. Done(g).step \in {"read", "group"}
    BY <1>0 DEF Done
  <2>2. Done(g) \in [step : Steps, filter : Filters \cup {Null}, limit : Limits \cup {0},
                     batch : Nat, groups : SUBSET Groups, anomalies : [Keys -> 0 .. MaxCount],
                     nulls : SUBSET (Tenants \cup {Empty, Null})]
    BY <1>0 DEF Done, Steps
  <2>3. CASE RecordAnomaly(g)
    <3>1. PICK d : d = Done(g)
      OBVIOUS
    <3>2. \E f : drain' = [d EXCEPT !.anomalies = f]
      BY <2>3, <3>1 DEF RecordAnomaly
    <3> QED BY <2>1, <2>2, <3>1, <3>2
  <2>4. CASE MoveGroup(g)
    BY <2>1, <2>4 DEF MoveGroup
  <2>5. CASE MoveRejected(g)
    BY <1>0, <2>5 DEF MoveRejected
  <2> QED BY <1>5, <2>3, <2>4, <2>5
<1>6. ASSUME NEW r \in Rows, ClientInsert(r) PROVE Candidates' = {}
  BY <1>6 DEF ClientInsert, Quiet, Running
<1>7. ASSUME NEW s \in Slots, ClientRewrite(s) PROVE FALSE
  BY <1>7 DEF ClientRewrite, Quiet
<1>8. ASSUME NEW k \in Provisioned, Provision(k) PROVE Candidates' = {}
  BY <1>2, <1>8 DEF Provision
<1>9. CASE Operator
  BY <1>2, <1>9 DEF Operator, DetachDefault, AttachDefault
<1>10. CASE UNCHANGED vars
  BY <1>2, <1>10 DEF vars
<1> QED BY <1>1, <1>3, <1>4, <1>5, <1>6, <1>7, <1>8, <1>9, <1>10 DEF Next, DrainStep

\* When no client writes meanwhile and no tenant is the empty string, what
\* an unlimited drain leaves in the default is in its report, for every
\* table, batch size, filter and order of the groups (drain.go
\* PartitionData, sql.go buildReadBatch).
THEOREM LeftIsInReport ==
    ASSUME Quiet PROVE Spec => LeftIsReported
<1>1. Init => ReadAll
  BY DEF Init, NewCall, ReadAll
<1>2. DrainInv /\ ReadAll /\ [Next]_vars => ReadAll'
  BY ReadAllStep DEF DrainInv
<1>3. ASSUME DrainInv, ReadAll, [Next]_vars, Returns
      PROVE  /\ \A s \in Dated : drain.anomalies[GroupKey(heap[s])] > 0
             /\ \A s \in InScope \ Dated : TenantOf[heap[s]] \in drain'.nulls
  <2>0. /\ drain \in [step : Steps, filter : Filters \cup {Null}, limit : Limits \cup {0}, batch : Nat,
                      groups : SUBSET Groups, anomalies : [Keys -> 0 .. MaxCount],
                      nulls : SUBSET (Tenants \cup {Empty, Null})]
        /\ heap \in [Slots -> Rows \cup {NoRow}]
    BY <1>3 DEF DrainInv, Typed
  <2>1. AppendNullAnomalies
    <3> SUFFICES ASSUME ~AppendNullAnomalies PROVE FALSE
      OBVIOUS
    <3>1. drain.step # "ok" /\ drain'.step = "ok"
      BY <1>3 DEF Returns
    <3>2. ASSUME NEW g \in drain.groups, RecordAnomaly(g) PROVE FALSE
      <4>1. PICK d : d = Done(g)
        OBVIOUS
      <4>2. \E f : drain' = [d EXCEPT !.anomalies = f]
        BY <3>2, <4>1 DEF RecordAnomaly
      <4>3. d.step \in {"read", "group"} /\ drain'.step = d.step
        BY <2>0, <4>1, <4>2 DEF Done
      <4> QED BY <3>1, <4>3
    <3>3. ASSUME NEW g \in drain.groups, MoveGroup(g) PROVE FALSE
      BY <2>0, <3>1, <3>3 DEF MoveGroup, Done
    <3>4. ASSUME NEW g \in drain.groups, MoveRejected(g) PROVE FALSE
      BY <2>0, <3>1, <3>4 DEF MoveRejected
    <3>5. CASE ReadBatch
      <4>1. drain'.step \in {"nulls", "group"}
        BY <2>0, <3>5 DEF ReadBatch
      <4> QED BY <3>1, <4>1
    <3>6. CASE Call
      BY <3>1, <3>6 DEF Call, PartitionData, NewCall
    <3>7. CASE DrainFault
      BY <2>0, <3>1, <3>7 DEF DrainFault
    <3>8. CASE drain' = drain
      BY <3>1, <3>8
    <3> QED BY <1>3, <3>2, <3>3, <3>4, <3>5, <3>6, <3>7, <3>8
          DEF Next, DrainStep, vars, Operator, DetachDefault, AttachDefault, ClientInsert,
              ClientRewrite, Provision
  <2>2. drain.step = "nulls"
    BY <1>3, <2>1 DEF AppendNullAnomalies, Returns, MoreBatches
  <2>3. ASSUME NEW s \in Dated PROVE drain.anomalies[GroupKey(heap[s])] > 0
    <3>1. heap[s] \in Rows /\ GroupKey(heap[s]) \in Keys
      BY <2>0 DEF Dated, InScope, Used, Keys
    <3>2. PICK a \in Anomalous : Excluded(GroupKey(heap[s]), a)
      BY <1>3, <2>2 DEF ReadAll, Candidates
    <3>3. a \in Keys /\ drain.anomalies[a] > 0
      BY DEF Anomalous
    <3> QED BY <3>1, <3>2, <3>3, ExcludedIsAnomalous
  <2>4. drain'.nulls = {TenantOf[heap[s]] : s \in InScope \ Dated}
    BY <2>0, <2>1 DEF AppendNullAnomalies
  <2> QED BY <2>3, <2>4
<1>4. DrainInv /\ ReadAll /\ [Next]_vars =>
        [Returns =>
           /\ \A s \in Dated : drain.anomalies[GroupKey(heap[s])] > 0
           /\ \A s \in InScope \ Dated : TenantOf[heap[s]] \in drain'.nulls]_vars
  BY <1>3
<1> QED BY <1>1, <1>2, <1>4, DrainInvHolds, PTL DEF Spec, LeftIsReported
=============================================================================
