------------------------------ MODULE MCDrain ------------------------------
(***************************************************************************)
(* Rows for model checking Drain.                                          *)
(***************************************************************************)
EXTENDS Drain

CONSTANTS r1, r2, r3, r4, r5, t1, t2

\* One tenant; r1 and r2 lie in the same range, r3 in the next.
PlainTenant == [r \in Rows |-> t1]
PlainPeriod == [r \in Rows |-> IF r = r3 THEN 1 ELSE 0]
PlainRanges == {<<t1, 0>>, <<t1, 1>>}

\* A second tenant without a partition, of which one range has two rows, a
\* row without a tenant, and a row without a control value.
MixedTenant == [r \in Rows |-> CASE r = r1 -> t1 [] r = r3 -> Null [] OTHER -> t2]
MixedPeriod == [r \in Rows |-> IF r = r4 THEN Null ELSE 0]

\* A row whose tenant column is the empty string.
EmptyTenant == [r \in Rows |-> IF r = r1 THEN Empty ELSE t1]

NoRanges == {}
=============================================================================
