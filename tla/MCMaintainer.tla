---------------------------- MODULE MCMaintainer ----------------------------
(***************************************************************************)
(* Parents for model checking Maintainer: p1 has two tenants, the others   *)
(* have no tenant column.  Two loops: of two replicas, or one after the    *)
(* other in the same process.                                              *)
(***************************************************************************)
EXTENDS Maintainer

CONSTANTS p1, p2, p3, t1, t2, m1, m2

MCDeployments == {[w \in Maintainers |-> 1], [w \in Maintainers |-> IF w = m1 THEN 1 ELSE 2]}
MCTenantsOf == [p \in Parents |-> IF p = p1 THEN {t1, t2} ELSE {}]
=============================================================================
