---------------------------- MODULE AbstractLock ----------------------------
(***************************************************************************)
(* What TryLock and release promise their callers: of all the workers, at  *)
(* most one is inside a parent.  Nothing is said of sessions, connections, *)
(* pools or contexts.                                                      *)
(***************************************************************************)
CONSTANTS Workers, Keys, NoKey

VARIABLE inside  \* the parent each worker has to itself

Init == inside = [w \in Workers |-> NoKey]

Enter(w, k) ==
    /\ inside[w] = NoKey
    /\ \A v \in Workers : inside[v] # k
    /\ inside' = [inside EXCEPT ![w] = k]

Leave(w) ==
    /\ inside[w] # NoKey
    /\ inside' = [inside EXCEPT ![w] = NoKey]

Next == \E w \in Workers : Leave(w) \/ \E k \in Keys : Enter(w, k)

Spec == Init /\ [][Next]_inside
=============================================================================
