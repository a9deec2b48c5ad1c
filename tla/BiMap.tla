------------------------------- MODULE BiMap -------------------------------
(***************************************************************************)
(* What a bidirectional map promises: a finite set of <<left, right>>      *)
(* pairs in which a left value and a right value each occur at most once.  *)
(* Adding a pair takes away the pairs it conflicts with; every other       *)
(* operation only removes pairs.                                           *)
(***************************************************************************)
CONSTANTS Left, Right

VARIABLE pairs

Conflicts(t, u) == {p \in pairs : p[1] = t \/ p[2] = u}

Init == pairs = {}

Add(t, u) == pairs' = (pairs \ Conflicts(t, u)) \cup {<<t, u>>}

Erase == pairs' \subseteq pairs

Next == (\E t \in Left, u \in Right : Add(t, u)) \/ Erase

Spec == Init /\ [][Next]_pairs

OneToOne ==
    \A p, q \in pairs : (p[1] = q[1] \/ p[2] = q[2]) => p = q
============================================================================
