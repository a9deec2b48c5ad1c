------------------------------ MODULE MCLinks ------------------------------
EXTENDS SelectionModels

CONSTANTS item1, item2, item3, item4, proxy1, proxy2

MCFilter == [proxy \in {proxy1, proxy2} |->
                IF proxy = proxy1 THEN {item1, item2} ELSE {item2, item3}]
MCDepths == {-1, 2}

\* Bound: no item is below another, or item2 is below item1 and the parent of any other is
\* one before it; every forest is one of these but for names.
MCBefore == [i \in {item1, item2, item3, item4} |->
                CASE i = item1 -> {None} [] i = item2 -> {item1} [] i = item3 -> {None, item1, item2}
                  [] i = item4 -> {None, item1, item2, item3}]
MCPlaces == {f \in [Items -> Items \cup {None}] : \A i \in Items : f[i] \in MCBefore[i]} \cup {[i \in Items |-> None]}

MCScenarios == {{"select", "nested"}, {"select", "relink", "setModel"}, {"check", "relink"},
                {"sources", "relink"}, {"current", "relink"}, {"move"}}
============================================================================
