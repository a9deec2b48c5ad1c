------------------------------ MODULE KBiHash ------------------------------
(***************************************************************************)
(* The operations of KBiAssociativeContainer (kbihash_p.h) as operators.   *)
(* A container is a record of two hashes, [l2r, r2l]: the _leftToRight and *)
(* _rightToLeft members.  A hash is a function whose domain is the set of  *)
(* keys it holds.  Each operator updates the two hashes in the order and   *)
(* with the lookups of the C++ function of the same name, so a lookup that *)
(* misses yields the default-constructed value, as QHash::take does.       *)
(***************************************************************************)
EXTENDS Integers

CONSTANTS
    DefaultLeft,    \* left_type(), e.g. an invalid QPersistentModelIndex
    DefaultRight    \* right_type(), e.g. 0 for int

----------------------------------------------------------------------------
(* QHash / QMap.                                                           *)

EmptyHash == [k \in {} |-> k]

Put(h, k, v) == [x \in DOMAIN h \cup {k} |-> IF x = k THEN v ELSE h[x]]

Drop(h, k) == [x \in DOMAIN h \ {k} |-> h[x]]

\* QHash::value(k): what a lookup that misses returns is the default.
ValueOr(h, k, default) == IF k \in DOMAIN h THEN h[k] ELSE default

----------------------------------------------------------------------------
(* KBiAssociativeContainer.                                                *)

EmptyContainer == [l2r |-> EmptyHash, r2l |-> EmptyHash]

leftContains(c, t) == t \in DOMAIN c.l2r
rightContains(c, u) == u \in DOMAIN c.r2l

leftToRight(c, t) == ValueOr(c.l2r, t, DefaultRight)
rightToLeft(c, u) == ValueOr(c.r2l, u, DefaultLeft)

\* removeLeft and takeLeft: the right key removed is whatever take() returned,
\* the default value included.
removeLeft(c, t) ==
    [l2r |-> Drop(c.l2r, t), r2l |-> Drop(c.r2l, leftToRight(c, t))]

removeRight(c, u) ==
    [l2r |-> Drop(c.l2r, rightToLeft(c, u)), r2l |-> Drop(c.r2l, u)]

\* eraseLeft(it) and eraseRight(it): the iterator stands on a key it holds.
eraseLeft(c, t) ==
    [l2r |-> Drop(c.l2r, t), r2l |-> Drop(c.r2l, c.l2r[t])]

eraseRight(c, u) ==
    [l2r |-> Drop(c.l2r, c.r2l[u]), r2l |-> Drop(c.r2l, u)]

\* Mutant of insert: the old partner of t is left dangling.
insertLeavesDangling(c, t, u) ==
    LET c2 == IF rightContains(c, u) THEN eraseRight(c, u) ELSE c
    IN  [l2r |-> Put(c2.l2r, t, u), r2l |-> Put(c2.r2l, u, t)]

\* Mutant of insert: an occupied right key is refused instead of taken over.
insertKeepsOccupied(c, t, u) ==
    IF rightContains(c, u) THEN c
    ELSE [l2r |-> Put(c.l2r, t, u), r2l |-> Put(c.r2l, u, t)]

\* insert: drop the old partner of t, then the old partner of u, then add both.
insert(c, t, u) ==
    LET c1 == IF leftContains(c, t) THEN eraseLeft(c, t) ELSE c
        c2 == IF rightContains(c1, u) THEN eraseRight(c1, u) ELSE c1
    IN  [l2r |-> Put(c2.l2r, t, u), r2l |-> Put(c2.r2l, u, t)]

\* updateRight(it, u) and updateLeft(it, t): the old partner of the key under
\* the iterator is dropped, the old partner of the new value is not.
updateRight(c, t, u) ==
    [l2r |-> Put(c.l2r, t, u), r2l |-> Put(Drop(c.r2l, c.l2r[t]), u, t)]

\* Mutant of updateLeft: the left key is read back after its entry has gone.
updateLeftReadsBack(c, u, t) ==
    [l2r |-> Put(Drop(c.l2r, c.r2l[u]), t, u),
     r2l |-> Put(c.r2l, u, ValueOr(Drop(c.r2l, u), u, DefaultLeft))]

updateLeft(c, u, t) ==
    [l2r |-> Put(Drop(c.l2r, c.r2l[u]), t, u), r2l |-> Put(c.r2l, u, t)]

\* intersect and subtract erase, key by key, every left key that the other
\* container lacks (respectively holds); the order of the loop is immaterial.
KeepLeft(c, keys) ==
    LET dead == {t \in DOMAIN c.l2r : t \notin keys}
    IN  [l2r |-> [t \in DOMAIN c.l2r \ dead |-> c.l2r[t]],
         r2l |-> [u \in DOMAIN c.r2l \ {c.l2r[t] : t \in dead} |-> c.r2l[u]]]

intersect(c, other) == KeepLeft(c, DOMAIN other.l2r)
subtract(c, other) == KeepLeft(c, DOMAIN c.l2r \ DOMAIN other.l2r)

\* KHash2Map::rightLowerBound: the keys an iteration from lowerBound(u) visits.
KeysFrom(c, u) == {k \in DOMAIN c.r2l : k >= u}

----------------------------------------------------------------------------
\* The pairs a left-to-right lookup sees.
Pairs(c) == {<<t, c.l2r[t]>> : t \in DOMAIN c.l2r}

\* The two hashes are inverse of each other.
Bijective(c) ==
    /\ \A t \in DOMAIN c.l2r : c.l2r[t] \in DOMAIN c.r2l /\ c.r2l[c.l2r[t]] = t
    /\ \A u \in DOMAIN c.r2l : c.r2l[u] \in DOMAIN c.l2r /\ c.l2r[c.r2l[u]] = u

\* A record of two hashes, inverse of each other.
IsContainer(c) ==
    /\ c = [l2r |-> c.l2r, r2l |-> c.r2l]
    /\ c.l2r = [t \in DOMAIN c.l2r |-> c.l2r[t]]
    /\ c.r2l = [u \in DOMAIN c.r2l |-> c.r2l[u]]
Good(c) == IsContainer(c) /\ Bijective(c)
============================================================================
