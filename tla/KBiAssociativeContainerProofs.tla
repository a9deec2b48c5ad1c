-------------------- MODULE KBiAssociativeContainerProofs --------------------
(***************************************************************************)
(* Proofs about KBiAssociativeContainer for all sets of left and right     *)
(* values: the two hashes stay inverse of each other as long as callers    *)
(* check their keys (CheckedKeys), and under the same condition the        *)
(* container implements the bidirectional map.  Then about the loop the    *)
(* proxy models run on it: updateInternalIndexes shifts the mapping as     *)
(* MapShift says, for every mapping, offset and order of the hash, and the *)
(* operators of ProxyRows are what the container's operations do to its    *)
(* right-to-left hash.                                                     *)
(***************************************************************************)
EXTENDS KBiAssociativeContainer, UpdateInternalIndexes, TLAPS

----------------------------------------------------------------------------
(* Each operation keeps a good container good.                             *)

LEMMA EmptyGood == Good(EmptyContainer)
BY DEF Good, IsContainer, Bijective, EmptyContainer, EmptyHash

LEMMA EraseLeftGood ==
    ASSUME NEW c, Good(c), NEW t \in DOMAIN c.l2r
    PROVE  /\ Good(eraseLeft(c, t))
           /\ DOMAIN eraseLeft(c, t).l2r = DOMAIN c.l2r \ {t}
           /\ DOMAIN eraseLeft(c, t).r2l = DOMAIN c.r2l \ {c.l2r[t]}
           /\ \A s \in DOMAIN c.l2r \ {t} : eraseLeft(c, t).l2r[s] = c.l2r[s]
BY DEF Good, IsContainer, Bijective, eraseLeft, Drop

LEMMA EraseRightGood ==
    ASSUME NEW c, Good(c), NEW u \in DOMAIN c.r2l
    PROVE  /\ Good(eraseRight(c, u))
           /\ DOMAIN eraseRight(c, u).l2r = DOMAIN c.l2r \ {c.r2l[u]}
           /\ DOMAIN eraseRight(c, u).r2l = DOMAIN c.r2l \ {u}
           /\ \A s \in DOMAIN c.l2r \ {c.r2l[u]} :
                 eraseRight(c, u).l2r[s] = c.l2r[s]
BY DEF Good, IsContainer, Bijective, eraseRight, Drop

\* Adding a pair neither side of which is held.
LEMMA PutFreshGood ==
    ASSUME NEW c, Good(c), NEW t, NEW u,
           t \notin DOMAIN c.l2r, u \notin DOMAIN c.r2l
    PROVE  Good([l2r |-> Put(c.l2r, t, u), r2l |-> Put(c.r2l, u, t)])
<1> DEFINE d == [l2r |-> Put(c.l2r, t, u), r2l |-> Put(c.r2l, u, t)]
<1>1. d.l2r = Put(c.l2r, t, u) /\ d.r2l = Put(c.r2l, u, t)
  OBVIOUS
<1>2. IsContainer(d)
  BY <1>1 DEF Good, IsContainer, Put
<1>3. Bijective(d)
  BY <1>1 DEF Good, IsContainer, Bijective, Put
<1> QED
  BY <1>2, <1>3 DEF Good

LEMMA InsertGood ==
    ASSUME NEW c, Good(c), NEW t, NEW u
    PROVE  Good(insert(c, t, u))
<1> DEFINE c1 == IF leftContains(c, t) THEN eraseLeft(c, t) ELSE c
           c2 == IF rightContains(c1, u) THEN eraseRight(c1, u) ELSE c1
<1>1. Good(c1) /\ t \notin DOMAIN c1.l2r
  BY EraseLeftGood DEF leftContains
<1>2. Good(c2) /\ t \notin DOMAIN c2.l2r /\ u \notin DOMAIN c2.r2l
  BY <1>1, EraseRightGood DEF rightContains
<1>3. insert(c, t, u) = [l2r |-> Put(c2.l2r, t, u), r2l |-> Put(c2.r2l, u, t)]
  BY DEF insert
<1> QED
  BY <1>2, <1>3, PutFreshGood

LEMMA RemoveLeftGood ==
    ASSUME NEW c, Good(c), NEW t \in DOMAIN c.l2r
    PROVE  removeLeft(c, t) = eraseLeft(c, t)
BY DEF removeLeft, eraseLeft, leftToRight, ValueOr

LEMMA RemoveRightGood ==
    ASSUME NEW c, Good(c), NEW u \in DOMAIN c.r2l
    PROVE  removeRight(c, u) = eraseRight(c, u)
BY DEF removeRight, eraseRight, rightToLeft, ValueOr

LEMMA UpdateRightGood ==
    ASSUME NEW c, Good(c), NEW t \in DOMAIN c.l2r,
           NEW u, u \notin DOMAIN c.r2l
    PROVE  Good(updateRight(c, t, u))
<1> DEFINE d == updateRight(c, t, u)
<1>1. d.l2r = Put(c.l2r, t, u) /\ d.r2l = Put(Drop(c.r2l, c.l2r[t]), u, t)
  BY DEF updateRight
<1>2. IsContainer(d)
  BY <1>1 DEF Good, IsContainer, updateRight, Put, Drop
<1>3. Bijective(d)
  BY <1>1 DEF Good, IsContainer, Bijective, Put, Drop
<1> QED
  BY <1>2, <1>3 DEF Good

LEMMA UpdateLeftGood ==
    ASSUME NEW c, Good(c), NEW u \in DOMAIN c.r2l,
           NEW t, t \notin DOMAIN c.l2r
    PROVE  Good(updateLeft(c, u, t))
<1> DEFINE d == updateLeft(c, u, t)
<1>1. d.l2r = Put(Drop(c.l2r, c.r2l[u]), t, u) /\ d.r2l = Put(c.r2l, u, t)
  BY DEF updateLeft
<1>2. IsContainer(d)
  BY <1>1 DEF Good, IsContainer, updateLeft, Put, Drop
<1>3. Bijective(d)
  BY <1>1 DEF Good, IsContainer, Bijective, Put, Drop
<1> QED
  BY <1>2, <1>3 DEF Good

LEMMA KeepLeftGood ==
    ASSUME NEW c, Good(c), NEW keys
    PROVE  Good(KeepLeft(c, keys))
<1> DEFINE d == KeepLeft(c, keys)
           dead == {t \in DOMAIN c.l2r : t \notin keys}
<1>1. /\ d.l2r = [t \in DOMAIN c.l2r \ dead |-> c.l2r[t]]
      /\ d.r2l = [u \in DOMAIN c.r2l \ {c.l2r[t] : t \in dead} |-> c.r2l[u]]
  BY DEF KeepLeft
<1>2. IsContainer(d)
  BY <1>1 DEF Good, IsContainer, KeepLeft
<1>3. Bijective(d)
  BY <1>1 DEF Good, IsContainer, Bijective
<1> QED
  BY <1>2, <1>3 DEF Good

----------------------------------------------------------------------------
(* Seen as a set of pairs, each operation adds one pair or only removes.   *)

\* insert adds its pair and takes away exactly the pairs it conflicts with.
LEMMA InsertAdds ==
    ASSUME NEW c, Good(c), NEW t, NEW u
    PROVE  Pairs(insert(c, t, u)) =
              (Pairs(c) \ {p \in Pairs(c) : p[1] = t \/ p[2] = u}) \cup {<<t, u>>}
<1> DEFINE c1 == IF leftContains(c, t) THEN eraseLeft(c, t) ELSE c
           c2 == IF rightContains(c1, u) THEN eraseRight(c1, u) ELSE c1
<1>1. Good(c1) /\ t \notin DOMAIN c1.l2r /\ Pairs(c1) = {p \in Pairs(c) : p[1] # t}
  BY EraseLeftGood DEF leftContains, Pairs
<1>2. Pairs(c2) = {p \in Pairs(c1) : p[2] # u} /\ t \notin DOMAIN c2.l2r
  <2>1. CASE rightContains(c1, u)
    <3>1. u \in DOMAIN c1.r2l
      BY <2>1 DEF rightContains
    <3>2. c2 = eraseRight(c1, u)
      BY <2>1
    <3>3. \A s \in DOMAIN c1.l2r : c1.l2r[s] = u <=> s = c1.r2l[u]
      BY <1>1, <3>1 DEF Good, Bijective
    <3>4. /\ DOMAIN c2.l2r = DOMAIN c1.l2r \ {c1.r2l[u]}
          /\ \A s \in DOMAIN c2.l2r : c2.l2r[s] = c1.l2r[s]
      BY <1>1, <3>1, <3>2, EraseRightGood
    <3> QED
      BY <1>1, <3>3, <3>4 DEF Pairs
  <2>2. CASE ~rightContains(c1, u)
    <3>1. \A s \in DOMAIN c1.l2r : c1.l2r[s] # u
      BY <1>1, <2>2 DEF Good, Bijective, rightContains
    <3> QED
      BY <1>1, <2>2, <3>1 DEF Pairs
  <2> QED
    BY <2>1, <2>2
<1>3. Pairs(insert(c, t, u)) = Pairs(c2) \cup {<<t, u>>}
  <2>1. insert(c, t, u).l2r = Put(c2.l2r, t, u)
    BY DEF insert
  <2> QED
    BY <1>2, <2>1 DEF Pairs, Put
<1> QED
  BY <1>1, <1>2, <1>3

LEMMA EraseShrinks ==
    ASSUME NEW c, Good(c)
    PROVE  /\ \A t \in DOMAIN c.l2r : Pairs(eraseLeft(c, t)) \subseteq Pairs(c)
           /\ \A u \in DOMAIN c.r2l : Pairs(eraseRight(c, u)) \subseteq Pairs(c)
           /\ \A keys : Pairs(KeepLeft(c, keys)) \subseteq Pairs(c)
           /\ Pairs(EmptyContainer) \subseteq Pairs(c)
<1>1. \A t \in DOMAIN c.l2r : Pairs(eraseLeft(c, t)) \subseteq Pairs(c)
  BY EraseLeftGood DEF Pairs
<1>2. \A u \in DOMAIN c.r2l : Pairs(eraseRight(c, u)) \subseteq Pairs(c)
  BY EraseRightGood DEF Pairs
<1>3. \A keys : Pairs(KeepLeft(c, keys)) \subseteq Pairs(c)
  BY DEF Pairs, KeepLeft
<1>4. Pairs(EmptyContainer) \subseteq Pairs(c)
  BY DEF Pairs, EmptyContainer, EmptyHash
<1> QED
  BY <1>1, <1>2, <1>3, <1>4

\* updateRight to a free value replaces the pair of its key.
LEMMA UpdateRightAdds ==
    ASSUME NEW c, Good(c), NEW t \in DOMAIN c.l2r,
           NEW u, u \notin DOMAIN c.r2l
    PROVE  Pairs(updateRight(c, t, u)) =
              (Pairs(c) \ {p \in Pairs(c) : p[1] = t \/ p[2] = u}) \cup {<<t, u>>}
<1>1. updateRight(c, t, u).l2r = Put(c.l2r, t, u)
  BY DEF updateRight
<1>2. \A s \in DOMAIN c.l2r : c.l2r[s] # u
  BY DEF Good, Bijective
<1> QED
  BY <1>1, <1>2 DEF Pairs, Put

\* updateLeft to a free value replaces the pair of its key.
LEMMA UpdateLeftAdds ==
    ASSUME NEW c, Good(c), NEW u \in DOMAIN c.r2l,
           NEW t, t \notin DOMAIN c.l2r
    PROVE  Pairs(updateLeft(c, u, t)) =
              (Pairs(c) \ {p \in Pairs(c) : p[1] = t \/ p[2] = u}) \cup {<<t, u>>}
<1>1. updateLeft(c, u, t).l2r = Put(Drop(c.l2r, c.r2l[u]), t, u)
  BY DEF updateLeft
<1>2. \A s \in DOMAIN c.l2r : c.l2r[s] = u <=> s = c.r2l[u]
  BY DEF Good, Bijective
<1>3. Pairs(updateLeft(c, u, t)) =
         {<<s, c.l2r[s]>> : s \in DOMAIN c.l2r \ {c.r2l[u]}} \cup {<<t, u>>}
  <2> DEFINE old == DOMAIN c.l2r \ {c.r2l[u]}
             new == updateLeft(c, u, t).l2r
  <2>1. DOMAIN new = old \cup {t} /\ t \notin old
    BY <1>1 DEF Put, Drop
  <2>2. new[t] = u /\ \A s \in old : new[s] = c.l2r[s]
    BY <1>1, <2>1 DEF Put, Drop
  <2>3. Pairs(updateLeft(c, u, t)) = {<<s, new[s]>> : s \in old \cup {t}}
    BY <2>1 DEF Pairs
  <2> HIDE DEF old, new
  <2>4. {<<s, new[s]>> : s \in old \cup {t}} = {<<s, c.l2r[s]>> : s \in old} \cup {<<t, u>>}
    BY <2>2
  <2> QED
    BY <2>3, <2>4 DEF old
<1>4. {<<s, c.l2r[s]>> : s \in DOMAIN c.l2r \ {c.r2l[u]}} =
         Pairs(c) \ {p \in Pairs(c) : p[1] = t \/ p[2] = u}
  BY <1>2 DEF Pairs
<1> QED
  BY <1>3, <1>4

----------------------------------------------------------------------------
(* The container under any sequence of operations.                          *)

LoopOK ==
    /\ loop \in {"none", "unite", "fromHash"}
    /\ todo \subseteq Left \X Right

\* The inductive invariant: the bijection, and the types of its pairs and of
\* the loop.  (That the values of _rightToLeft are left values follows.)
IInv == Good(hash) /\ Pairs(hash) \subseteq Left \X Right /\ LoopOK

\* What a step does to the set of pairs.
Adds(t, u) ==
    Pairs(hash') =
       (Pairs(hash) \ {p \in Pairs(hash) : p[1] = t \/ p[2] = u}) \cup {<<t, u>>}

Shrinks == Pairs(hash') \subseteq Pairs(hash)

AddsOrShrinks == Shrinks \/ \E t \in Left, u \in Right : Adds(t, u)

\* The typing of the pairs as typing of the two hashes.
LEMMA Typing ==
    ASSUME Good(hash), Pairs(hash) \subseteq Left \X Right
    PROVE  /\ \A t \in DOMAIN hash.l2r : t \in Left /\ hash.l2r[t] \in Right
           /\ \A u \in DOMAIN hash.r2l : u \in Right /\ hash.r2l[u] \in Left
<1>1. ASSUME NEW t \in DOMAIN hash.l2r
      PROVE  t \in Left /\ hash.l2r[t] \in Right
  <2>1. <<t, hash.l2r[t]>> \in Left \X Right
    BY DEF Pairs
  <2> QED
    BY <2>1
<1> QED
  BY <1>1 DEF Good, Bijective

----------------------------------------------------------------------------
(* One step, action by action.                                             *)

LEMMA NextFacts ==
    ASSUME CheckedKeys, IInv, Next
    PROVE  Good(hash') /\ LoopOK' /\ AddsOrShrinks
<1> USE DEF IInv
<1> DEFINE Goal == Good(hash') /\ LoopOK' /\ AddsOrShrinks
<1>0. /\ \A t \in DOMAIN hash.l2r : t \in Left /\ hash.l2r[t] \in Right
      /\ \A u \in DOMAIN hash.r2l : u \in Right /\ hash.r2l[u] \in Left
  BY Typing
<1>1. ASSUME NEW t \in Left, NEW u \in Right, Insert(t, u)
      PROVE  Goal
  BY <1>1, InsertGood, InsertAdds DEF Insert, Idle, LoopOK, AddsOrShrinks, Adds
<1>2. ASSUME NEW t \in Left, NEW u \in Right, UpdateRight(t, u)
      PROVE  Goal
  BY <1>2, UpdateRightGood, UpdateRightAdds
     DEF UpdateRight, Idle, LoopOK, leftContains, rightContains, AddsOrShrinks, Adds
<1>3. ASSUME NEW t \in Left, NEW u \in Right, UpdateLeft(u, t)
      PROVE  Goal
  BY <1>3, UpdateLeftGood, UpdateLeftAdds
     DEF UpdateLeft, Idle, LoopOK, leftContains, rightContains, AddsOrShrinks, Adds
<1>4. ASSUME NEW t \in Left, NEW u \in Right, LoopStep(<<t, u>>)
      PROVE  Goal
  <2>1. LoopOK'
    BY <1>4 DEF LoopStep, LoopOK
  <2>2. CASE hash' = hash
    BY <2>1, <2>2 DEF AddsOrShrinks, Shrinks
  <2>3. CASE hash' = insert(hash, t, u)
    BY <2>1, <2>3, InsertGood, InsertAdds DEF AddsOrShrinks, Adds
  <2> QED
    BY <1>4, <2>2, <2>3 DEF LoopStep
<1>5. ASSUME NEW t \in Left, RemoveLeft(t) \/ EraseLeft(t)
      PROVE  Goal
  BY <1>5, RemoveLeftGood, EraseLeftGood, EraseShrinks
     DEF RemoveLeft, EraseLeft, Idle, LoopOK, leftContains, AddsOrShrinks, Shrinks
<1>6. ASSUME NEW u \in Right, RemoveRight(u) \/ EraseRight(u)
      PROVE  Goal
  BY <1>6, RemoveRightGood, EraseRightGood, EraseShrinks
     DEF RemoveRight, EraseRight, Idle, LoopOK, rightContains, AddsOrShrinks, Shrinks
<1>7. ASSUME NEW other, Intersect(other) \/ Subtract(other)
      PROVE  Goal
  BY <1>7, KeepLeftGood, EraseShrinks
     DEF Intersect, Subtract, intersect, subtract, Idle, LoopOK, AddsOrShrinks, Shrinks
<1>8. ASSUME NEW h \in Hashes, StartUnite(h) \/ StartFromHash(h)
      PROVE  Goal
  <2>1. PairsOf(h) \subseteq Left \X Right
    BY DEF Hashes, PairsOf
  <2> QED
    BY <1>8, <2>1, EmptyGood, EraseShrinks
       DEF StartUnite, StartFromHash, LoopOK, AddsOrShrinks, Shrinks
<1>9. CASE Clear
  BY <1>9, EmptyGood, EraseShrinks DEF Clear, Idle, LoopOK, AddsOrShrinks, Shrinks
<1>10. CASE LoopEnd
  BY <1>10 DEF LoopEnd, LoopOK, AddsOrShrinks, Shrinks
<1> QED
  BY <1>1, <1>2, <1>3, <1>4, <1>5, <1>6, <1>7, <1>8, <1>9, <1>10 DEF Next

LEMMA NextIInv ==
    ASSUME CheckedKeys, IInv, [Next]_vars
    PROVE  IInv'
<1>1. CASE Next
  <2>1. Good(hash') /\ LoopOK' /\ AddsOrShrinks
    BY <1>1, NextFacts
  <2>2. Pairs(hash') \subseteq Left \X Right
    BY <2>1 DEF AddsOrShrinks, Adds, Shrinks, IInv
  <2> QED
    BY <2>1, <2>2 DEF IInv
<1>2. CASE UNCHANGED vars
  BY <1>2 DEF vars, IInv, LoopOK
<1> QED
  BY <1>1, <1>2

LEMMA InitIInv == Init => IInv
BY EmptyGood DEF Init, IInv, LoopOK, Pairs, EmptyContainer, EmptyHash

----------------------------------------------------------------------------

\* The two hashes are inverse of each other in every reachable state, provided
\* that callers check their keys (removeLeft, removeRight, updateLeft and
\* updateRight break the bijection otherwise).
THEOREM ContainerIsBijective ==
    ASSUME CheckedKeys
    PROVE  Spec => []MutuallyInverse
<1>1. IInv => MutuallyInverse
  BY DEF IInv, Good, MutuallyInverse
<1>2. IInv /\ [Next]_vars => IInv'
  BY NextIInv
<1> QED
  BY InitIInv, <1>1, <1>2, PTL DEF Spec

\* The container and its loops are well typed: every key and value is one that
\* some call passed in, on either side.
THEOREM ContainerTypeCorrect ==
    ASSUME CheckedKeys
    PROVE  Spec => []TypeOK
<1>1. ASSUME IInv PROVE TypeOK
  <2> USE <1>1 DEF IInv
  <2>1. /\ hash.l2r \in [DOMAIN hash.l2r -> Right]
        /\ DOMAIN hash.l2r \in SUBSET Left
        /\ hash.r2l \in [DOMAIN hash.r2l -> Left]
        /\ DOMAIN hash.r2l \in SUBSET Right
    BY Typing DEF Good, IsContainer
  <2>2. /\ hash.l2r \in UNION {[S -> Right] : S \in SUBSET Left}
        /\ hash.r2l \in UNION {[S -> Left] : S \in SUBSET Right}
    BY <2>1
  <2> QED
    BY <2>2 DEF TypeOK, Hashes, LoopOK, Good, IsContainer
<1>2. IInv /\ [Next]_vars => IInv'
  BY NextIInv
<1> QED
  BY InitIInv, <1>1, <1>2, PTL DEF Spec

\* The container implements the bidirectional map for callers that check their
\* keys: hash order, loops and displaced partners never show in its pairs.
THEOREM ContainerImplementsBiMap ==
    ASSUME CheckedKeys
    PROVE  Spec => ImplementsBiMap
<1>1. Init => Abs!Init
  BY DEF Init, Abs!Init, Pairs, EmptyContainer, EmptyHash
<1>2. IInv /\ [Next]_vars => IInv'
  BY NextIInv
<1>3. ASSUME IInv, [Next]_vars
      PROVE  [Abs!Next]_(Pairs(hash))
  <2>1. CASE Next
    <3>1. AddsOrShrinks
      BY <1>3, <2>1, NextFacts
    <3> QED
      BY <3>1 DEF AddsOrShrinks, Adds, Shrinks, Abs!Next, Abs!Add, Abs!Erase, Abs!Conflicts, Pairs
  <2>2. CASE UNCHANGED vars
    BY <2>2 DEF vars, Pairs
  <2> QED
    BY <1>3, <2>1, <2>2
<1> QED
  BY InitIInv, <1>1, <1>2, <1>3, PTL DEF Spec, ImplementsBiMap, Abs!Spec

----------------------------------------------------------------------------
(* ProxyRows against KBiHash.                                              *)

\* A good container without the pair of t and u, which it holds.
LEMMA WithoutPair ==
    ASSUME NEW c, Good(c), NEW t \in DOMAIN c.l2r, NEW u, c.l2r[t] = u
    PROVE  /\ Good(eraseLeft(c, t)) /\ eraseRight(c, u) = eraseLeft(c, t)
           /\ DOMAIN eraseLeft(c, t).l2r = DOMAIN c.l2r \ {t}
           /\ DOMAIN eraseLeft(c, t).r2l = DOMAIN c.r2l \ {u} /\ eraseLeft(c, t).r2l = Drop(c.r2l, u)
BY DEF Good, IsContainer, Bijective, eraseLeft, eraseRight, Drop

\* insert keeps the hashes inverse, and seen from the right-to-left hash is MapInsert.
THEOREM InsertIsMapInsert ==
    ASSUME NEW c, Good(c), NEW t, NEW u
    PROVE  Good(insert(c, t, u)) /\ insert(c, t, u).r2l = MapInsert(c.r2l, t, u)
<1> DEFINE c1 == IF leftContains(c, t) THEN eraseLeft(c, t) ELSE c
           c2 == IF rightContains(c1, u) THEN eraseRight(c1, u) ELSE c1
           d == [l2r |-> Put(c2.l2r, t, u), r2l |-> Put(c2.r2l, u, t)]
<1>1. /\ Good(c1) /\ t \notin DOMAIN c1.l2r
      /\ DOMAIN c1.r2l = {q \in DOMAIN c.r2l : c.r2l[q] # t}
      /\ \A q \in DOMAIN c1.r2l : c1.r2l[q] = c.r2l[q]
  <2>1. CASE leftContains(c, t)
    <3>1. c1 = eraseLeft(c, t) /\ t \in DOMAIN c.l2r
      BY <2>1 DEF leftContains
    <3>2. Good(c1) /\ DOMAIN c1.l2r = DOMAIN c.l2r \ {t} /\ DOMAIN c1.r2l = DOMAIN c.r2l \ {c.l2r[t]}
      <4> DEFINE v == c.l2r[t]
      <4>1. v = c.l2r[t]
        OBVIOUS
      <4> HIDE DEF v, c1
      <4> QED
        BY <3>1, <4>1, WithoutPair
    <3>3. \A q \in DOMAIN c.r2l : c.r2l[q] # t <=> q # c.l2r[t]
      BY <3>1 DEF Good, Bijective
    <3>4. \A q \in DOMAIN c1.r2l : c1.r2l[q] = c.r2l[q]
      BY <3>1 DEF eraseLeft, Drop
    <3> QED
      BY <3>2, <3>3, <3>4
  <2>2. CASE ~leftContains(c, t)
    BY <2>2 DEF leftContains, Good, Bijective
  <2> QED
    BY <2>1, <2>2
<1> HIDE DEF c1
<1>2. /\ Good(c2) /\ t \notin DOMAIN c2.l2r /\ u \notin DOMAIN c2.r2l
      /\ DOMAIN c2.r2l = DOMAIN c1.r2l \ {u}
      /\ \A q \in DOMAIN c2.r2l : c2.r2l[q] = c1.r2l[q]
  <2>1. CASE rightContains(c1, u)
    <3> DEFINE s == c1.r2l[u]
    <3>1. c2 = eraseRight(c1, u) /\ s \in DOMAIN c1.l2r /\ c1.l2r[s] = u
      BY <1>1, <2>1 DEF rightContains, Good, Bijective
    <3> HIDE DEF s
    <3>2. /\ Good(c2) /\ DOMAIN c2.l2r = DOMAIN c1.l2r \ {s} /\ DOMAIN c2.r2l = DOMAIN c1.r2l \ {u}
          /\ c2.r2l = Drop(c1.r2l, u)
      BY <1>1, <3>1, WithoutPair
    <3> QED
      BY <1>1, <3>2 DEF Drop
  <2>2. CASE ~rightContains(c1, u)
    BY <1>1, <2>2 DEF rightContains
  <2> QED
    BY <2>1, <2>2
<1>3. insert(c, t, u) = d
  BY DEF insert, c1
<1> HIDE DEF c2
<1>4. IsContainer(d)
  BY <1>2 DEF Good, IsContainer, Put
<1>5. Bijective(d)
  BY <1>2 DEF Good, IsContainer, Bijective, Put
<1>6. d.r2l = Put(c2.r2l, u, t)
  OBVIOUS
<1> HIDE DEF d
<1>7. d.r2l = MapInsert(c.r2l, t, u)
  BY <1>1, <1>2, <1>6 DEF Put, MapInsert
<1> QED
  BY <1>3, <1>4, <1>5, <1>7 DEF Good

\* removeLeft of a mapped index, seen from the right-to-left hash, is MapRemove.
THEOREM RemoveLeftIsMapRemove ==
    ASSUME NEW c, Good(c), NEW t \in DOMAIN c.l2r
    PROVE  removeLeft(c, t).r2l = MapRemove(c.r2l, t)
<1>1. \A q \in DOMAIN c.r2l : c.r2l[q] = t <=> q = c.l2r[t]
  BY DEF Good, Bijective
<1> QED
  BY <1>1 DEF removeLeft, leftToRight, ValueOr, Drop, MapRemove

\* leftToRight is MappedRow, the default included.
THEOREM LeftToRightIsMappedRow ==
    ASSUME NEW c, Good(c), NEW t, DefaultRight = 0
    PROVE  leftToRight(c, t) = MappedRow(c.r2l, t)
<1>1. t \in DOMAIN c.l2r <=> t \in MappedIndexes(c.r2l)
  BY DEF Good, Bijective, MappedIndexes
<1>2. ASSUME t \in DOMAIN c.l2r
      PROVE  (CHOOSE r \in DOMAIN c.r2l : c.r2l[r] = t) = c.l2r[t]
  BY <1>2 DEF Good, Bijective
<1> QED
  BY <1>1, <1>2 DEF leftToRight, ValueOr, MappedRow

----------------------------------------------------------------------------
(* The loop.                                                               *)

\* The rows whose index has been inserted.
Inserted == DOMAIN updates \ waiting

\* The mapping when the indexes of "Inserted" have been inserted: they stand on
\* their new rows, the others where they stood, unless evicted.
Progress ==
    /\ DOMAIN mapping.r2l =
          Inserted \cup {r \in DOMAIN before.r2l :
                            \A k \in Inserted : updates[k] # before.r2l[r]}
    /\ \A r \in DOMAIN mapping.r2l :
          mapping.r2l[r] = IF r \in Inserted THEN updates[r] ELSE before.r2l[r]

ShiftInv ==
    /\ Good(mapping) /\ Good(before)
    /\ DOMAIN before.r2l \subseteq Rows
    /\ DOMAIN mapping.r2l \subseteq Rows
    /\ start \in Rows /\ offset \in Int
    /\ phase \in {"idle", "inserting"}
    /\ EndsInShift
    /\ phase = "inserting" =>
          /\ updates = [k \in {r + offset : r \in KeysFrom(before, start)} |->
                           before.r2l[k - offset]]
          /\ DOMAIN updates \subseteq Rows
          /\ waiting \subseteq DOMAIN updates
          /\ Progress

LEMMA Arithmetic ==
    /\ \A x, y \in Int : x + y \in Int /\ (x + y) - y = x
    /\ \A x \in Int : x + 0 = x /\ x - 0 = x
OBVIOUS

\* A shifted row shifts back to the row it came from.
LEMMA MovedBack ==
    ASSUME NEW S \in SUBSET Int, NEW o \in Int
    PROVE  \A k \in {r + o : r \in S} : k \in Int /\ k - o \in S
<1>1. ASSUME NEW k \in {r + o : r \in S}
      PROVE  k \in Int /\ k - o \in S
  <2>1. PICK r \in S : k = r + o
    OBVIOUS
  <2>2. r \in Int
    OBVIOUS
  <2> QED
    BY <2>1, <2>2, Arithmetic
<1> QED
  BY <1>1

LEMMA InitShiftInv == ShiftInit => ShiftInv
<1> SUFFICES ASSUME ShiftInit PROVE ShiftInv
  OBVIOUS
<1>1. /\ mapping \in [l2r : IndexHashes, r2l : RowHashes]
      /\ Bijective(mapping)
  BY DEF ShiftInit
<1>2. /\ mapping = [l2r |-> mapping.l2r, r2l |-> mapping.r2l]
      /\ mapping.l2r \in IndexHashes /\ mapping.r2l \in RowHashes
  BY <1>1
<1>3. /\ mapping.l2r = [t \in DOMAIN mapping.l2r |-> mapping.l2r[t]]
      /\ mapping.r2l = [u \in DOMAIN mapping.r2l |-> mapping.r2l[u]]
      /\ DOMAIN mapping.r2l \subseteq Rows
  BY <1>2 DEF IndexHashes, RowHashes
<1>4. Good(mapping)
  BY <1>1, <1>2, <1>3 DEF Good, IsContainer
<1>5. \A r \in DOMAIN mapping.r2l : r \in Int /\ r + 0 = r /\ r - 0 = r
  BY <1>3, RowsAssumption, Arithmetic
<1>6. MapShift(mapping.r2l, start, 0) = mapping.r2l
  <2> DEFINE m == mapping.r2l
             moved == {r \in DOMAIN m : r >= start}
             targets == {r + 0 : r \in moved}
             kept == {r \in DOMAIN m : r < start} \ targets
  <2>1. targets = moved
    BY <1>5
  <2>2. kept \cup targets = DOMAIN m
    BY <1>3, <2>1, RowsAssumption DEF ShiftInit
  <2>3. MapShift(m, start, 0) =
           [r \in kept \cup targets |-> IF r \in targets THEN m[r - 0] ELSE m[r]]
    BY DEF MapShift
  <2> QED
    BY <1>3, <1>5, <2>2, <2>3
<1> QED
  BY <1>3, <1>4, <1>6 DEF ShiftInit, ShiftInv, EndsInShift

LEMMA NextShiftInv ==
    ASSUME ShiftInv, [ShiftNext]_shiftVars
    PROVE  ShiftInv'
<1> USE DEF ShiftInv
<1>1. ASSUME NEW s \in Rows, NEW p \in Rows, NEW q \in Rows,
             Fits(s, p - q), Collect(s, p - q)
      PROVE  ShiftInv'
  <2> DEFINE o == p - q
  <2>1. o \in Int
    BY RowsAssumption
  <2>2. /\ updates' = [k \in {r + o : r \in KeysFrom(mapping, s)} |-> mapping.r2l[k - o]]
        /\ DOMAIN updates' \subseteq Rows
        /\ waiting' = DOMAIN updates'
    BY <1>1 DEF Collect, Fits
  <2>3. Inserted' = {}
    BY <2>2 DEF Inserted
  <2>4. Progress'
    BY <1>1, <2>3 DEF Progress, Collect
  <2> QED
    BY <1>1, <2>1, <2>2, <2>4 DEF Collect, EndsInShift
<1>2. ASSUME NEW k \in Rows, InsertOne(k)
      PROVE  ShiftInv'
  <2>1. /\ phase = "inserting" /\ phase' = "inserting" /\ k \in waiting
        /\ mapping' = insert(mapping, updates[k], k)
        /\ Inserted' = Inserted \cup {k}
        /\ UNCHANGED <<before, start, offset, updates, phase>>
    BY <1>2 DEF InsertOne, Inserted
  <2>2. Good(mapping')
    BY <2>1, InsertIsMapInsert
  <2>3. mapping'.r2l = MapInsert(mapping.r2l, updates[k], k)
    BY <2>1, InsertIsMapInsert
  <2>4. /\ DOMAIN mapping'.r2l = {q \in DOMAIN mapping.r2l : mapping.r2l[q] # updates[k]} \cup {k}
        /\ \A r \in DOMAIN mapping'.r2l :
              mapping'.r2l[r] = IF r = k THEN updates[k] ELSE mapping.r2l[r]
    BY <2>3 DEF MapInsert
  <2>5. \A j, h \in DOMAIN updates : updates[j] = updates[h] => j = h
    <3>1. \A j \in DOMAIN updates : j \in Int /\ j - offset \in DOMAIN before.r2l
      <4>1. KeysFrom(before, start) \in SUBSET Int
        BY RowsAssumption DEF KeysFrom
      <4> QED
        BY <2>1, <4>1, MovedBack DEF KeysFrom
    <3>2. \A p, q \in DOMAIN before.r2l : before.r2l[p] = before.r2l[q] => p = q
      BY DEF Good, Bijective
    <3> QED
      BY <2>1, <3>1, <3>2
  <2>6. Progress'
    BY <2>1, <2>4, <2>5 DEF Progress, Inserted
  <2> QED
    BY <1>2, <2>1, <2>2, <2>4, <2>6 DEF InsertOne, EndsInShift
<1>3. CASE Finish
  <2>1. /\ phase = "inserting" /\ phase' = "idle"
        /\ Inserted = DOMAIN updates
        /\ UNCHANGED <<mapping, before, start, offset, updates, waiting>>
    BY <1>3 DEF Finish, Inserted
  <2> DEFINE m == before.r2l
             moved == {r \in DOMAIN m : r >= start}
             targets == {r + offset : r \in moved}
             kept == {r \in DOMAIN m : r < start} \ targets
  <2>2. DOMAIN updates = targets /\ \A k \in targets : updates[k] = m[k - offset]
    BY <2>1 DEF KeysFrom
  <2>3. \A r \in moved : r + offset \in targets /\ updates[r + offset] = m[r]
    <3>1. \A r \in moved : r \in Int
      BY RowsAssumption
    <3>2. \A r \in moved : r + offset \in targets /\ (r + offset) - offset = r
      BY <3>1, Arithmetic
    <3> QED
      BY <2>2, <3>2
  <2>4. \A q, r \in DOMAIN m : m[q] = m[r] => q = r
    BY DEF Good, Bijective
  <2>5. \A k \in targets : k - offset \in moved
    <3>1. moved \in SUBSET Int
      BY RowsAssumption
    <3> QED
      BY <3>1, MovedBack
  <2>6. ASSUME NEW r \in DOMAIN m
        PROVE  (\A k \in targets : updates[k] # m[r]) <=> r < start
    <3>1. r \in Int /\ start \in Int
      BY RowsAssumption
    <3> QED
      BY <2>2, <2>3, <2>4, <2>5, <3>1
  <2>7. DOMAIN mapping.r2l = targets \cup {r \in DOMAIN m : r < start}
    BY <2>1, <2>2, <2>6 DEF Progress
  <2>8. mapping.r2l = [r \in kept \cup targets |-> IF r \in targets THEN m[r - offset] ELSE m[r]]
    <3>1. mapping.r2l = [r \in DOMAIN mapping.r2l |-> mapping.r2l[r]]
      BY DEF Good, IsContainer
    <3>2. DOMAIN mapping.r2l = kept \cup targets
      BY <2>7
    <3>3. \A r \in DOMAIN mapping.r2l :
             mapping.r2l[r] = IF r \in targets THEN m[r - offset] ELSE m[r]
      BY <2>1, <2>2 DEF Progress
    <3> HIDE DEF m, targets, kept, moved
    <3> QED
      BY <3>1, <3>2, <3>3
  <2>9. mapping.r2l = MapShift(before.r2l, start, offset)
    BY <2>8 DEF MapShift
  <2> QED
    BY <2>1, <2>9 DEF EndsInShift
<1>4. CASE UNCHANGED shiftVars
  BY <1>4 DEF shiftVars, EndsInShift, Progress, Inserted
<1> QED
  BY <1>1, <1>2, <1>3, <1>4 DEF ShiftNext

\* In whatever order the hash gives the collected rows back, the call ends in
\* the shifted mapping.
THEOREM LoopEndsInShift == ShiftSpec => []EndsInShift
<1>1. ShiftInv => EndsInShift
  BY DEF ShiftInv
<1>2. ShiftInv /\ [ShiftNext]_shiftVars => ShiftInv'
  BY NextShiftInv
<1> QED
  BY InitShiftInv, <1>1, <1>2, PTL DEF ShiftSpec

\* While rows are overwritten the two hashes stay inverse of each other.
THEOREM LoopStaysBijective == ShiftSpec => []StaysBijective
<1>1. ShiftInv => StaysBijective
  BY DEF ShiftInv, StaysBijective, Good
<1>2. ShiftInv /\ [ShiftNext]_shiftVars => ShiftInv'
  BY NextShiftInv
<1> QED
  BY InitShiftInv, <1>1, <1>2, PTL DEF ShiftSpec
=============================================================================
