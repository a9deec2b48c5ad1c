------------------------- MODULE SourceTreeTheorems -------------------------
(***************************************************************************)
(* Facts about source trees of any size: what a climb to the root visits,  *)
(* and that a change of the tree leaves alone the ancestors of every index *)
(* that is not below the changed rows.  The proxy decides by ancestors     *)
(* what is visible, before a change and again after it, so its handlers    *)
(* rely on these facts.                                                    *)
(* From the order of a tree follow lists of its rows, as a proxy shows     *)
(* them: what an insertion or a removal makes of a list and of a mapping   *)
(* that holds some of its rows.                                            *)
(*                                                                         *)
(* The lemmas are about a parent function "par", so that they speak of the *)
(* tree before a step and of the one after it.                             *)
(***************************************************************************)
EXTENDS SourceTree, ProxyRows, Sequences, FiniteSetTheorems, FunctionTheorems, TLAPS

Indexes == Nodes \cup {Root, Absent}

In(par) == {n \in Nodes : par[n] # Absent}

\* Every index of the model has a parent in the model, and no climb goes round in
\* circles: each set of indexes has one whose parent is outside it.
IsTree(par) ==
    /\ par \in [Nodes -> Indexes]
    /\ \A n \in In(par) : par[n] \in In(par) \cup {Root}
    /\ \A S \in SUBSET In(par) : S # {} => \E n \in S : par[n] \notin S

\* The recursive definition of SelfAndAbove, as the equation it solves.
Climb(par, f) == [i \in Indexes |-> IF i \in Nodes /\ par[i] # Absent
                                    THEN {i} \cup f[par[i]] ELSE {}]

Ancestors(par) == CHOOSE f : f = Climb(par, f)

LEMMA SelfAndAboveIsAncestors == SelfAndAbove = Ancestors(srcParent)
BY DEF SelfAndAbove, Ancestors, Climb, Indexes

----------------------------------------------------------------------------
(* The climb.                                                              *)

\* The indexes in every set that has i and is closed under parents.
Up(par, i) == {a \in In(par) :
                 \A S \in SUBSET In(par) :
                    (/\ i \in In(par) => i \in S
                     /\ \A n \in S : par[n] \in In(par) => par[n] \in S)
                    => a \in S}

LEMMA UpUnfolds ==
    ASSUME NEW par, NEW i
    PROVE  Up(par, i) = IF i \in In(par) THEN {i} \cup Up(par, par[i]) ELSE {}
<1>1. CASE i \notin In(par)
  BY <1>1 DEF Up
<1>2. CASE i \in In(par)
  <2> DEFINE p == par[i]
             S == {i} \cup Up(par, p)
  <2>1. \A n \in Up(par, p) : par[n] \in In(par) => par[n] \in Up(par, p)
    BY DEF Up
  <2>2. p \in In(par) => p \in Up(par, p)
    BY DEF Up
  <2>3. S \in SUBSET In(par)
    BY <1>2 DEF Up
  <2>4. \A n \in S : par[n] \in In(par) => par[n] \in S
    BY <2>1, <2>2
  <2>5. ASSUME NEW a \in Up(par, i)
        PROVE  a \in S
    <3>1. i \in S
      OBVIOUS
    <3> HIDE DEF S
    <3> QED
      BY <2>3, <2>4, <3>1 DEF Up
  <2>6. S \subseteq Up(par, i)
    <3>1. i \in Up(par, i)
      BY <1>2 DEF Up
    <3>2. ASSUME NEW a \in Up(par, p)
          PROVE  a \in Up(par, i)
      BY <1>2, <3>2 DEF Up
    <3> QED
      BY <3>1, <3>2
  <2> QED
    BY <1>2, <2>5, <2>6
<1> QED
  BY <1>1, <1>2

UpOf(par) == [i \in Indexes |-> Up(par, i)]

\* The equation has a solution, and so Ancestors(par) is one.
LEMMA AncestorsUnfold ==
    ASSUME NEW par \in [Nodes -> Indexes]
    PROVE  \A i \in Indexes :
              Ancestors(par)[i] = IF i \in In(par) THEN {i} \cup Ancestors(par)[par[i]]
                                  ELSE {}
<1>1. UpOf(par) = Climb(par, UpOf(par))
  <2>1. ASSUME NEW i \in Indexes
        PROVE  Up(par, i) = IF i \in Nodes /\ par[i] # Absent
                            THEN {i} \cup UpOf(par)[par[i]] ELSE {}
    <3>1. i \in In(par) <=> i \in Nodes /\ par[i] # Absent
      BY DEF In
    <3>2. i \in In(par) => UpOf(par)[par[i]] = Up(par, par[i])
      BY DEF UpOf, In, Indexes
    <3> QED
      BY <3>1, <3>2, UpUnfolds
  <2> QED
    BY <2>1 DEF UpOf, Climb
<1>2. Ancestors(par) = Climb(par, Ancestors(par))
  BY <1>1 DEF Ancestors
<1>3. ASSUME NEW i \in Indexes
      PROVE  Ancestors(par)[i] = IF i \in Nodes /\ par[i] # Absent
                                 THEN {i} \cup Ancestors(par)[par[i]] ELSE {}
  <2>1. Climb(par, Ancestors(par))[i] = IF i \in Nodes /\ par[i] # Absent
                                        THEN {i} \cup Ancestors(par)[par[i]] ELSE {}
    BY DEF Climb
  <2> QED
    BY <2>1, <1>2
<1> QED
  BY <1>3 DEF In

\* The invalid index has no ancestors, an index of the model has itself and those
\* of its parent.
LEMMA AncestorsOfOne ==
    ASSUME NEW par, IsTree(par)
    PROVE  /\ Ancestors(par)[Root] = {}
           /\ \A i \in In(par) : /\ Ancestors(par)[i] = {i} \cup Ancestors(par)[par[i]]
                                 /\ par[i] \in In(par) \cup {Root}
<1>1. par \in [Nodes -> Indexes] /\ Root \in Indexes /\ In(par) \subseteq Indexes
  BY DEF IsTree, Indexes, In
<1>2. Root \notin In(par)
  BY NodesAssumption DEF In
<1> QED
  BY <1>1, <1>2, AncestorsUnfold DEF IsTree

----------------------------------------------------------------------------
(* Ancestors in a tree.                                                    *)

\* The ancestors of an index are in the model, and so are their parents among them.
LEMMA AncestorsClosed ==
    ASSUME NEW par, IsTree(par), NEW i \in In(par) \cup {Root}, NEW a \in Ancestors(par)[i]
    PROVE  a \in In(par) /\ par[a] \in Ancestors(par)[i] \cup {Root}
<1> DEFINE good(j, b) == b \in In(par) /\ par[b] \in Ancestors(par)[j] \cup {Root}
           bad == {j \in In(par) : \E b \in Ancestors(par)[j] : ~good(j, b)}
<1>1. bad = {}
  <2> SUFFICES ASSUME bad # {} PROVE FALSE
    OBVIOUS
  <2>1. PICK j \in bad : par[j] \notin bad
    BY DEF IsTree
  <2>2. PICK b \in Ancestors(par)[j] : ~good(j, b)
    BY <2>1
  <2>3. /\ Ancestors(par)[j] = {j} \cup Ancestors(par)[par[j]]
        /\ par[j] \in In(par) \cup {Root}
        /\ Ancestors(par)[Root] = {}
    BY <2>1, AncestorsOfOne
  <2>4. par[j] \in In(par) => par[j] \in Ancestors(par)[par[j]]
    BY AncestorsOfOne
  <2>5. b # j
    BY <2>1, <2>2, <2>3, <2>4
  <2>6. b \in Ancestors(par)[par[j]] /\ par[j] \in In(par)
    BY <2>2, <2>3, <2>5
  <2>7. good(par[j], b)
    BY <2>1, <2>6
  <2> QED
    BY <2>2, <2>3, <2>7
<1> QED
  BY <1>1, AncestorsOfOne

LEMMA AncestorsTransitive ==
    ASSUME NEW par, IsTree(par), NEW i \in In(par) \cup {Root}, NEW a \in Ancestors(par)[i]
    PROVE  Ancestors(par)[a] \subseteq Ancestors(par)[i]
<1> DEFINE bad == {j \in In(par) : \E b \in Ancestors(par)[j] :
                                      ~(Ancestors(par)[b] \subseteq Ancestors(par)[j])}
<1>1. bad = {}
  <2> SUFFICES ASSUME bad # {} PROVE FALSE
    OBVIOUS
  <2>1. PICK j \in bad : par[j] \notin bad
    BY DEF IsTree
  <2>2. PICK b \in Ancestors(par)[j] : ~(Ancestors(par)[b] \subseteq Ancestors(par)[j])
    BY <2>1
  <2>3. /\ Ancestors(par)[j] = {j} \cup Ancestors(par)[par[j]]
        /\ par[j] \in In(par) \cup {Root}
        /\ Ancestors(par)[Root] = {}
    BY <2>1, AncestorsOfOne
  <2>4. b \in Ancestors(par)[par[j]] /\ par[j] \in In(par)
    BY <2>2, <2>3
  <2> QED
    BY <2>1, <2>2, <2>3, <2>4
<1> QED
  BY <1>1, AncestorsOfOne

\* No index is above itself.
LEMMA NoCycle ==
    ASSUME NEW par, IsTree(par), NEW i \in In(par)
    PROVE  i \notin Ancestors(par)[par[i]]
<1> DEFINE bad == {j \in In(par) : j \in Ancestors(par)[par[j]]}
<1>1. bad = {}
  <2> SUFFICES ASSUME bad # {} PROVE FALSE
    OBVIOUS
  <2>1. PICK j \in bad : par[j] \notin bad
    BY DEF IsTree
  <2> DEFINE p == par[j]
  <2>2. p \in In(par)
    BY <2>1, AncestorsOfOne
  <2>3. p \notin Ancestors(par)[par[p]]
    BY <2>1, <2>2
  <2>4. /\ Ancestors(par)[p] = {p} \cup Ancestors(par)[par[p]]
        /\ par[p] \in In(par) \cup {Root}
    BY <2>2, AncestorsOfOne
  <2>5. j \in Ancestors(par)[par[p]]
    BY <2>1, <2>3, <2>4
  <2>6. Ancestors(par)[j] \subseteq Ancestors(par)[par[p]]
    BY <2>4, <2>5, AncestorsTransitive
  <2>7. p \in Ancestors(par)[j]
    BY <2>1, <2>4, AncestorsOfOne
  <2> QED
    BY <2>3, <2>6, <2>7
<1> QED
  BY <1>1

\* Where a set of indexes that has all their parents keeps them, it keeps the
\* ancestors, too.
LEMMA AncestorsKept ==
    ASSUME NEW par, IsTree(par), NEW new \in [Nodes -> Indexes],
           NEW S \in SUBSET In(par),
           \A n \in S : par[n] \in S \cup {Root} /\ new[n] = par[n]
    PROVE  \A i \in S \cup {Root} : Ancestors(new)[i] = Ancestors(par)[i]
<1> DEFINE bad == {i \in S : Ancestors(new)[i] # Ancestors(par)[i]}
<1>0. Root \notin In(new) /\ Root \in Indexes /\ In(par) \subseteq Indexes
  BY NodesAssumption DEF In, Indexes
<1>1. Ancestors(new)[Root] = Ancestors(par)[Root]
  BY <1>0, AncestorsUnfold, AncestorsOfOne
<1>2. bad = {}
  <2> SUFFICES ASSUME bad # {} PROVE FALSE
    OBVIOUS
  <2>1. PICK j \in bad : par[j] \notin bad
    BY DEF IsTree
  <2>2. j \in In(new) /\ j \in In(par) /\ j \in Indexes
    BY <2>1 DEF In, Indexes
  <2>3. Ancestors(new)[j] = {j} \cup Ancestors(new)[par[j]]
    BY <2>1, <2>2, AncestorsUnfold
  <2>4. Ancestors(par)[j] = {j} \cup Ancestors(par)[par[j]]
    BY <2>2, AncestorsOfOne
  <2>5. Ancestors(new)[par[j]] = Ancestors(par)[par[j]]
    BY <2>1, <1>1
  <2> QED
    BY <2>1, <2>3, <2>4, <2>5
<1> QED
  BY <1>1, <1>2

\* Of two ancestors of an index one is an ancestor of the other.
LEMMA AncestorsChain ==
    ASSUME NEW par, IsTree(par), NEW i \in In(par) \cup {Root},
           NEW a \in Ancestors(par)[i], NEW b \in Ancestors(par)[i]
    PROVE  a \in Ancestors(par)[b] \/ b \in Ancestors(par)[a]
<1> DEFINE up == Ancestors(par)
           bad == {j \in In(par) : \E c, d \in up[j] : ~(c \in up[d] \/ d \in up[c])}
<1>1. bad = {}
  <2> SUFFICES ASSUME bad # {} PROVE FALSE
    OBVIOUS
  <2>1. PICK j \in bad : par[j] \notin bad
    BY DEF IsTree
  <2>2. PICK c \in up[j], d \in up[j] : ~(c \in up[d] \/ d \in up[c])
    BY <2>1
  <2>3. up[j] = {j} \cup up[par[j]] /\ par[j] \in In(par) \cup {Root} /\ up[Root] = {}
    BY <2>1, AncestorsOfOne
  <2>4. c \in up[par[j]] /\ d \in up[par[j]] /\ par[j] \in In(par)
    BY <2>2, <2>3
  <2> QED
    BY <2>1, <2>2, <2>4
<1> QED
  BY <1>1, AncestorsOfOne

LEMMA AncestorsAntisymmetric ==
    ASSUME NEW par, IsTree(par), NEW a \in In(par), NEW b \in In(par),
           a \in Ancestors(par)[b], b \in Ancestors(par)[a]
    PROVE  a = b
<1> SUFFICES ASSUME a # b PROVE FALSE
  OBVIOUS
<1>1. Ancestors(par)[b] = {b} \cup Ancestors(par)[par[b]] /\ par[b] \in In(par) \cup {Root}
  BY AncestorsOfOne
<1>2. a \in Ancestors(par)[par[b]]
  BY <1>1
<1>3. b \in Ancestors(par)[par[b]]
  BY <1>1, <1>2, AncestorsTransitive
<1> QED
  BY <1>3, NoCycle

\* Nothing is below two children of one index.
LEMMA SiblingsApart ==
    ASSUME NEW par, IsTree(par), NEW z \in In(par) \cup {Root},
           NEW a \in Ancestors(par)[z], NEW b \in Ancestors(par)[z], par[a] = par[b]
    PROVE  a = b
<1> SUFFICES ASSUME a # b PROVE FALSE
  OBVIOUS
<1>1. a \in In(par) /\ b \in In(par)
  BY AncestorsClosed
<1>2. /\ Ancestors(par)[a] = {a} \cup Ancestors(par)[par[a]]
      /\ Ancestors(par)[b] = {b} \cup Ancestors(par)[par[b]]
  BY <1>1, AncestorsOfOne
<1>3. CASE a \in Ancestors(par)[b]
  BY <1>1, <1>2, <1>3, NoCycle
<1>4. CASE b \in Ancestors(par)[a]
  BY <1>1, <1>2, <1>4, NoCycle
<1> QED
  BY <1>3, <1>4, AncestorsChain

\* What is above an ancestor of z is above z.
LEMMA AboveAncestor ==
    ASSUME NEW par, IsTree(par), NEW z \in In(par), NEW a \in Ancestors(par)[z]
    PROVE  Ancestors(par)[par[a]] \subseteq Ancestors(par)[par[z]]
<1>1. /\ Ancestors(par)[z] = {z} \cup Ancestors(par)[par[z]] /\ par[z] \in In(par) \cup {Root}
      /\ a \in In(par)
  BY AncestorsOfOne, AncestorsClosed
<1>2. Ancestors(par)[a] = {a} \cup Ancestors(par)[par[a]]
  BY <1>1, AncestorsOfOne
<1>3. CASE a = z
  BY <1>3
<1>4. CASE a \in Ancestors(par)[par[z]]
  BY <1>1, <1>2, <1>4, AncestorsTransitive
<1> QED
  BY <1>1, <1>3, <1>4

\* The highest ancestor of j in a set has none of the set above it.
LEMMA HighestAncestor ==
    ASSUME NEW par, IsTree(par), NEW j \in In(par) \cup {Root}, NEW X,
           Ancestors(par)[j] \cap X # {}
    PROVE  \E t \in Ancestors(par)[j] \cap X : Ancestors(par)[par[t]] \cap X = {}
<1> DEFINE up == Ancestors(par)
           T == {a \in up[j] : up[a] \cap X # {}}
<1>1. up[j] \subseteq In(par)
  BY AncestorsClosed
<1>2. PICK x \in up[j] : x \in X
  OBVIOUS
<1>3. x \in up[x]
  BY <1>1, <1>2, AncestorsOfOne
<1>4. T \in SUBSET In(par) /\ T # {}
  BY <1>1, <1>2, <1>3
<1>5. PICK t \in T : par[t] \notin T
  <2> HIDE DEF T
  <2> QED
    BY <1>4 DEF IsTree
<1>6. t \in In(par) /\ par[t] \in up[j] \cup {Root}
  BY <1>1, <1>5, AncestorsClosed
<1>7. up[Root] = {} /\ up[t] = {t} \cup up[par[t]]
  BY <1>6, AncestorsOfOne
<1>8. up[par[t]] \cap X = {}
  BY <1>5, <1>6, <1>7
<1> QED
  BY <1>5, <1>7, <1>8

----------------------------------------------------------------------------
(* Changes of the tree.                                                    *)

LEMMA CountType ==
    ASSUME NEW S \in SUBSET Nodes
    PROVE  IsFiniteSet(S) /\ Cardinality(S) \in Nat
BY NodesAssumption, FS_Subset, FS_CardinalityType

LEMMA ForestFacts ==
    ASSUME NEW f \in Forests
    PROVE  /\ DOMAIN f \in SUBSET Nodes
           /\ Tops(f) \subseteq DOMAIN f
           /\ \A n \in DOMAIN f : /\ f[n].parent \in DOMAIN f \cup {Root}
                                 /\ f[n].row \in Nat
           /\ IsForest(f)
<1>1. PICK S \in SUBSET Nodes : f \in [S -> [parent : S \cup {Root}, row : 0 .. Cardinality(S) - 1]]
  BY DEF Forests
<1>2. Cardinality(S) \in Nat
  BY CountType
<1>3. \A n \in S : f[n].parent \in S \cup {Root} /\ f[n].row \in 0 .. Cardinality(S) - 1
  BY <1>1
<1> QED
  BY <1>1, <1>2, <1>3 DEF Forests, Tops

\* Each change below keeps the tree a tree, and the ancestors of every index that
\* is not below a removed or moved row.
LEMMA InsertRowsKeepsTree ==
    ASSUME IsTree(srcParent), NEW f \in Forests, DOMAIN f \subseteq Nodes \ Present,
           NEW p \in Present \cup {Root}, NEW start, InsertRows(f, p, start)
    PROVE  /\ IsTree(srcParent')
           /\ Present \subseteq In(srcParent')
           /\ \A i \in Present \cup {Root} : Ancestors(srcParent')[i] = Ancestors(srcParent)[i]
<1> DEFINE new == srcParent'
<1>1. new = [n \in Nodes |-> IF n \in Tops(f) THEN p
                             ELSE IF n \in DOMAIN f THEN f[n].parent
                             ELSE srcParent[n]]
  BY DEF InsertRows
<1>2. /\ DOMAIN f \in SUBSET Nodes
      /\ Tops(f) = {n \in DOMAIN f : f[n].parent = Root}
      /\ \A n \in DOMAIN f : f[n].parent \in DOMAIN f \cup {Root}
      /\ \A S \in SUBSET DOMAIN f : S # {} => \E n \in S : f[n].parent \notin S
  BY ForestFacts DEF IsForest, Tops
<1>3. /\ srcParent \in [Nodes -> Indexes] /\ Present = In(srcParent) /\ Present \subseteq Nodes
      /\ \A n \in Present : srcParent[n] \in Present \cup {Root}
      /\ \A S \in SUBSET Present : S # {} => \E n \in S : srcParent[n] \notin S
  BY DEF IsTree, Present, In
<1>4. Root \notin Nodes /\ Absent \notin Nodes /\ Root # Absent
  BY NodesAssumption
<1> HIDE DEF new
<1>5. \A n \in Nodes : new[n] = IF n \in Tops(f) THEN p
                               ELSE IF n \in DOMAIN f THEN f[n].parent
                               ELSE srcParent[n]
  BY <1>1
<1>6. new \in [Nodes -> Indexes]
  BY <1>1, <1>2, <1>3 DEF Indexes
<1>7. \A n \in Present : new[n] = srcParent[n]
  BY <1>2, <1>3, <1>5
<1>8. In(new) = Present \cup DOMAIN f
  <2>1. \A n \in DOMAIN f : new[n] # Absent
    BY <1>2, <1>3, <1>4, <1>5
  <2>2. \A n \in Nodes : n \notin Present \cup DOMAIN f => new[n] = Absent
    BY <1>2, <1>3, <1>5 DEF In
  <2> QED
    BY <2>1, <2>2, <1>2, <1>3, <1>7 DEF In
<1>9. \A n \in In(new) : new[n] \in In(new) \cup {Root}
  BY <1>2, <1>3, <1>5, <1>7, <1>8
<1>10. ASSUME NEW S \in SUBSET In(new), S # {}
       PROVE  \E n \in S : new[n] \notin S
  <2>1. CASE S \cap Present # {}
    <3>1. PICK n \in S \cap Present : srcParent[n] \notin S \cap Present
      BY <1>3, <2>1
    <3>2. Root \notin S
      BY <1>2, <1>3, <1>4, <1>8
    <3>3. srcParent[n] \in Present \cup {Root}
      BY <1>3, <3>1
    <3> QED
      BY <1>7, <3>1, <3>2, <3>3
  <2>2. CASE S \cap Present = {}
    <3>1. S \in SUBSET DOMAIN f
      BY <1>8, <2>2
    <3>2. PICK n \in S : f[n].parent \notin S
      BY <1>2, <1>10, <3>1
    <3>3. new[n] = p \/ new[n] = f[n].parent
      BY <1>2, <1>5, <3>1
    <3>4. p \notin S
      BY <1>2, <1>4, <2>2, <3>1
    <3> QED
      BY <3>2, <3>3, <3>4
  <2> QED
    BY <2>1, <2>2
<1>11. \A i \in Present \cup {Root} : Ancestors(new)[i] = Ancestors(srcParent)[i]
  BY <1>3, <1>6, <1>7, AncestorsKept
<1> QED
  BY <1>6, <1>8, <1>9, <1>10, <1>11 DEF IsTree, new

\* What is not below the rows first .. last of p has its ancestors there, too; p is
\* among them.
LEMMA RestOfTree ==
    ASSUME IsTree(srcParent), NEW p \in Present \cup {Root}, NEW first, NEW last
    PROVE  LET rest == Present \ InRows(p, first, last)
           IN  /\ \A n \in rest : srcParent[n] \in rest \cup {Root}
               /\ p \in rest \cup {Root}
               /\ \A n \in rest \cup {Root} : Ancestors(srcParent)[n] \subseteq rest
<1> DEFINE up == Ancestors(srcParent)
           marked == {a \in Present : srcParent[a] = p /\ srcRow[a] \in first .. last}
           rest == Present \ InRows(p, first, last)
<1>1. Present = In(srcParent)
  BY DEF Present, In
<1>2. \A n \in Present : /\ up[n] \subseteq Present
                        /\ up[n] = {n} \cup up[srcParent[n]]
                        /\ srcParent[n] \in Present \cup {Root}
  BY <1>1, AncestorsClosed, AncestorsOfOne
<1>3. InRows(p, first, last) = {n \in Present : up[n] \cap marked # {}}
  BY <1>2, SelfAndAboveIsAncestors DEF InRows
<1>4. up[Root] = {}
  BY AncestorsOfOne
<1>5. \A n \in rest : srcParent[n] \in rest \cup {Root}
  BY <1>2, <1>3
<1>6. p \in rest \cup {Root}
  <2> SUFFICES ASSUME p \in Present, up[p] \cap marked # {} PROVE FALSE
    BY <1>3
  <2>1. PICK a \in marked : a \in up[p]
    OBVIOUS
  <2>2. srcParent[a] = p /\ a \in In(srcParent)
    BY <1>1
  <2> QED
    BY <2>1, <2>2, NoCycle
<1>7. \A n \in rest : up[n] \subseteq rest
  <2> SUFFICES ASSUME NEW n \in rest, NEW a \in up[n] PROVE a \in rest
    OBVIOUS
  <2>1. a \in Present
    BY <1>2
  <2>2. up[a] \subseteq up[n]
    BY <1>1, AncestorsTransitive
  <2> QED
    BY <1>3, <2>1, <2>2
<1> QED
  BY <1>4, <1>5, <1>6, <1>7

LEMMA RemoveRowsKeepsTree ==
    ASSUME IsTree(srcParent), NEW p \in Present \cup {Root}, NEW first, NEW last,
           RemoveRows(p, first, last)
    PROVE  LET rest == Present \ InRows(p, first, last)
           IN  /\ IsTree(srcParent')
               /\ In(srcParent') = rest
               /\ \A i \in rest \cup {Root} :
                      Ancestors(srcParent')[i] = Ancestors(srcParent)[i]
<1> DEFINE gone == InRows(p, first, last)
           rest == Present \ gone
           new == srcParent'
<1>1. \A n \in rest : srcParent[n] \in rest \cup {Root}
  BY RestOfTree
<1>2. new = [n \in Nodes |-> IF n \in gone THEN Absent ELSE srcParent[n]]
  BY DEF RemoveRows
<1>3. /\ srcParent \in [Nodes -> Indexes] /\ Present = In(srcParent) /\ Present \subseteq Nodes
      /\ \A S \in SUBSET Present : S # {} => \E n \in S : srcParent[n] \notin S
  BY DEF IsTree, Present, In
<1> HIDE DEF new, gone
<1>4. /\ new \in [Nodes -> Indexes]
      /\ \A n \in rest : new[n] = srcParent[n]
      /\ \A n \in gone \cap Nodes : new[n] = Absent
  BY <1>2, <1>3 DEF Indexes
<1>5. In(new) = rest
  BY <1>2, <1>3, <1>4 DEF In
<1>6. \A S \in SUBSET In(new) : S # {} => \E n \in S : new[n] \notin S
  BY <1>3, <1>4, <1>5
<1>7. \A i \in rest \cup {Root} : Ancestors(new)[i] = Ancestors(srcParent)[i]
  <2>1. rest \in SUBSET In(srcParent)
    BY <1>3
  <2>2. \A n \in rest : srcParent[n] \in rest \cup {Root} /\ new[n] = srcParent[n]
    BY <1>1, <1>4
  <2> HIDE DEF rest
  <2> QED
    BY <1>4, <2>1, <2>2, AncestorsKept
<1> QED
  BY <1>1, <1>4, <1>5, <1>6, <1>7 DEF IsTree, new, gone

LEMMA MoveRowsKeepsTree ==
    ASSUME IsTree(srcParent), NEW p \in Present \cup {Root}, NEW q \in Present \cup {Root},
           NEW first, NEW last, NEW dest,
           CanMove(p, first, last, q, dest), MoveRows(p, first, last, q, dest)
    PROVE  LET rest == Present \ InRows(p, first, last)
           IN  /\ IsTree(srcParent')
               /\ In(srcParent') = Present
               /\ p \in rest \cup {Root} /\ q \in rest \cup {Root}
               /\ \A i \in rest \cup {Root} :
                      Ancestors(srcParent')[i] = Ancestors(srcParent)[i]
<1> DEFINE gone == InRows(p, first, last)
           rest == Present \ gone
           new == srcParent'
           moves(n) == srcParent[n] = p /\ srcRow[n] \in first .. last
<1>1. /\ \A n \in rest : srcParent[n] \in rest \cup {Root}
      /\ p \in rest \cup {Root}
  BY RestOfTree
<1>2. q \in rest \cup {Root}
  BY DEF CanMove
<1>3. /\ srcParent \in [Nodes -> Indexes] /\ Present = In(srcParent) /\ Present \subseteq Nodes
      /\ \A n \in Present : srcParent[n] \in Present \cup {Root}
      /\ \A S \in SUBSET Present : S # {} => \E n \in S : srcParent[n] \notin S
  BY DEF IsTree, Present, In
<1>4. Root \notin Nodes /\ Absent \notin Nodes /\ Root # Absent
  BY NodesAssumption
<1>5. new = [n \in Nodes |-> IF moves(n) THEN q ELSE srcParent[n]]
  BY DEF MoveRows
<1>6. \A n \in Nodes : moves(n) => n \in Present /\ n \in gone
  <2> SUFFICES ASSUME NEW n \in Nodes, moves(n) PROVE n \in Present /\ n \in gone
    OBVIOUS
  <2>1. n \in Present
    BY <1>3, <1>4 DEF Present
  <2>2. n \in SelfAndAbove[n]
    BY <1>3, <2>1, AncestorsOfOne, SelfAndAboveIsAncestors
  <2> QED
    BY <2>1, <2>2 DEF InRows
<1> HIDE DEF new, gone, moves
<1>7. /\ new \in [Nodes -> Indexes]
      /\ \A n \in rest : new[n] = srcParent[n]
      /\ \A n \in Nodes : new[n] = q \/ new[n] = srcParent[n]
  BY <1>3, <1>5, <1>6 DEF Indexes
<1>8. In(new) = Present
  BY <1>3, <1>4, <1>5, <1>6 DEF In
<1>9. \A n \in In(new) : new[n] \in In(new) \cup {Root}
  BY <1>3, <1>7, <1>8
<1>10. ASSUME NEW S \in SUBSET In(new), S # {}
       PROVE  \E n \in S : new[n] \notin S
  <2>1. CASE S \cap rest # {}
    <3>1. PICK n \in S \cap rest : srcParent[n] \notin S \cap rest
      BY <1>3, <2>1
    <3>2. srcParent[n] \in rest \cup {Root} /\ Root \notin S
      BY <1>1, <1>3, <1>4, <1>8, <3>1
    <3> QED
      BY <1>7, <3>1, <3>2
  <2>2. CASE S \cap rest = {}
    <3>1. PICK n \in S : srcParent[n] \notin S
      BY <1>3, <1>8, <1>10
    <3>2. q \notin S
      BY <1>2, <1>3, <1>4, <1>8, <2>2
    <3> QED
      BY <1>3, <1>7, <1>8, <3>1, <3>2
  <2> QED
    BY <2>1, <2>2
<1>11. \A i \in rest \cup {Root} : Ancestors(new)[i] = Ancestors(srcParent)[i]
  <2>1. rest \in SUBSET In(srcParent)
    BY <1>3
  <2>2. \A n \in rest : srcParent[n] \in rest \cup {Root} /\ new[n] = srcParent[n]
    BY <1>1, <1>7
  <2> HIDE DEF rest
  <2> QED
    BY <1>7, <2>1, <2>2, AncestorsKept
<1> QED
  BY <1>1, <1>2, <1>7, <1>8, <1>9, <1>10, <1>11 DEF IsTree, new, gone

\* A forest on its own is a tree.
LEMMA ForestIsTree ==
    ASSUME NEW f \in Forests, NEW par,
           par = [n \in Nodes |-> IF n \in DOMAIN f THEN f[n].parent ELSE Absent]
    PROVE  IsTree(par) /\ In(par) = DOMAIN f
<1>2. /\ DOMAIN f \in SUBSET Nodes
      /\ \A n \in DOMAIN f : f[n].parent \in DOMAIN f \cup {Root}
      /\ \A S \in SUBSET DOMAIN f : S # {} => \E n \in S : f[n].parent \notin S
  BY ForestFacts DEF IsForest
<1>3. Root \notin Nodes /\ Absent \notin Nodes /\ Root # Absent
  BY NodesAssumption
<1>4. par \in [Nodes -> Indexes] /\ \A n \in DOMAIN f : par[n] = f[n].parent
  BY <1>2 DEF Indexes
<1>5. In(par) = DOMAIN f
  BY <1>2, <1>3 DEF In
<1> QED
  BY <1>2, <1>4, <1>5 DEF IsTree

LEMMA ReplaceAllMakesTree ==
    ASSUME NEW f \in Forests, ReplaceAll(f)
    PROVE  IsTree(srcParent')
BY ForestIsTree DEF ReplaceAll

\* Rows inserted under p add to its count: nothing there before is counted twice.
LEMMA InsertRowsCounts ==
    ASSUME NEW f \in Forests, DOMAIN f \subseteq Nodes \ Present,
           NEW p \in Present \cup {Root}, NEW start, InsertRows(f, p, start)
    PROVE  rowCount(p)' = rowCount(p) + Cardinality(Tops(f))
<1> DEFINE old == {n \in Nodes : srcParent[n] = p}
           new == {n \in Nodes : srcParent'[n] = p}
<1>1. /\ Tops(f) \in SUBSET DOMAIN f /\ DOMAIN f \in SUBSET Nodes
      /\ \A n \in DOMAIN f \ Tops(f) : f[n].parent \in DOMAIN f
  BY ForestFacts DEF Tops
<1>2. p \notin DOMAIN f
  BY <1>1, NodesAssumption
<1>3. \A n \in DOMAIN f : n \in Nodes /\ srcParent[n] = Absent
  BY DEF Present
<1>4. p # Absent
  BY NodesAssumption DEF Present
<1>5. \A n \in Nodes : srcParent'[n] = IF n \in Tops(f) THEN p
                                      ELSE IF n \in DOMAIN f THEN f[n].parent
                                      ELSE srcParent[n]
  BY DEF InsertRows
<1>6. new = old \cup Tops(f)
  BY <1>1, <1>2, <1>3, <1>4, <1>5
<1>7. old \cap Tops(f) = {}
  BY <1>1, <1>3, <1>4
<1>8. IsFiniteSet(old) /\ IsFiniteSet(Tops(f))
  BY <1>1, CountType
<1>9. Cardinality(new) = Cardinality(old) + Cardinality(Tops(f))
  <2>1. Cardinality({}) = 0 /\ Cardinality(old) \in Nat /\ Cardinality(Tops(f)) \in Nat
    BY <1>8, FS_EmptySet, FS_CardinalityType
  <2>2. Cardinality(new) =
           Cardinality(old) + Cardinality(Tops(f)) - Cardinality(old \cap Tops(f))
    BY <1>6, <1>8, FS_Union
  <2>3. Cardinality(old \cap Tops(f)) = 0
    BY <1>7, <2>1
  <2> HIDE DEF old, new
  <2> QED
    BY <2>1, <2>2, <2>3
<1> QED
  BY <1>9 DEF rowCount, Children

----------------------------------------------------------------------------
(* Types: the rows of an index, and what a change of the tree leaves.       *)

LEMMA RowCountType ==
    /\ \A p : rowCount(p) \in Nat
    /\ \A p : rowCount(p) = 0 <=> Children(p) = {}
<1>1. \A p : Children(p) \in SUBSET Nodes
  BY DEF Children
<1> QED
  BY <1>1, CountType, FS_EmptySet DEF rowCount

LEMMA IndexType == \A r, p : index(r, p) \in Nodes \cup {Root}
BY DEF index, Children

LEMMA IndexRowType == SourceTypeOK => \A i : IndexRow(i) \in Int
BY DEF SourceTypeOK, IndexRow

LEMMA InsertRowsType ==
    ASSUME SourceTypeOK, NEW f \in Forests, NEW p \in Nodes \cup {Root}, NEW start \in Nat,
           InsertRows(f, p, start)
    PROVE  SourceTypeOK'
<1>1. Tops(f) \in SUBSET Nodes
  BY ForestFacts
<1>2. Cardinality(Tops(f)) \in Nat
  BY <1>1, CountType
<1> QED
  BY <1>2, ForestFacts DEF InsertRows, SourceTypeOK

LEMMA RemoveRowsType ==
    ASSUME SourceTypeOK, NEW p, NEW first \in Nat, NEW last \in Nat, RemoveRows(p, first, last)
    PROVE  SourceTypeOK'
BY DEF RemoveRows, SourceTypeOK

LEMMA MoveRowsType ==
    ASSUME SourceTypeOK, NEW p, NEW q \in Nodes \cup {Root},
           NEW first \in Nat, NEW last \in Nat, first <= last, NEW dest \in Nat,
           MoveRows(p, first, last, q, dest)
    PROVE  SourceTypeOK'
BY DEF MoveRows, SourceTypeOK

LEMMA ReorderType ==
    ASSUME SourceTypeOK, NEW p, Reorder(p)
    PROVE  SourceTypeOK'
<1>1. rowCount(p) \in Nat
  BY RowCountType
<1> QED
  BY <1>1 DEF Reorder, SourceTypeOK

LEMMA ReplaceAllType ==
    ASSUME NEW f \in Forests, ReplaceAll(f)
    PROVE  SourceTypeOK'
BY ForestFacts DEF ReplaceAll, SourceTypeOK

----------------------------------------------------------------------------
(* Rows: each row of an index is taken by one of its children, and by one   *)
(* only, also after a change of the tree.                                   *)

\* The children of each index have the rows from 0 on, one each.
Numbered(par, row) ==
    \A p \in Nodes \cup {Root} :
        LET kids == {n \in Nodes : par[n] = p}
        IN  /\ \A n \in kids : row[n] \in 0 .. Cardinality(kids) - 1
            /\ \A m, n \in kids : row[m] = row[n] => m = n

\* There are as many rows as there are children.
LEMMA IntervalCount ==
    ASSUME NEW c \in Nat
    PROVE  IsFiniteSet(0 .. c - 1) /\ Cardinality(0 .. c - 1) = c
BY FS_Interval

\* No row is missing.
LEMMA EveryRowTaken ==
    ASSUME NEW par, NEW row, Numbered(par, row), NEW p \in Nodes \cup {Root}
    PROVE  LET kids == {n \in Nodes : par[n] = p}
           IN  \A r \in 0 .. Cardinality(kids) - 1 : \E n \in kids : row[n] = r
<1> DEFINE kids == {n \in Nodes : par[n] = p}
           rows == 0 .. Cardinality(kids) - 1
           f == [n \in kids |-> row[n]]
<1>1. IsFiniteSet(kids) /\ Cardinality(kids) \in Nat
  BY CountType
<1>2. IsFiniteSet(rows) /\ Cardinality(rows) = Cardinality(kids)
  BY <1>1, IntervalCount
<1>3. /\ \A n \in kids : row[n] \in rows
      /\ \A m, n \in kids : row[m] = row[n] => m = n
  BY DEF Numbered
<1> HIDE DEF kids, rows
<1>4. f \in [kids -> rows] /\ \A m, n \in kids : f[m] = f[n] => m = n
  BY <1>3
<1>5. f \in Injection(kids, rows)
  BY <1>4, Fun_IsInj
<1>6. f \in Surjection(kids, rows)
  BY <1>2, <1>5, FS_Injection
<1>7. \A r \in rows : \E n \in kids : f[n] = r
  BY <1>6, Fun_SurjectionProperties
<1> QED
  BY <1>7 DEF kids, rows

LEMMA IndexExists ==
    ASSUME Numbered(srcParent, srcRow), NEW p \in Nodes \cup {Root},
           NEW r \in 0 .. rowCount(p) - 1
    PROVE  index(r, p) \in Children(p) /\ srcRow[index(r, p)] = r
<1>1. \E n \in Children(p) : srcRow[n] = r
  BY EveryRowTaken DEF rowCount, Children
<1> QED
  BY <1>1 DEF index

LEMMA ForestNumbers ==
    ASSUME NEW f \in Forests, NEW q \in DOMAIN f \cup {Root}
    PROVE  LET kids == {n \in DOMAIN f : f[n].parent = q}
           IN  /\ \A n \in kids : f[n].row \in 0 .. Cardinality(kids) - 1
               /\ \A m, n \in kids : f[m].row = f[n].row => m = n
<1> DEFINE kids == {n \in DOMAIN f : f[n].parent = q}
           rows == 0 .. Cardinality(kids) - 1
           g == [n \in kids |-> f[n].row]
<1>1. DOMAIN f \in SUBSET Nodes
  BY ForestFacts
<1>1a. {f[n].row : n \in kids} = rows
  <2>1. \A p \in DOMAIN f \cup {Root} :
          LET sibs == {n \in DOMAIN f : f[n].parent = p}
          IN  {f[n].row : n \in sibs} = 0 .. Cardinality(sibs) - 1
    BY ForestFacts DEF IsForest
  <2> QED
    BY <2>1, Zenon
<1>2. IsFiniteSet(kids) /\ Cardinality(kids) \in Nat
  BY <1>1, CountType
<1>3. IsFiniteSet(rows) /\ Cardinality(rows) = Cardinality(kids)
  BY <1>2, IntervalCount
<1> HIDE DEF kids, rows
<1>4. g \in [kids -> rows] /\ \A r \in rows : \E n \in kids : g[n] = r
  <2>1. \A n \in kids : f[n].row \in rows
    BY <1>1a
  <2>2. \A r \in rows : \E n \in kids : f[n].row = r
    BY <1>1a
  <2> QED
    BY <2>1, <2>2
<1>5. g \in Surjection(kids, rows)
  BY <1>4, Fun_IsSurj
<1>6. g \in Injection(kids, rows)
  BY <1>2, <1>3, <1>5, FS_Surjection
<1>7. \A m, n \in kids : g[m] = g[n] => m = n
  BY <1>6, Fun_InjectionProperties
<1>8. /\ \A n \in kids : f[n].row \in rows
      /\ \A m, n \in kids : f[m].row = f[n].row => m = n
  BY <1>1a, <1>7
<1> QED
  BY <1>8 DEF kids, rows

LEMMA InsertRowsNumbers ==
    ASSUME SourceTypeOK, IsTree(srcParent), Numbered(srcParent, srcRow),
           NEW f \in Forests, DOMAIN f \subseteq Nodes \ Present,
           NEW p \in Present \cup {Root}, NEW start \in 0 .. rowCount(p),
           InsertRows(f, p, start)
    PROVE  Numbered(srcParent', srcRow')
<1> DEFINE old(q) == {n \in Nodes : srcParent[n] = q}
           new(q) == {n \in Nodes : srcParent'[n] = q}
           count == Cardinality(Tops(f))
<1>1. /\ Tops(f) = {n \in DOMAIN f : f[n].parent = Root} /\ DOMAIN f \in SUBSET Nodes
      /\ \A n \in DOMAIN f \ Tops(f) : f[n].parent \in DOMAIN f
  BY ForestFacts DEF Tops
<1>2. p \notin DOMAIN f /\ p # Absent /\ Root \notin DOMAIN f
  BY <1>1, NodesAssumption DEF Present
<1>3. \A n \in DOMAIN f : n \in Nodes /\ srcParent[n] = Absent
  BY DEF Present
<1>4. \A n \in Nodes : srcParent[n] \notin DOMAIN f
  BY <1>3, NodesAssumption DEF IsTree, In
<1>5. \A n \in Nodes :
         srcParent'[n] = IF n \in Tops(f) THEN p ELSE IF n \in DOMAIN f THEN f[n].parent
                         ELSE srcParent[n]
  BY DEF InsertRows
<1>5a. \A n \in Nodes :
         srcRow'[n] = IF n \in Tops(f) THEN start + f[n].row
                      ELSE IF n \in DOMAIN f THEN f[n].row
                      ELSE IF srcParent[n] = p /\ srcRow[n] >= start THEN srcRow[n] + count
                      ELSE srcRow[n]
  BY DEF InsertRows
<1>6. ASSUME NEW q \in Nodes \cup {Root}
      PROVE  /\ \A n \in old(q) : srcRow[n] \in 0 .. Cardinality(old(q)) - 1
             /\ \A m, n \in old(q) : srcRow[m] = srcRow[n] => m = n
  BY DEF Numbered
<1>7. count \in Nat
  BY <1>1, CountType
<1> SUFFICES ASSUME NEW q \in Nodes \cup {Root}
             PROVE  /\ \A n \in new(q) : srcRow'[n] \in 0 .. Cardinality(new(q)) - 1
                    /\ \A m, n \in new(q) : srcRow'[m] = srcRow'[n] => m = n
  BY DEF Numbered
<1>8. CASE q = p
  <2>1. Cardinality(new(p)) = Cardinality(old(p)) + count
    BY InsertRowsCounts DEF rowCount, Children
  <2>2. new(p) = old(p) \cup Tops(f)
    <3>1. \A n \in Nodes : srcParent'[n] = p <=> srcParent[n] = p \/ n \in Tops(f)
      BY <1>1, <1>2, <1>3, <1>5
    <3>2. Tops(f) \subseteq Nodes
      BY <1>1
    <3> QED
      BY <3>1, <3>2
  <2>3. \A n \in old(p) : n \notin Tops(f) /\ n \notin DOMAIN f
    BY <1>1, <1>2, <1>3
  <2>4. \A n \in old(p) : srcRow'[n] = IF srcRow[n] >= start THEN srcRow[n] + count ELSE srcRow[n]
    BY <1>5a, <2>3
  <2>5. \A n \in Tops(f) : srcRow'[n] = start + f[n].row
    BY <1>1, <1>5a
  <2>6. /\ \A n \in Tops(f) : f[n].row \in 0 .. count - 1
        /\ \A m, n \in Tops(f) : f[m].row = f[n].row => m = n
    BY <1>1, ForestNumbers
  <2>7. Cardinality(old(p)) \in Nat /\ start \in 0 .. Cardinality(old(p))
    BY CountType DEF rowCount, Children
  <2>8. /\ \A n \in old(p) : srcRow[n] \in 0 .. Cardinality(old(p)) - 1
        /\ \A m, n \in old(p) : srcRow[m] = srcRow[n] => m = n
    BY <1>6, <1>8
  <2> DEFINE c == Cardinality(old(p))
  <2> HIDE DEF old, new, count, c
  <2>9. \A n \in new(p) : srcRow'[n] \in 0 .. Cardinality(new(p)) - 1
    BY <1>7, <2>1, <2>2, <2>4, <2>5, <2>6, <2>7, <2>8
  <2>10. \A m, n \in new(p) : srcRow'[m] = srcRow'[n] => m = n
    <3> SUFFICES ASSUME NEW m \in new(p), NEW n \in new(p), srcRow'[m] = srcRow'[n]
                 PROVE  m = n
      OBVIOUS
    <3>1. CASE m \in old(p) /\ n \in old(p)
      <4>1. srcRow[m] = srcRow[n]
        BY <1>7, <2>4, <2>7, <2>8, <3>1
      <4> QED
        BY <2>8, <3>1, <4>1
    <3>2. CASE m \in Tops(f) /\ n \in Tops(f)
      <4>1. f[m].row = f[n].row
        BY <1>7, <2>5, <2>6, <2>7, <3>2
      <4> QED
        BY <2>6, <3>2, <4>1
    <3>3. CASE m \in old(p) /\ n \in Tops(f)
      BY <1>7, <2>4, <2>5, <2>6, <2>7, <2>8, <3>3
    <3>4. CASE m \in Tops(f) /\ n \in old(p)
      BY <1>7, <2>4, <2>5, <2>6, <2>7, <2>8, <3>4
    <3> QED
      BY <2>2, <3>1, <3>2, <3>3, <3>4
  <2> QED
    BY <1>8, <2>9, <2>10
<1>9. CASE q \in DOMAIN f
  <2>1. new(q) = {n \in DOMAIN f : f[n].parent = q}
    <3>1. \A n \in Nodes : srcParent'[n] = q <=> n \in DOMAIN f /\ f[n].parent = q
      BY <1>1, <1>2, <1>4, <1>5, <1>9
    <3> QED
      BY <1>1, <3>1
  <2>2. \A n \in new(q) : srcRow'[n] = f[n].row
    BY <1>1, <1>2, <1>5, <1>5a, <1>9, <2>1
  <2>3. /\ \A n \in new(q) : f[n].row \in 0 .. Cardinality(new(q)) - 1
        /\ \A m, n \in new(q) : f[m].row = f[n].row => m = n
    BY <1>9, <2>1, ForestNumbers
  <2> HIDE DEF new
  <2> QED
    BY <2>2, <2>3
<1>10. CASE q # p /\ q \notin DOMAIN f
  <2>1. new(q) = old(q)
    <3>1. \A n \in Nodes : srcParent'[n] = q <=> srcParent[n] = q
      BY <1>1, <1>3, <1>5, <1>10, NodesAssumption
    <3> QED
      BY <3>1
  <2>2. \A n \in old(q) : srcRow'[n] = srcRow[n]
    <3> SUFFICES ASSUME NEW n \in Nodes, srcParent[n] = q PROVE srcRow'[n] = srcRow[n]
      OBVIOUS
    <3>1. q # Absent /\ n \notin DOMAIN f /\ n \notin Tops(f) /\ srcParent[n] # p
      BY <1>1, <1>3, <1>10, NodesAssumption
    <3> QED
      BY <1>5a, <3>1
  <2> HIDE DEF new, old
  <2> QED
    BY <1>6, <2>1, <2>2
<1> QED
  BY <1>8, <1>9, <1>10

\* The rows first .. last of p are as many as that.
LEMMA RowsCount ==
    ASSUME Numbered(srcParent, srcRow), NEW p \in Nodes \cup {Root},
           NEW first \in Nat, NEW last \in Nat, first <= last, last < rowCount(p)
    PROVE  LET rows == {n \in Children(p) : srcRow[n] \in first .. last}
           IN  IsFiniteSet(rows) /\ Cardinality(rows) = last - first + 1
<1> DEFINE rows == {n \in Children(p) : srcRow[n] \in first .. last}
           f == [n \in rows |-> srcRow[n]]
<1>1. rows \in SUBSET Nodes
  BY DEF Children
<1>2. \A m, n \in Children(p) : srcRow[m] = srcRow[n] => m = n
  BY DEF Numbered, Children
<1>3. \A r \in first .. last : \E n \in rows : srcRow[n] = r
  <2> SUFFICES ASSUME NEW r \in first .. last PROVE \E n \in Children(p) : srcRow[n] = r
    OBVIOUS
  <2>1. r \in 0 .. rowCount(p) - 1
    BY RowCountType
  <2> QED
    BY <2>1, IndexExists
<1>4. IsFiniteSet(rows)
  BY <1>1, CountType
<1>5. \A n \in rows : srcRow[n] \in first .. last
  OBVIOUS
<1>6. \A m, n \in rows : srcRow[m] = srcRow[n] => m = n
  BY <1>2
<1> HIDE DEF rows
<1>7. f \in [rows -> first .. last]
  BY <1>5
<1>8. f \in Bijection(rows, first .. last)
  BY <1>3, <1>6, <1>7, Fun_IsBij
<1>9. ExistsBijection(rows, first .. last)
  BY <1>8, Fun_ExistsBij
<1>10. Cardinality(first .. last) = Cardinality(rows)
  BY <1>4, <1>9, FS_Bijection
<1>11. Cardinality(first .. last) = last - first + 1
  BY FS_Interval
<1> QED
  BY <1>4, <1>10, <1>11 DEF rows

\* Of the children of an index those are below rows first .. last of p that are
\* these rows, or all when the index is below them.
LEMMA ChildrenInRows ==
    ASSUME IsTree(srcParent), NEW p, NEW first, NEW last, NEW n \in Present
    PROVE  n \in InRows(p, first, last) <=>
              \/ srcParent[n] = p /\ srcRow[n] \in first .. last
              \/ srcParent[n] \in InRows(p, first, last)
<1> DEFINE up == Ancestors(srcParent)
<1>1. Present = In(srcParent)
  BY DEF Present, In
<1>2. up[n] = {n} \cup up[srcParent[n]] /\ srcParent[n] \in Present \cup {Root} /\ up[Root] = {}
  BY <1>1, AncestorsOfOne
<1>3. Root \notin Present
  BY NodesAssumption DEF Present
<1>4. \A i : i \in InRows(p, first, last) <=>
          i \in Present /\ \E a \in up[i] : srcParent[a] = p /\ srcRow[a] \in first .. last
  BY SelfAndAboveIsAncestors DEF InRows
<1> QED
  BY <1>2, <1>3, <1>4

LEMMA RemoveRowsNumbers ==
    ASSUME SourceTypeOK, IsTree(srcParent), Numbered(srcParent, srcRow),
           NEW p \in Present \cup {Root},
           NEW first \in Nat, NEW last \in Nat, first <= last, last < rowCount(p),
           RemoveRows(p, first, last)
    PROVE  Numbered(srcParent', srcRow')
<1> DEFINE old(q) == {n \in Nodes : srcParent[n] = q}
           new(q) == {n \in Nodes : srcParent'[n] = q}
           count == last - first + 1
           gone == InRows(p, first, last)
           rows == {n \in Children(p) : srcRow[n] \in first .. last}
<1>1. \A n \in Nodes : srcParent'[n] = IF n \in gone THEN Absent ELSE srcParent[n]
  BY DEF RemoveRows
<1>2. \A n \in Nodes : srcRow'[n] = IF n \in gone THEN 0
                                   ELSE IF srcParent[n] = p /\ srcRow[n] > last
                                        THEN srcRow[n] - count
                                   ELSE srcRow[n]
  BY DEF RemoveRows
<1>3. p \in (Present \ gone) \cup {Root} /\ Present \subseteq Nodes /\ Root \notin gone
  BY RestOfTree, NodesAssumption DEF Present, InRows
<1>4. \A n \in Present : n \in gone <=> n \in rows \/ srcParent[n] \in gone
  BY ChildrenInRows DEF Children, Present
<1>5. IsFiniteSet(rows) /\ Cardinality(rows) = count
  BY <1>3, RowsCount
<1>6. \A n \in Nodes : srcParent[n] # Absent <=> n \in Present
  BY DEF Present
<1>7. srcRow \in [Nodes -> Nat]
  BY DEF SourceTypeOK
<1>8. ASSUME NEW q \in Nodes \cup {Root}
      PROVE  /\ \A n \in old(q) : srcRow[n] \in 0 .. Cardinality(old(q)) - 1
             /\ \A m, n \in old(q) : srcRow[m] = srcRow[n] => m = n
  BY DEF Numbered
<1>9. p # Absent /\ Absent \notin Nodes /\ Absent # Root
  BY <1>3, NodesAssumption
<1> HIDE DEF gone
<1> SUFFICES ASSUME NEW q \in Nodes \cup {Root}
             PROVE  /\ \A n \in new(q) : srcRow'[n] \in 0 .. Cardinality(new(q)) - 1
                    /\ \A m, n \in new(q) : srcRow'[m] = srcRow'[n] => m = n
  BY DEF Numbered
<1>10. CASE q = p
  <2>1. \A n \in Nodes : srcParent'[n] = p <=> srcParent[n] = p /\ n \notin rows
    BY <1>1, <1>3, <1>4, <1>6, <1>9
  <2>2. new(p) = old(p) \ rows
    BY <2>1
  <2>3. old(p) \cap rows = rows
    BY DEF Children
  <2>4. IsFiniteSet(old(p)) /\ Cardinality(old(p)) \in Nat
    BY CountType
  <2>5. Cardinality(new(p)) = Cardinality(old(p)) - count
    <3> HIDE DEF old, new, rows
    <3>1. Cardinality(old(p) \ rows) = Cardinality(old(p)) - Cardinality(old(p) \cap rows)
      BY <2>4, FS_Difference
    <3> QED
      BY <1>5, <2>2, <2>3, <3>1
  <2>6. \A n \in new(p) : n \notin gone /\ n \in old(p)
    BY <1>1, <1>9
  <2>7. \A n \in new(p) : srcRow'[n] = IF srcRow[n] > last THEN srcRow[n] - count ELSE srcRow[n]
    BY <1>2, <2>6
  <2>8. \A n \in new(p) : srcRow[n] \notin first .. last
    BY <2>2 DEF Children
  <2>9. /\ \A n \in new(p) : srcRow[n] \in 0 .. Cardinality(old(p)) - 1
        /\ \A m, n \in new(p) : srcRow[m] = srcRow[n] => m = n
    BY <1>8, <1>10, <2>6
  <2>10. last < Cardinality(old(p))
    BY DEF rowCount, Children
  <2> DEFINE c == Cardinality(old(p))
  <2> HIDE DEF old, new, rows, c
  <2>11. \A n \in new(p) : srcRow'[n] \in 0 .. Cardinality(new(p)) - 1
    <3> SUFFICES ASSUME NEW n \in new(p) PROVE srcRow'[n] \in 0 .. c - count - 1
      BY <2>5 DEF c
    <3>1. c \in Nat /\ last < c /\ srcRow[n] \in 0 .. c - 1 /\ srcRow[n] \notin first .. last
      BY <2>4, <2>8, <2>9, <2>10 DEF c
    <3> QED
      BY <2>7, <3>1
  <2>12. \A m, n \in new(p) : srcRow'[m] = srcRow'[n] => m = n
    <3> SUFFICES ASSUME NEW m \in new(p), NEW n \in new(p), srcRow'[m] = srcRow'[n]
                 PROVE  srcRow[m] = srcRow[n]
      BY <2>9
    <3>1. /\ srcRow[n] \in Int /\ srcRow[n] \notin first .. last
          /\ srcRow[m] \in Int /\ srcRow[m] \notin first .. last
      BY <2>4, <2>8, <2>9
    <3> QED
      BY <2>7, <3>1
  <2> QED
    BY <1>10, <2>11, <2>12
<1>11. CASE q # p /\ q \in gone
  <2>1. \A n \in Nodes : srcParent'[n] # q
    BY <1>1, <1>4, <1>6, <1>9, <1>11
  <2> QED
    BY <2>1
<1>12. CASE q # p /\ q \notin gone
  <2>1. \A n \in Nodes : srcParent'[n] = q <=> srcParent[n] = q
    BY <1>1, <1>4, <1>6, <1>9, <1>12 DEF Children
  <2>2. new(q) = old(q)
    BY <2>1
  <2>3. \A n \in new(q) : srcRow'[n] = srcRow[n]
    BY <1>1, <1>2, <1>9, <1>12, <2>2
  <2> HIDE DEF new, old
  <2> QED
    BY <1>8, <2>2, <2>3
<1> QED
  BY <1>10, <1>11, <1>12

LEMMA MoveRowsNumbers ==
    ASSUME SourceTypeOK, IsTree(srcParent), Numbered(srcParent, srcRow),
           NEW p \in Present \cup {Root}, NEW q \in Present \cup {Root},
           NEW first \in Nat, NEW last \in Nat, first <= last, last < rowCount(p),
           NEW dest \in 0 .. rowCount(q),
           CanMove(p, first, last, q, dest), MoveRows(p, first, last, q, dest)
    PROVE  Numbered(srcParent', srcRow')
<1> DEFINE old(x) == {n \in Nodes : srcParent[n] = x}
           new(x) == {n \in Nodes : srcParent'[n] = x}
           count == last - first + 1
           moves(n) == srcParent[n] = p /\ srcRow[n] \in first .. last
           rows == {n \in Children(p) : srcRow[n] \in first .. last}
           target == IF p = q /\ dest > last THEN dest - count ELSE dest
           closed(n) == IF srcParent[n] = p /\ srcRow[n] > last THEN srcRow[n] - count ELSE srcRow[n]
<1>1. \A n \in Nodes : srcParent'[n] = IF moves(n) THEN q ELSE srcParent[n]
  BY DEF MoveRows
<1>2. \A n \in Nodes : srcRow'[n] = IF moves(n) THEN target + (srcRow[n] - first)
                                   ELSE IF srcParent[n] = q /\ closed(n) >= target
                                        THEN closed(n) + count
                                   ELSE closed(n)
  BY DEF MoveRows
<1>3. p \in Nodes \cup {Root} /\ q \in Nodes \cup {Root}
  BY DEF Present
<1>4. IsFiniteSet(rows) /\ Cardinality(rows) = count
  BY <1>3, RowsCount
<1>5. srcRow \in [Nodes -> Nat]
  BY DEF SourceTypeOK
<1>6. ASSUME NEW x \in Nodes \cup {Root}
      PROVE  /\ \A n \in old(x) : srcRow[n] \in 0 .. Cardinality(old(x)) - 1
             /\ \A m, n \in old(x) : srcRow[m] = srcRow[n] => m = n
  BY DEF Numbered
<1>7. \A x : IsFiniteSet(old(x)) /\ Cardinality(old(x)) \in Nat
  BY CountType
<1>8. last < Cardinality(old(p)) /\ dest \in 0 .. Cardinality(old(q))
  BY DEF rowCount, Children
<1>9. \A n \in Nodes : n \in rows <=> moves(n)
  BY DEF Children
<1> SUFFICES ASSUME NEW x \in Nodes \cup {Root}
             PROVE  /\ \A n \in new(x) : srcRow'[n] \in 0 .. Cardinality(new(x)) - 1
                    /\ \A m, n \in new(x) : srcRow'[m] = srcRow'[n] => m = n
  BY DEF Numbered
<1> DEFINE c == Cardinality(old(x))
<1>10. c \in Nat
  BY <1>7
<1>11. /\ \A n \in old(x) : srcRow[n] \in 0 .. c - 1
       /\ \A m, n \in old(x) : srcRow[m] = srcRow[n] => m = n
  BY <1>6
<1>12. CASE x = p /\ x # q
  <2>1. \A n \in Nodes : srcParent'[n] = x <=> srcParent[n] = x /\ n \notin rows
    BY <1>1, <1>9, <1>12
  <2>2. new(x) = old(x) \ rows
    BY <2>1
  <2>3. old(x) \cap rows = rows
    BY <1>12 DEF Children
  <2>4. Cardinality(new(x)) = c - count
    <3> HIDE DEF old, new, rows
    <3>1. Cardinality(old(x) \ rows) = Cardinality(old(x)) - Cardinality(old(x) \cap rows)
      BY <1>7, FS_Difference
    <3> QED
      BY <1>4, <2>2, <2>3, <3>1 DEF c
  <2>5. \A n \in new(x) : /\ n \in old(x) /\ srcRow[n] \notin first .. last
                         /\ srcRow'[n] = IF srcRow[n] > last THEN srcRow[n] - count ELSE srcRow[n]
    BY <1>1, <1>2, <1>9, <1>12
  <2>6. last < c
    BY <1>8, <1>12
  <2> HIDE DEF old, new, c
  <2>7. \A n \in new(x) : srcRow'[n] \in 0 .. Cardinality(new(x)) - 1
    <3> SUFFICES ASSUME NEW n \in new(x) PROVE srcRow'[n] \in 0 .. c - count - 1
      BY <2>4
    <3> QED
      BY <1>10, <1>11, <2>5, <2>6
  <2>8. \A m, n \in new(x) : srcRow'[m] = srcRow'[n] => m = n
    <3> SUFFICES ASSUME NEW m \in new(x), NEW n \in new(x), srcRow'[m] = srcRow'[n]
                 PROVE  srcRow[m] = srcRow[n]
      BY <1>11, <2>5
    <3>1. /\ srcRow[n] \in Int /\ srcRow[n] \notin first .. last
          /\ srcRow[m] \in Int /\ srcRow[m] \notin first .. last
      BY <1>11, <2>5
    <3> QED
      BY <2>5, <3>1
  <2> QED
    BY <2>7, <2>8
<1>13. CASE x = q /\ x # p
  <2>1. \A n \in Nodes : srcParent'[n] = x <=> srcParent[n] = x \/ n \in rows
    BY <1>1, <1>9, <1>13
  <2>2. new(x) = old(x) \cup rows
    BY <2>1 DEF Children
  <2>3. old(x) \cap rows = {}
    BY <1>13 DEF Children
  <2>4. Cardinality(new(x)) = c + count
    <3> HIDE DEF old, new, rows
    <3>1. Cardinality(old(x) \cup rows) =
             Cardinality(old(x)) + Cardinality(rows) - Cardinality(old(x) \cap rows)
      BY <1>4, <1>7, FS_Union
    <3>2. Cardinality({}) = 0
      BY FS_EmptySet
    <3>3. Cardinality(new(x)) = Cardinality(old(x)) + count - 0
      BY <1>4, <2>2, <2>3, <3>1, <3>2
    <3> QED
      BY <1>10, <3>3 DEF c
  <2>5. target = dest /\ dest \in 0 .. c
    BY <1>8, <1>13
  <2>6. \A n \in old(x) : /\ n \notin rows
                         /\ srcRow'[n] = IF srcRow[n] >= dest THEN srcRow[n] + count ELSE srcRow[n]
    BY <1>2, <1>9, <1>13, <2>5
  <2>7. \A n \in rows : /\ srcRow[n] \in first .. last
                       /\ srcRow'[n] = dest + (srcRow[n] - first)
    BY <1>2, <1>9, <2>5 DEF Children
  <2>8. \A m, n \in rows : srcRow[m] = srcRow[n] => m = n
    BY <1>3, <1>6 DEF Children
  <2> HIDE DEF old, new, c, rows
  <2>9. \A n \in new(x) : srcRow'[n] \in 0 .. Cardinality(new(x)) - 1
    <3> SUFFICES ASSUME NEW n \in new(x) PROVE srcRow'[n] \in 0 .. c + count - 1
      BY <1>10, <2>4
    <3>1. CASE n \in old(x)
      BY <1>10, <1>11, <2>5, <2>6, <3>1
    <3>2. CASE n \in rows
      BY <1>10, <2>5, <2>7, <3>2
    <3> QED
      BY <2>2, <3>1, <3>2
  <2>10. \A m, n \in new(x) : srcRow'[m] = srcRow'[n] => m = n
    <3> SUFFICES ASSUME NEW m \in new(x), NEW n \in new(x), srcRow'[m] = srcRow'[n]
                 PROVE  m = n
      OBVIOUS
    <3>0. srcRow'[m] = srcRow'[n]
      OBVIOUS
    <3>1. CASE m \in old(x) /\ n \in old(x)
      <4>1. srcRow[m] \in Int /\ srcRow[n] \in Int
        BY <1>11, <3>1
      <4>2. /\ srcRow'[m] = IF srcRow[m] >= dest THEN srcRow[m] + count ELSE srcRow[m]
            /\ srcRow'[n] = IF srcRow[n] >= dest THEN srcRow[n] + count ELSE srcRow[n]
        BY <2>6, <3>1
      <4>3. count > 0 /\ count \in Nat /\ dest \in Int
        BY <2>5
      <4>4. srcRow[m] = srcRow[n]
        <5> HIDE DEF count
        <5>1. \A a, b \in Int : (IF a >= dest THEN a + count ELSE a)
                                   = (IF b >= dest THEN b + count ELSE b) => a = b
          BY <4>3
        <5> QED
          BY <3>0, <4>1, <4>2, <5>1
      <4> QED
        BY <1>11, <3>1, <4>4
    <3>2. CASE m \in rows /\ n \in rows
      <4>1. srcRow[m] = srcRow[n]
        BY <2>5, <2>7, <3>2
      <4> QED
        BY <2>8, <3>2, <4>1
    <3>3. CASE m \in old(x) /\ n \in rows
      BY <1>11, <2>5, <2>6, <2>7, <3>3
    <3>4. CASE m \in rows /\ n \in old(x)
      BY <1>11, <2>5, <2>6, <2>7, <3>4
    <3> QED
      BY <2>2, <3>1, <3>2, <3>3, <3>4
  <2> QED
    BY <2>9, <2>10
<1>14. CASE x = p /\ x = q
  <2>1. new(x) = old(x)
    <3>1. \A n \in Nodes : srcParent'[n] = x <=> srcParent[n] = x
      BY <1>1, <1>14
    <3> QED
      BY <3>1
  <2>2. dest \notin first .. last + 1 /\ dest \in 0 .. c /\ last < c
    BY <1>8, <1>14 DEF CanMove
  <2>3. target = (IF dest > last THEN dest - count ELSE dest)
    BY <1>14
  <2>4. \A n \in old(x) :
           srcRow'[n] = IF srcRow[n] \in first .. last THEN target + (srcRow[n] - first)
                        ELSE LET row == IF srcRow[n] > last THEN srcRow[n] - count ELSE srcRow[n]
                             IN  IF row >= target THEN row + count ELSE row
    BY <1>2, <1>14
  <2> HIDE DEF old, new, c, target
  <2>5. ASSUME NEW n \in old(x)
        PROVE  srcRow'[n] \in 0 .. c - 1
    <3>1. srcRow[n] \in 0 .. c - 1
      BY <1>11
    <3> QED
      BY <1>10, <2>2, <2>3, <2>4, <3>1
  <2>6. ASSUME NEW m \in old(x), NEW n \in old(x), srcRow'[m] = srcRow'[n]
        PROVE  m = n
    <3>1. srcRow[m] \in 0 .. c - 1 /\ srcRow[n] \in 0 .. c - 1
      BY <1>11
    <3>2. srcRow[m] = srcRow[n]
      BY <1>10, <2>2, <2>3, <2>4, <2>6, <3>1
    <3> QED
      BY <1>11, <3>2
  <2>7. Cardinality(new(x)) = c
    BY <2>1 DEF c
  <2> QED
    BY <2>1, <2>5, <2>6, <2>7
<1>15. CASE x # p /\ x # q
  <2>1. new(x) = old(x)
    <3>1. \A n \in Nodes : srcParent'[n] = x <=> srcParent[n] = x
      BY <1>1, <1>15
    <3> QED
      BY <3>1
  <2>2. \A n \in old(x) : srcRow'[n] = srcRow[n]
    BY <1>2, <1>15
  <2> HIDE DEF old, new
  <2> QED
    BY <1>11, <2>1, <2>2 DEF c
<1> QED
  BY <1>12, <1>13, <1>14, <1>15

LEMMA ReorderNumbers ==
    ASSUME Numbered(srcParent, srcRow), NEW p, Reorder(p)
    PROVE  Numbered(srcParent', srcRow')
<1>1. PICK order \in [Children(p) -> 0 .. rowCount(p) - 1] :
         /\ \A m, n \in Children(p) : order[m] = order[n] => m = n
         /\ srcRow' = [n \in Nodes |-> IF n \in Children(p) THEN order[n] ELSE srcRow[n]]
  BY DEF Reorder
<1>2. srcParent' = srcParent
  BY DEF Reorder
<1> DEFINE kids(q) == {n \in Nodes : srcParent[n] = q}
<1> SUFFICES ASSUME NEW q \in Nodes \cup {Root}
             PROVE  /\ \A n \in kids(q) : srcRow'[n] \in 0 .. Cardinality(kids(q)) - 1
                    /\ \A m, n \in kids(q) : srcRow'[m] = srcRow'[n] => m = n
  BY <1>2 DEF Numbered
<1>3. CASE q = p
  <2>1. kids(p) = Children(p) /\ Cardinality(kids(p)) = rowCount(p)
    BY DEF Children, rowCount
  <2>2. \A n \in Children(p) : srcRow'[n] = order[n]
    BY <1>1 DEF Children
  <2> HIDE DEF kids
  <2> QED
    BY <1>1, <1>3, <2>1, <2>2
<1>4. CASE q # p
  <2>1. /\ \A n \in kids(q) : srcRow[n] \in 0 .. Cardinality(kids(q)) - 1
        /\ \A m, n \in kids(q) : srcRow[m] = srcRow[n] => m = n
    BY DEF Numbered
  <2>2. \A n \in kids(q) : srcRow'[n] = srcRow[n]
    BY <1>1, <1>4 DEF Children
  <2> HIDE DEF kids
  <2> QED
    BY <2>1, <2>2
<1> QED
  BY <1>3, <1>4

\* A forest on its own has its rows numbered.
LEMMA ForestIsNumbered ==
    ASSUME NEW f \in Forests, NEW par, NEW row,
           par = [n \in Nodes |-> IF n \in DOMAIN f THEN f[n].parent ELSE Absent],
           row = [n \in Nodes |-> IF n \in DOMAIN f THEN f[n].row ELSE 0]
    PROVE  Numbered(par, row)
<1> DEFINE new(q) == {n \in Nodes : par[n] = q}
<1>1. \A n \in Nodes : /\ par[n] = IF n \in DOMAIN f THEN f[n].parent ELSE Absent
                      /\ row[n] = IF n \in DOMAIN f THEN f[n].row ELSE 0
  OBVIOUS
<1>2. /\ DOMAIN f \in SUBSET Nodes
      /\ \A n \in DOMAIN f : f[n].parent \in DOMAIN f \cup {Root}
  BY ForestFacts
<1> SUFFICES ASSUME NEW q \in Nodes \cup {Root}
             PROVE  /\ \A n \in new(q) : row[n] \in 0 .. Cardinality(new(q)) - 1
                    /\ \A m, n \in new(q) : row[m] = row[n] => m = n
  BY DEF Numbered
<1>3. new(q) = {n \in DOMAIN f : f[n].parent = q}
  <2>1. \A n \in Nodes : par[n] = q <=> n \in DOMAIN f /\ f[n].parent = q
    BY <1>1, NodesAssumption
  <2> QED
    BY <1>2, <2>1
<1>4. \A n \in new(q) : row[n] = f[n].row
  BY <1>1, <1>2, <1>3
<1>5. CASE q \in DOMAIN f \cup {Root}
  <2>1. /\ \A n \in new(q) : f[n].row \in 0 .. Cardinality(new(q)) - 1
        /\ \A m, n \in new(q) : f[m].row = f[n].row => m = n
    BY <1>3, <1>5, ForestNumbers
  <2> HIDE DEF new
  <2> QED
    BY <1>4, <2>1
<1>6. CASE q \notin DOMAIN f \cup {Root}
  <2>1. new(q) = {}
    BY <1>2, <1>3, <1>6
  <2> QED
    BY <2>1
<1> QED
  BY <1>5, <1>6

LEMMA ReplaceAllNumbers ==
    ASSUME NEW f \in Forests, ReplaceAll(f)
    PROVE  Numbered(srcParent', srcRow')
BY ForestIsNumbered DEF ReplaceAll

----------------------------------------------------------------------------
(* Induction over the natural numbers, as least and greatest elements.      *)

LEMMA LeastExists ==
    ASSUME NEW S \in SUBSET Nat, S # {}
    PROVE  \E m \in S : \A n \in S : m <= n
<1> DEFINE R == OpToRel(<, Nat)
<1>1. IsWellFoundedOn(R, Nat)
  BY NatLessThanWellFounded
<1>2. R = {ss \in Nat \X Nat : ss[1] < ss[2]}
  BY DEF OpToRel
<1> HIDE DEF R
<1>3. PICK m \in S : \A n \in S : <<n, m>> \notin R
  BY <1>1, WFMin
<1>4. \A n \in S : ~(n < m)
  BY <1>2, <1>3
<1> QED
  BY <1>4

LEMMA GreatestExists ==
    ASSUME NEW S \in SUBSET Nat, S # {}, NEW bound \in Nat, \A n \in S : n <= bound
    PROVE  \E m \in S : \A n \in S : n <= m
<1> DEFINE T == {bound - n : n \in S}
<1>1. T \in SUBSET Nat
  <2> SUFFICES ASSUME NEW n \in S PROVE bound - n \in Nat
    OBVIOUS
  <2>1. n \in Nat /\ n <= bound
    OBVIOUS
  <2> QED
    BY <2>1
<1>1a. T # {}
  OBVIOUS
<1> HIDE DEF T
<1>2. PICK t \in T : \A n \in T : t <= n
  BY <1>1, <1>1a, LeastExists
<1>3. PICK m \in S : t = bound - m
  BY <1>2 DEF T
<1>4. \A n \in S : bound - m <= bound - n
  BY <1>2, <1>3 DEF T
<1> QED
  BY <1>4

----------------------------------------------------------------------------
(* Depth-first order.                                                      *)

\* Before, for any tree.
Precedes(par, row, x, y) ==
    \/ x \in Ancestors(par)[par[y]]
    \/ \E a \in Ancestors(par)[x], b \in Ancestors(par)[y] :
          par[a] = par[b] /\ row[a] < row[b]

LEMMA BeforeIsPrecedes ==
    ASSUME NEW x \in Present, NEW y \in Present
    PROVE  Before(x, y) <=> Precedes(srcParent, srcRow, x, y)
<1>1. parent(y) = srcParent[y]
  BY DEF parent, Present
<1> QED
  BY <1>1, SelfAndAboveIsAncestors DEF Before, Precedes, Above

\* The branches in which two indexes part are theirs alone.
LEMMA BranchesUnique ==
    ASSUME NEW par, IsTree(par), NEW x \in In(par), NEW y \in In(par),
           NEW a \in Ancestors(par)[x], NEW b \in Ancestors(par)[y], par[a] = par[b], a # b,
           NEW c \in Ancestors(par)[x], NEW d \in Ancestors(par)[y], par[c] = par[d], c # d
    PROVE  a = c /\ b = d
<1> DEFINE up == Ancestors(par)
<1>1. {a, b, c, d} \subseteq In(par)
  BY AncestorsClosed
<1>2. \A i \in In(par) : up[i] = {i} \cup up[par[i]] /\ par[i] \in In(par) \cup {Root}
  BY AncestorsOfOne
<1>3. a = c
  <2> SUFFICES ASSUME a # c PROVE FALSE
    OBVIOUS
  <2>1. CASE c \in up[a]
    <3>1. c \in up[par[b]]
      BY <1>1, <1>2, <2>1
    <3>2. c \in up[b]
      BY <1>1, <1>2, <3>1
    <3>3. c \in up[y]
      BY <3>2, AncestorsTransitive
    <3> QED
      BY <3>3, SiblingsApart
  <2>2. CASE a \in up[c]
    <3>1. a \in up[par[d]]
      BY <1>1, <1>2, <2>2
    <3>2. a \in up[d]
      BY <1>1, <1>2, <3>1
    <3>3. a \in up[y]
      BY <3>2, AncestorsTransitive
    <3> QED
      BY <3>3, SiblingsApart
  <2> QED
    BY <2>1, <2>2, AncestorsChain
<1> QED
  BY <1>3, SiblingsApart

LEMMA RowsType ==
    ASSUME NEW par, NEW row, IsTree(par), Numbered(par, row)
    PROVE  /\ \A n \in In(par) : row[n] \in Nat
           /\ \A m, n \in In(par) : par[m] = par[n] /\ row[m] = row[n] => m = n
<1>1. \A n \in In(par) : n \in Nodes /\ par[n] \in Nodes \cup {Root}
  BY DEF IsTree, In
<1>2. ASSUME NEW p \in Nodes \cup {Root}, NEW n \in Nodes, par[n] = p
      PROVE  row[n] \in Nat
  <2> DEFINE kids == {k \in Nodes : par[k] = p}
  <2>1. Cardinality(kids) \in Nat
    BY CountType
  <2>2. \A k \in kids : row[k] \in 0 .. Cardinality(kids) - 1
    BY DEF Numbered
  <2>3. n \in kids
    BY <1>2
  <2> HIDE DEF kids
  <2> QED
    BY <2>1, <2>2, <2>3
<1>3. \A p \in Nodes \cup {Root} : \A m, n \in Nodes :
         par[m] = p /\ par[n] = p /\ row[m] = row[n] => m = n
  BY DEF Numbered
<1> QED
  BY <1>1, <1>2, <1>3

LEMMA PrecedesAntisymmetric ==
    ASSUME NEW par, NEW row, IsTree(par), Numbered(par, row),
           NEW x \in In(par), NEW y \in In(par), Precedes(par, row, x, y)
    PROVE  ~Precedes(par, row, y, x) /\ x # y
<1> DEFINE up == Ancestors(par)
<1>1. \A i \in In(par) : up[i] = {i} \cup up[par[i]] /\ par[i] \in In(par) \cup {Root}
  BY AncestorsOfOne
<1>2. \A i \in In(par) : up[i] \subseteq In(par)
  BY AncestorsClosed
<1>3. \A n \in In(par) : row[n] \in Nat
  BY RowsType
<1>4. CASE x \in up[par[y]]
  <2>1. x # y
    BY <1>4, NoCycle
  <2>2. up[x] \subseteq up[y]
    BY <1>1, <1>4, AncestorsTransitive
  <2>3. y \notin up[par[x]]
    BY <1>1, <2>1, <2>2, <1>4, AncestorsAntisymmetric
  <2>4. ASSUME NEW b \in up[y], NEW a \in up[x], par[b] = par[a], row[b] < row[a]
        PROVE  FALSE
    <3>1. a = b
      BY <2>2, <2>4, SiblingsApart
    <3> QED
      BY <1>2, <1>3, <2>4, <3>1
  <2> QED
    BY <2>1, <2>3, <2>4 DEF Precedes
<1>5. ASSUME NEW a \in up[x], NEW b \in up[y], par[a] = par[b], row[a] < row[b]
      PROVE  ~Precedes(par, row, y, x) /\ x # y
  <2>1. a \in In(par) /\ b \in In(par) /\ a # b
    BY <1>2, <1>3, <1>5
  <2>2. x # y
    BY <1>5, <2>1, SiblingsApart
  <2>3. y \notin up[par[x]]
    <3> SUFFICES ASSUME y \in up[par[x]] PROVE FALSE
      OBVIOUS
    <3>1. up[y] \subseteq up[x]
      BY <1>1, AncestorsTransitive
    <3> QED
      BY <1>5, <2>1, <3>1, SiblingsApart
  <2>4. ASSUME NEW d \in up[y], NEW c \in up[x], par[d] = par[c], row[d] < row[c]
        PROVE  FALSE
    <3>1. c # d /\ row[c] \in Nat /\ row[d] \in Nat
      BY <1>2, <1>3, <2>4
    <3>2. a = c /\ b = d
      BY <1>5, <2>1, <2>4, <3>1, BranchesUnique
    <3> QED
      BY <1>3, <1>5, <2>1, <2>4, <3>2
  <2> QED
    BY <2>2, <2>3, <2>4 DEF Precedes
<1> QED
  BY <1>4, <1>5 DEF Precedes

LEMMA PrecedesTransitive ==
    ASSUME NEW par, NEW row, IsTree(par), Numbered(par, row),
           NEW x \in In(par), NEW y \in In(par), NEW z \in In(par),
           Precedes(par, row, x, y), Precedes(par, row, y, z)
    PROVE  Precedes(par, row, x, z)
<1> DEFINE up == Ancestors(par)
<1>1. \A i \in In(par) : up[i] = {i} \cup up[par[i]] /\ par[i] \in In(par) \cup {Root}
  BY AncestorsOfOne
<1>2. \A i \in In(par) : up[i] \subseteq In(par)
  BY AncestorsClosed
<1>3. \A n \in In(par) : row[n] \in Nat
  BY RowsType
<1>4. CASE x \in up[par[y]] /\ y \in up[par[z]]
  <2>1. up[y] \subseteq up[par[z]]
    BY <1>1, <1>4, AncestorsTransitive
  <2> QED
    BY <1>1, <1>4, <2>1 DEF Precedes
<1>5. ASSUME x \in up[par[y]],
             NEW b \in up[y], NEW c \in up[z], par[b] = par[c], row[b] < row[c]
      PROVE  Precedes(par, row, x, z)
  <2>1. CASE b \in up[x]
    BY <1>5, <2>1 DEF Precedes
  <2>2. CASE b \notin up[x]
    <3>1. x \in up[b]
      BY <1>1, <1>5, <2>2, AncestorsChain
    <3>2. x \in up[par[b]]
      BY <1>1, <1>2, <2>2, <3>1
    <3>3. x \in up[par[z]]
      BY <1>5, <3>2, AboveAncestor
    <3> QED
      BY <3>3 DEF Precedes
  <2> QED
    BY <2>1, <2>2
<1>6. ASSUME NEW a \in up[x], NEW b \in up[y], par[a] = par[b], row[a] < row[b],
             y \in up[par[z]]
      PROVE  Precedes(par, row, x, z)
  <2>1. b \in up[z]
    BY <1>1, <1>6, AncestorsTransitive
  <2> QED
    BY <1>6, <2>1 DEF Precedes
<1>7. ASSUME NEW a \in up[x], NEW b \in up[y], par[a] = par[b], row[a] < row[b],
             NEW c \in up[y], NEW d \in up[z], par[c] = par[d], row[c] < row[d]
      PROVE  Precedes(par, row, x, z)
  <2>1. {a, b, c, d} \subseteq In(par)
    BY <1>2
  <2>2. CASE b = c
    <3>1. row[a] < row[d]
      BY <1>3, <1>7, <2>1, <2>2
    <3> QED
      BY <1>7, <2>2, <3>1 DEF Precedes
  <2>3. CASE b # c /\ b \in up[c]
    <3>1. b \in up[par[d]]
      BY <1>1, <1>7, <2>1, <2>3
    <3>2. b \in up[z]
      BY <1>1, <2>1, <3>1, AncestorsTransitive
    <3> QED
      BY <1>7, <3>2 DEF Precedes
  <2>4. CASE b # c /\ c \in up[b]
    <3>1. c \in up[par[a]]
      BY <1>1, <1>7, <2>1, <2>4
    <3>2. c \in up[x]
      BY <1>1, <2>1, <3>1, AncestorsTransitive
    <3> QED
      BY <1>7, <3>2 DEF Precedes
  <2> QED
    BY <2>2, <2>3, <2>4, AncestorsChain
<1> QED
  BY <1>4, <1>5, <1>6, <1>7 DEF Precedes

LEMMA PrecedesTotal ==
    ASSUME NEW par, NEW row, IsTree(par), Numbered(par, row),
           NEW x \in In(par), NEW y \in In(par), x # y
    PROVE  Precedes(par, row, x, y) \/ Precedes(par, row, y, x)
<1> DEFINE up == Ancestors(par)
<1>1. \A i \in In(par) : up[i] = {i} \cup up[par[i]] /\ par[i] \in In(par) \cup {Root}
  BY AncestorsOfOne
<1>2. \A i \in In(par) : \A a \in up[i] : a \in In(par) /\ par[a] \in up[i] \cup {Root}
  BY AncestorsClosed
<1>3. up[Root] = {}
  BY AncestorsOfOne
<1>4. CASE x \in up[y]
  BY <1>1, <1>4 DEF Precedes
<1>5. CASE y \in up[x]
  BY <1>1, <1>5 DEF Precedes
<1>6. CASE x \notin up[y] /\ y \notin up[x]
  <2> DEFINE S == {t \in up[x] : t \notin up[y]}
             T == {t \in up[y] : t \notin up[x]}
  <2>1. S \in SUBSET In(par) /\ S # {} /\ T \in SUBSET In(par) /\ T # {}
    BY <1>1, <1>2, <1>6
  <2>2. PICK a \in S : par[a] \notin S
    <3> HIDE DEF S
    <3> QED
      BY <2>1 DEF IsTree
  <2>3. PICK b \in T : par[b] \notin T
    <3> HIDE DEF T
    <3> QED
      BY <2>1 DEF IsTree
  <2> DEFINE p == par[a]
             q == par[b]
  <2>4. /\ a \in In(par) /\ b \in In(par) /\ a \in up[x] /\ b \in up[y]
        /\ a \notin up[y] /\ b \notin up[x]
        /\ p \in (up[x] \cap up[y]) \cup {Root} /\ q \in (up[x] \cap up[y]) \cup {Root}
    BY <1>2, <2>2, <2>3
  <2>5. q # Root => q \in up[p]
    <3> SUFFICES ASSUME q # Root PROVE q \in up[p]
      OBVIOUS
    <3>1. q \in up[x] /\ q \in up[y] /\ q \in In(par)
      BY <1>2, <2>4
    <3>2. a \notin up[q]
      BY <2>4, <3>1, AncestorsTransitive
    <3>3. q \in up[a]
      BY <2>4, <3>1, <3>2, AncestorsChain
    <3> QED
      BY <1>1, <2>4, <3>1, <3>3
  <2>6. p # Root => p \in up[q]
    <3> SUFFICES ASSUME p # Root PROVE p \in up[q]
      OBVIOUS
    <3>1. p \in up[x] /\ p \in up[y] /\ p \in In(par)
      BY <1>2, <2>4
    <3>2. b \notin up[p]
      BY <2>4, <3>1, AncestorsTransitive
    <3>3. p \in up[b]
      BY <2>4, <3>1, <3>2, AncestorsChain
    <3> QED
      BY <1>1, <2>4, <3>1, <3>3
  <2>7. p = q
    <3>1. CASE p = Root \/ q = Root
      BY <1>3, <2>5, <2>6, <3>1
    <3>2. CASE p # Root /\ q # Root
      BY <1>2, <2>4, <2>5, <2>6, <3>2, AncestorsAntisymmetric
    <3> QED
      BY <3>1, <3>2
  <2>8. a # b
    BY <2>4
  <2>9. row[a] \in Nat /\ row[b] \in Nat /\ row[a] # row[b]
    BY <2>4, <2>7, <2>8, RowsType
  <2>10. row[a] < row[b] \/ row[b] < row[a]
    BY <2>9
  <2> QED
    BY <2>4, <2>7, <2>10 DEF Precedes
<1> QED
  BY <1>4, <1>5, <1>6

\* A change that leaves S and what is above it their parents, and the rows of siblings
\* in their order, leaves S in its order.
LEMMA OrderKept ==
    ASSUME NEW par, NEW row, IsTree(par), NEW new \in [Nodes -> Indexes], NEW newRow,
           NEW S \in SUBSET In(par),
           \A n \in S : par[n] \in S \cup {Root} /\ new[n] = par[n],
           \A m, n \in S : par[m] = par[n] => (row[m] < row[n] <=> newRow[m] < newRow[n]),
           NEW x \in S, NEW y \in S
    PROVE  Precedes(new, newRow, x, y) <=> Precedes(par, row, x, y)
<1>1. \A i \in S \cup {Root} : Ancestors(new)[i] = Ancestors(par)[i]
  BY AncestorsKept
<1>2. \A i \in S : Ancestors(par)[i] \subseteq S
  <2> DEFINE bad == {i \in S : ~(Ancestors(par)[i] \subseteq S)}
  <2> SUFFICES ASSUME bad # {} PROVE FALSE
    OBVIOUS
  <2>1. PICK j \in bad : par[j] \notin bad
    BY DEF IsTree
  <2>2. /\ Ancestors(par)[j] = {j} \cup Ancestors(par)[par[j]]
        /\ Ancestors(par)[Root] = {}
    BY <2>1, AncestorsOfOne
  <2> QED
    BY <2>1, <2>2
<1>3. new[y] = par[y] /\ par[y] \in S \cup {Root}
  OBVIOUS
<1>4. \A a \in Ancestors(par)[x], b \in Ancestors(par)[y] :
         /\ new[a] = par[a] /\ new[b] = par[b]
         /\ par[a] = par[b] => (row[a] < row[b] <=> newRow[a] < newRow[b])
  BY <1>2
<1> QED
  BY <1>1, <1>3, <1>4 DEF Precedes

----------------------------------------------------------------------------
(* Depth-first order: what the proofs about rows need of it.               *)

LEMMA WalkIs ==
    ASSUME NEW par, NEW row, IsTree(par), Numbered(par, row)
    PROVE  /\ \A x, y \in In(par) :
                 /\ Precedes(par, row, x, y) => ~Precedes(par, row, y, x) /\ x # y
                 /\ x # y => Precedes(par, row, x, y) \/ Precedes(par, row, y, x)
                 /\ par[x] = par[y] => (Precedes(par, row, x, y) <=> row[x] < row[y])
           /\ \A x, y, z \in In(par) :
                 Precedes(par, row, x, y) /\ Precedes(par, row, y, z) => Precedes(par, row, x, z)
           /\ \A x \in In(par) : x \in Nodes /\ row[x] \in Nat
           /\ \A x, y \in In(par) : par[x] = par[y] /\ row[x] = row[y] => x = y
<1> DEFINE up == Ancestors(par)
<1>1. \A x, y \in In(par) :
         /\ Precedes(par, row, x, y) => ~Precedes(par, row, y, x) /\ x # y
         /\ x # y => Precedes(par, row, x, y) \/ Precedes(par, row, y, x)
  BY PrecedesAntisymmetric, PrecedesTotal
<1>2. \A x, y, z \in In(par) :
         Precedes(par, row, x, y) /\ Precedes(par, row, y, z) => Precedes(par, row, x, z)
  BY PrecedesTransitive
<1>3. /\ \A x \in In(par) : x \in Nodes /\ row[x] \in Nat
      /\ \A x, y \in In(par) : par[x] = par[y] /\ row[x] = row[y] => x = y
  BY RowsType DEF In
<1>4. ASSUME NEW x \in In(par), NEW y \in In(par), par[x] = par[y], row[x] < row[y]
      PROVE  Precedes(par, row, x, y)
  <2>1. x \in up[x] /\ y \in up[y]
    BY AncestorsOfOne
  <2> QED
    BY <1>4, <2>1 DEF Precedes
<1>5. ASSUME NEW x \in In(par), NEW y \in In(par), par[x] = par[y], Precedes(par, row, x, y)
      PROVE  row[x] < row[y]
  <2> SUFFICES ASSUME ~(row[x] < row[y]) PROVE FALSE
    OBVIOUS
  <2>1. row[y] < row[x]
    BY <1>1, <1>3, <1>5
  <2> QED
    BY <1>1, <1>4, <1>5, <2>1
<1> QED
  BY <1>1, <1>2, <1>3, <1>4, <1>5

\* An ancestor comes first, and so does a branch in a lower row.
LEMMA AncestorFirst ==
    ASSUME NEW par, NEW row, IsTree(par), Numbered(par, row),
           NEW x \in In(par), NEW a \in Ancestors(par)[x]
    PROVE  a \in In(par) /\ (a = x \/ Precedes(par, row, a, x))
BY AncestorsOfOne, AncestorsClosed DEF Precedes

LEMMA BranchesApart ==
    ASSUME NEW par, NEW row, NEW x \in In(par), NEW y \in In(par), Precedes(par, row, x, y)
    PROVE  \/ x \in Ancestors(par)[par[y]]
           \/ \E a \in Ancestors(par)[x], b \in Ancestors(par)[y] :
                 par[a] = par[b] /\ row[a] < row[b]
BY DEF Precedes

\* What lies between a node and something below it is below it too.
LEMMA SubtreeConvex ==
    ASSUME NEW par, NEW row, IsTree(par), Numbered(par, row),
           NEW a \in In(par), NEW x \in In(par), NEW y \in In(par),
           a \in Ancestors(par)[y], a = x \/ Precedes(par, row, a, x), x = y \/ Precedes(par, row, x, y)
    PROVE  a \in Ancestors(par)[x]
<1> DEFINE up == Ancestors(par)
<1> SUFFICES ASSUME a \notin up[x] PROVE FALSE
  OBVIOUS
<1>1. \A i \in In(par) : up[i] = {i} \cup up[par[i]] /\ par[i] \in In(par) \cup {Root}
  BY AncestorsOfOne
<1>2. a # x /\ Precedes(par, row, a, x) /\ x # y /\ Precedes(par, row, x, y)
  BY <1>1
<1>3. a \notin up[par[x]]
  BY <1>1
<1>4. PICK b \in up[a], c \in up[x] : par[b] = par[c] /\ row[b] < row[c]
  BY <1>2, <1>3, BranchesApart
<1>5. b \in up[y]
  BY <1>1, AncestorsTransitive
<1>6. Precedes(par, row, y, x)
  BY <1>4, <1>5 DEF Precedes
<1> QED
  BY <1>2, <1>6, WalkIs

----------------------------------------------------------------------------
(* Lists of rows in depth-first order.                                     *)

\* The first c rows are the nodes of L, each once, in depth-first order.
IsList(par, row, v, c, L) ==
    /\ c \in Nat
    /\ DOMAIN v = 0 .. c - 1
    /\ \A r \in 0 .. c - 1 : v[r] \in L
    /\ \A x \in L : \E r \in 0 .. c - 1 : v[r] = x
    /\ \A q, r \in 0 .. c - 1 : q < r => Precedes(par, row, v[q], v[r])

\* The nodes of a list hang together.
IsListing(par, L) == L \in SUBSET In(par) /\ \A n \in L : par[n] \in L \cup {Root}

\* All rows of a parent are listed, or none.
WholeRows(par, L) == \A n \in L, k \in Nodes : par[k] = par[n] => k \in L

\* The last child, as far as the list goes, of its parent.
IsLast(par, row, L, n) == n \in L /\ \A k \in L : par[k] = par[n] => row[k] <= row[n]

\* m maps the last children to their rows in the list v.
MapsLast(par, row, m, v, L) == m = [r \in {q \in DOMAIN v : IsLast(par, row, L, v[q])} |-> v[r]]

LEMMA ListOrder ==
    ASSUME NEW par, NEW row, IsTree(par), Numbered(par, row),
           NEW L \in SUBSET In(par), NEW v, NEW c, IsList(par, row, v, c, L)
    PROVE  \A q, r \in 0 .. c - 1 : /\ Precedes(par, row, v[q], v[r]) <=> q < r
                                    /\ v[q] = v[r] <=> q = r
                                    /\ v[q] \in In(par)
<1> SUFFICES ASSUME NEW q \in 0 .. c - 1, NEW r \in 0 .. c - 1
             PROVE  /\ Precedes(par, row, v[q], v[r]) <=> q < r
                    /\ v[q] = v[r] <=> q = r
                    /\ v[q] \in In(par)
  OBVIOUS
<1>1. v[q] \in In(par) /\ v[r] \in In(par)
  BY DEF IsList
<1>2. /\ q < r => Precedes(par, row, v[q], v[r])
      /\ r < q => Precedes(par, row, v[r], v[q])
  BY DEF IsList
<1>3. q < r \/ r < q \/ q = r
  BY DEF IsList
<1>4. /\ Precedes(par, row, v[q], v[r]) => ~Precedes(par, row, v[r], v[q]) /\ v[q] # v[r]
      /\ Precedes(par, row, v[r], v[q]) => ~Precedes(par, row, v[q], v[r]) /\ v[q] # v[r]
  BY <1>1, WalkIs
<1>5. ~(q < r /\ r < q) /\ ~(q < q)
  BY DEF IsList
<1> QED
  BY <1>1, <1>2, <1>3, <1>4, <1>5

\* The nodes at rows lo .. hi.
Span(v, lo, hi) == {v[k] : k \in lo .. hi}

\* As many nodes as rows stand in a stretch of a list.
LEMMA SpanCount ==
    ASSUME NEW par, NEW row, IsTree(par), Numbered(par, row),
           NEW L \in SUBSET In(par), NEW v, NEW c, IsList(par, row, v, c, L),
           NEW lo \in Int, NEW hi \in Int, 0 <= lo, hi < c, lo <= hi + 1
    PROVE  IsFiniteSet(Span(v, lo, hi)) /\ Cardinality(Span(v, lo, hi)) = hi - lo + 1
<1> DEFINE span == {v[k] : k \in lo .. hi}
           f == [k \in lo .. hi |-> v[k]]
<1>1. c \in Nat
  BY DEF IsList
<1>2. \A k \in lo .. hi : k \in 0 .. c - 1
  BY <1>1
<1>3. \A j, k \in lo .. hi : v[j] = v[k] => j = k
  <2>1. \A j, k \in 0 .. c - 1 : v[j] = v[k] <=> j = k
    BY ListOrder
  <2> QED
    BY <1>2, <2>1
<1>4. f \in [lo .. hi -> span] /\ \A y \in span : \E k \in lo .. hi : f[k] = y
  OBVIOUS
<1>5. f \in Bijection(lo .. hi, span)
  <2>1. \A j, k \in lo .. hi : f[j] = f[k] => j = k
    BY <1>3
  <2> HIDE DEF f, span
  <2> QED
    BY <1>4, <2>1, Fun_IsBij
<1>6. ExistsBijection(lo .. hi, span)
  BY <1>5, Fun_ExistsBij
<1>7. IsFiniteSet(lo .. hi) /\ Cardinality(lo .. hi) = IF lo > hi THEN 0 ELSE hi - lo + 1
  BY FS_Interval
<1>8. IsFiniteSet(span) /\ Cardinality(span) = Cardinality(lo .. hi)
  BY <1>6, <1>7, FS_Bijection
<1> QED
  BY <1>7, <1>8 DEF Span

\* A list is as long as what it lists is large, and a node's row counts what comes first.
LEMMA RowsCounted ==
    ASSUME NEW par, NEW row, IsTree(par), Numbered(par, row),
           NEW L \in SUBSET In(par), NEW v, NEW c, IsList(par, row, v, c, L)
    PROVE  /\ IsFiniteSet(L) /\ Cardinality(L) = c
           /\ \A r \in 0 .. c - 1 : Cardinality({x \in L : Precedes(par, row, x, v[r])}) = r
<1>1. c \in Nat /\ \A r \in 0 .. c - 1 : v[r] \in L
  BY DEF IsList
<1>2. \A x \in L : \E r \in 0 .. c - 1 : v[r] = x
  BY DEF IsList
<1>3. L = {v[k] : k \in 0 .. c - 1}
  BY <1>1, <1>2
<1>4. IsFiniteSet(L) /\ Cardinality(L) = c
  <2>1. IsFiniteSet(Span(v, 0, c - 1)) /\ Cardinality(Span(v, 0, c - 1)) = (c - 1) - 0 + 1
    <3>1. 0 \in Int /\ c - 1 \in Int /\ 0 <= 0 /\ c - 1 < c /\ 0 <= (c - 1) + 1
      BY <1>1
    <3> QED
      BY <3>1, SpanCount
  <2> QED
    BY <1>1, <1>3, <2>1 DEF Span
<1>5. ASSUME NEW r \in 0 .. c - 1
      PROVE  Cardinality({x \in L : Precedes(par, row, x, v[r])}) = r
  <2>1. {x \in L : Precedes(par, row, x, v[r])} = {v[k] : k \in 0 .. r - 1}
    <3>1. ASSUME NEW x \in L, Precedes(par, row, x, v[r])
          PROVE  x \in {v[k] : k \in 0 .. r - 1}
      <4>1. PICK k \in 0 .. c - 1 : v[k] = x
        BY <1>2
      <4>2. k < r
        BY <3>1, <4>1, ListOrder
      <4> QED
        BY <1>1, <4>1, <4>2
    <3>2. ASSUME NEW k \in 0 .. r - 1
          PROVE  v[k] \in L /\ Precedes(par, row, v[k], v[r])
      <4>1. k \in 0 .. c - 1 /\ k < r
        BY <1>1
      <4> QED
        BY <1>1, <4>1, ListOrder
    <3> QED
      BY <3>1, <3>2
  <2>2. IsFiniteSet(Span(v, 0, r - 1)) /\ Cardinality(Span(v, 0, r - 1)) = (r - 1) - 0 + 1
    <3>1. 0 \in Int /\ r - 1 \in Int /\ 0 <= 0 /\ r - 1 < c /\ 0 <= (r - 1) + 1
      BY <1>1
    <3> QED
      BY <3>1, SpanCount
  <2> QED
    BY <1>1, <2>1, <2>2 DEF Span
<1> QED
  BY <1>4, <1>5

----------------------------------------------------------------------------
(* What a climb from a row to the top steps over.                          *)

\* The rows a climb from n to the top steps over: n, the indexes above it, and the
\* siblings above each of them.
Passed(par, row, n) ==
    {z \in Nodes : \E y \in Ancestors(par)[n] : par[z] = par[y] /\ row[z] <= row[y]}

LEMMA PassedBehind ==
    ASSUME NEW par, NEW row, IsTree(par), Numbered(par, row),
           NEW L, IsListing(par, L), WholeRows(par, L), NEW n \in L
    PROVE  /\ Ancestors(par)[n] \subseteq L
           /\ \A z \in Passed(par, row, n) : z \in L /\ (z = n \/ Precedes(par, row, z, n))
<1> DEFINE up == Ancestors(par)
<1>0. L \subseteq In(par)
  BY DEF IsListing
<1>1. up[n] \subseteq L
  <2> DEFINE out == {a \in up[n] : a \notin L}
  <2> SUFFICES ASSUME out # {} PROVE FALSE
    OBVIOUS
  <2>1. \A a \in up[n] : a \in In(par) /\ par[a] \in up[n] \cup {Root}
    BY <1>0, AncestorsClosed
  <2>2. DEFINE below == {a \in L : up[a] \cap out # {}}
  <2>3. n \in below
    BY <1>0, AncestorsOfOne
  <2>4. below \in SUBSET In(par) /\ below # {}
    BY <1>0, <2>3
  <2>5. PICK b \in below : par[b] \notin below
    <3> HIDE DEF below
    <3> QED
      BY <2>4 DEF IsTree
  <2>6. b \in In(par) /\ par[b] \in L \cup {Root} /\ up[b] = {b} \cup up[par[b]] /\ up[Root] = {}
    BY <1>0, AncestorsOfOne DEF IsListing
  <2> QED
    BY <2>5, <2>6
<1>2. ASSUME NEW z \in Passed(par, row, n)
      PROVE  z \in L /\ (z = n \/ Precedes(par, row, z, n))
  <2>1. PICK y \in up[n] : par[z] = par[y] /\ row[z] <= row[y] /\ z \in Nodes
    BY DEF Passed
  <2>2. z \in L
    BY <1>1, <2>1 DEF WholeRows
  <2>3. y \in In(par) /\ z \in In(par) /\ n \in In(par) /\ row[z] \in Nat /\ row[y] \in Nat
    BY <1>0, <1>1, <2>1, <2>2, RowsType
  <2>4. y = n \/ Precedes(par, row, y, n)
    BY <2>1, <2>3, AncestorFirst
  <2>5. z = y \/ Precedes(par, row, z, y)
    BY <2>1, <2>3, WalkIs
  <2> QED
    BY <2>2, <2>3, <2>4, <2>5, WalkIs
<1> QED
  BY <1>1, <1>2

\* The last child of each parent is listed.
LEMMA LastSiblingExists ==
    ASSUME NEW par, NEW row, IsTree(par), Numbered(par, row), NEW L \in SUBSET In(par), NEW n \in L
    PROVE  \E k \in L : par[k] = par[n] /\ IsLast(par, row, L, k) /\ row[n] <= row[k]
<1> DEFINE kids == {k \in Nodes : par[k] = par[n]}
           rows == {row[k] : k \in {j \in L : par[j] = par[n]}}
           top == Cardinality(kids)
<1>1. \A k \in In(par) : k \in Nodes /\ row[k] \in Nat
  BY RowsType DEF In
<1>2. top \in Nat
  BY CountType
<1>3. \A k \in kids : row[k] \in 0 .. top - 1
  BY DEF Numbered, IsTree, In
<1>4. rows \in SUBSET Nat /\ rows # {}
  BY <1>1
<1>5. \A k \in L : par[k] = par[n] => row[k] <= top
  <2> SUFFICES ASSUME NEW k \in L, par[k] = par[n] PROVE row[k] <= top
    OBVIOUS
  <2>1. row[k] \in 0 .. top - 1
    BY <1>1, <1>3
  <2> HIDE DEF top
  <2> QED
    BY <1>2, <2>1
<1>6. \A r \in rows : r <= top
  BY <1>5
<1>7. PICK r \in rows : \A q \in rows : q <= r
  <2> HIDE DEF rows, top
  <2> QED
    BY <1>2, <1>4, <1>6, GreatestExists
<1>8. PICK k \in L : par[k] = par[n] /\ row[k] = r
  OBVIOUS
<1>9. \A j \in L : par[j] = par[n] => row[j] <= row[k]
  BY <1>7, <1>8
<1> QED
  BY <1>8, <1>9 DEF IsLast

\* Where no last child stands between two rows, the climb from the second one steps
\* over the first.
LEMMA NothingBetween ==
    ASSUME NEW par, NEW row, IsTree(par), Numbered(par, row),
           NEW L, IsListing(par, L), WholeRows(par, L),
           NEW v, NEW c, IsList(par, row, v, c, L),
           NEW q \in 0 .. c - 1, NEW r \in 0 .. c - 1, q <= r,
           \A k \in 0 .. c - 1 : q <= k /\ k < r => ~IsLast(par, row, L, v[k])
    PROVE  v[q] \in Passed(par, row, v[r])
<1> DEFINE up == Ancestors(par)
<1>1. L \in SUBSET In(par) /\ c \in Nat /\ v[q] \in L /\ v[r] \in L
  BY DEF IsListing, IsList
<1>2. /\ v[q] \in Nodes /\ row[v[q]] \in Nat /\ v[q] \in In(par) /\ v[r] \in In(par)
      /\ \A i \in In(par) : up[i] = {i} \cup up[par[i]]
  BY <1>1, RowsType, AncestorsOfOne DEF In
<1>3. CASE v[q] \in up[v[r]]
  BY <1>2, <1>3 DEF Passed
<1>4. CASE v[q] \notin up[v[r]]
  <2>1. q < r
    <3>1. v[q] # v[r]
      BY <1>2, <1>4
    <3> QED
      BY <1>1, <3>1
  <2>2. Precedes(par, row, v[q], v[r])
    BY <2>1 DEF IsList
  <2>3. v[q] \notin up[par[v[r]]]
    BY <1>2, <1>4
  <2>4. PICK a \in up[v[q]], b \in up[v[r]] : par[a] = par[b] /\ row[a] < row[b]
    BY <1>2, <2>2, <2>3, BranchesApart
  <2>5. a \in In(par) /\ b \in In(par) /\ row[a] \in Nat /\ row[b] \in Nat
    BY <1>2, AncestorsClosed, RowsType
  <2>6. CASE a = v[q]
    BY <1>2, <2>4, <2>5, <2>6 DEF Passed
  <2>7. CASE a # v[q]
    <3>1. PICK k \in L : /\ par[k] = par[v[q]] /\ IsLast(par, row, L, k) /\ row[v[q]] <= row[k]
      BY <1>1, LastSiblingExists
    <3>2. k \in In(par) /\ row[k] \in Nat
      BY <1>1, RowsType
    <3>3. k = v[q] \/ Precedes(par, row, v[q], k)
      BY <1>2, <3>1, <3>2, WalkIs
    <3>4. a \in up[k]
      BY <1>2, <2>4, <2>7, <3>1, <3>2
    <3>5. Precedes(par, row, k, v[r])
      BY <2>4, <3>4 DEF Precedes
    <3>6. PICK j \in 0 .. c - 1 : v[j] = k
      BY DEF IsList
    <3>7. j < r
      BY <1>1, <3>5, <3>6, ListOrder
    <3>8. q = j \/ q < j
      BY <1>1, <3>3, <3>6, ListOrder
    <3> QED
      BY <1>1, <3>1, <3>6, <3>7, <3>8
  <2> QED
    BY <2>6, <2>7
<1> QED
  BY <1>3, <1>4

\* The rows with an entry, and the one a lookup of row q starts from.
LEMMA NextMapped ==
    ASSUME NEW par, NEW row, IsTree(par), Numbered(par, row),
           NEW L, IsListing(par, L), NEW v, NEW c, IsList(par, row, v, c, L),
           NEW m, MapsLast(par, row, m, v, L), NEW q \in 0 .. c - 1
    PROVE  \E r \in 0 .. c - 1 :
              /\ q <= r /\ r \in DOMAIN m /\ m[r] = v[r]
              /\ \A k \in DOMAIN m : q <= k => r <= k
              /\ \A k \in 0 .. c - 1 : q <= k /\ k < r => ~IsLast(par, row, L, v[k])
<1>1. L \in SUBSET In(par) /\ c \in Nat /\ v[q] \in L
  BY DEF IsListing, IsList
<1>2. DOMAIN m = {k \in 0 .. c - 1 : IsLast(par, row, L, v[k])} /\ \A k \in DOMAIN m : m[k] = v[k]
  BY DEF MapsLast, IsList
<1>3. PICK n \in L : par[n] = par[v[q]] /\ IsLast(par, row, L, n) /\ row[v[q]] <= row[n]
  BY <1>1, LastSiblingExists
<1>4. PICK j \in 0 .. c - 1 : v[j] = n
  BY DEF IsList
<1>5. q = j \/ q < j
  <2>1. n \in In(par) /\ v[q] \in In(par) /\ row[n] \in Nat /\ row[v[q]] \in Nat
    BY <1>1, RowsType
  <2>2. v[q] = n \/ Precedes(par, row, v[q], n)
    BY <1>3, <2>1, WalkIs
  <2> QED
    BY <1>1, <1>4, <2>2, ListOrder
<1> DEFINE S == {k \in DOMAIN m : q <= k}
<1>6. S \in SUBSET Nat /\ S # {}
  BY <1>1, <1>2, <1>3, <1>4, <1>5
<1>7. PICK r \in S : \A k \in S : r <= k
  <2> HIDE DEF S
  <2> QED
    BY <1>6, LeastExists
<1>8. \A k \in 0 .. c - 1 : q <= k /\ k < r => ~IsLast(par, row, L, v[k])
  <2> SUFFICES ASSUME NEW k \in 0 .. c - 1, q <= k, k < r, IsLast(par, row, L, v[k]) PROVE FALSE
    OBVIOUS
  <2>1. k \in S
    BY <1>2
  <2> QED
    BY <1>1, <1>2, <1>7, <2>1
<1> QED
  BY <1>2, <1>7, <1>8

----------------------------------------------------------------------------
(* Rows inserted into a list and rows cut out of it, and the mapping that  *)
(* follows.                                                                *)

LEMMA RowsCountedEach ==
    ASSUME NEW par, NEW row, IsTree(par), Numbered(par, row), NEW L \in SUBSET In(par)
    PROVE  \A v, c : IsList(par, row, v, c, L) =>
              /\ Cardinality(L) = c
              /\ \A r \in 0 .. c - 1 : Cardinality({x \in L : Precedes(par, row, x, v[r])}) = r
<1> SUFFICES ASSUME NEW v, NEW c, IsList(par, row, v, c, L)
             PROVE  /\ Cardinality(L) = c
                    /\ \A r \in 0 .. c - 1 : Cardinality({x \in L : Precedes(par, row, x, v[r])}) = r
  OBVIOUS
<1> QED
  BY RowsCounted

\* There is one list only.
LEMMA ListUnique ==
    ASSUME NEW par, NEW row, IsTree(par), Numbered(par, row), NEW L \in SUBSET In(par),
           NEW v, NEW c, IsList(par, row, v, c, L), NEW w, NEW d, IsList(par, row, w, d, L),
           v = [r \in DOMAIN v |-> v[r]], w = [r \in DOMAIN w |-> w[r]]
    PROVE  v = w /\ c = d
<1>1. c = d
  <2>1. Cardinality(L) = c
    BY RowsCounted
  <2>2. Cardinality(L) = d
    BY RowsCounted
  <2> QED
    BY <2>1, <2>2
<1>2. c \in Nat /\ DOMAIN v = 0 .. c - 1 /\ DOMAIN w = 0 .. c - 1 /\ \A r \in 0 .. c - 1 : v[r] \in L
  BY <1>1 DEF IsList
<1>3. ASSUME NEW r \in 0 .. c - 1 PROVE v[r] = w[r]
  <2>1. PICK s \in 0 .. c - 1 : w[s] = v[r]
    BY <1>1, <1>2 DEF IsList
  <2>2. \A q \in 0 .. c - 1 : Cardinality({x \in L : Precedes(par, row, x, v[q])}) = q
    BY RowsCounted
  <2>3. \A q \in 0 .. d - 1 : Cardinality({x \in L : Precedes(par, row, x, w[q])}) = q
    BY RowsCountedEach
  <2>4. Cardinality({x \in L : Precedes(par, row, x, v[r])}) = r
    BY <2>2
  <2>5. Cardinality({x \in L : Precedes(par, row, x, w[s])}) = s
    BY <1>1, <2>3
  <2> QED
    BY <2>1, <2>4, <2>5
<1> QED
  BY <1>1, <1>2, <1>3

InsertedList(v, c, s, new, count) ==
    [r \in 0 .. c + count - 1 |-> IF r < s THEN v[r]
                                  ELSE IF r < s + count THEN new[r - s] ELSE v[r - count]]

CutList(v, c, a, b) ==
    [r \in 0 .. c - (b - a + 1) - 1 |-> IF r < a THEN v[r] ELSE v[r + (b - a + 1)]]

LEMMA InsertIntoList ==
    ASSUME NEW par, NEW row, IsTree(par), Numbered(par, row),
           NEW L \in SUBSET In(par), NEW v, NEW c, IsList(par, row, v, c, L),
           NEW X \in SUBSET In(par), NEW new, NEW count, IsList(par, row, new, count, X),
           NEW s \in 0 .. c,
           \A r \in 0 .. c - 1 : \A x \in X : /\ r < s => Precedes(par, row, v[r], x)
                                              /\ s <= r => Precedes(par, row, x, v[r])
    PROVE  IsList(par, row, InsertedList(v, c, s, new, count), c + count, L \cup X)
<1> DEFINE w == InsertedList(v, c, s, new, count)
<1>1. c \in Nat /\ count \in Nat /\ s \in Nat /\ s <= c
  BY DEF IsList
<1>2. /\ DOMAIN w = 0 .. c + count - 1
      /\ \A r \in 0 .. c + count - 1 :
            /\ r < s => r \in 0 .. c - 1 /\ w[r] = v[r]
            /\ s <= r /\ r < s + count => r - s \in 0 .. count - 1 /\ w[r] = new[r - s]
            /\ s + count <= r => r - count \in 0 .. c - 1 /\ s <= r - count /\ w[r] = v[r - count]
            /\ r < s \/ (s <= r /\ r < s + count) \/ s + count <= r
  BY <1>1 DEF InsertedList
<1> HIDE DEF w
<1>3. /\ \A r \in 0 .. c - 1 : v[r] \in L
      /\ \A r \in 0 .. count - 1 : new[r] \in X
      /\ \A q, r \in 0 .. c - 1 : q < r => Precedes(par, row, v[q], v[r])
      /\ \A q, r \in 0 .. count - 1 : q < r => Precedes(par, row, new[q], new[r])
      /\ \A x \in L : \E r \in 0 .. c - 1 : v[r] = x
      /\ \A x \in X : \E r \in 0 .. count - 1 : new[r] = x
  BY DEF IsList
<1>4. \A r \in 0 .. c + count - 1 : w[r] \in L \cup X
  BY <1>2, <1>3
<1>5. \A x \in L \cup X : \E r \in 0 .. c + count - 1 : w[r] = x
  <2>1. ASSUME NEW x \in L PROVE \E r \in 0 .. c + count - 1 : w[r] = x
    <3>1. PICK r \in 0 .. c - 1 : v[r] = x
      BY <1>3
    <3>2. CASE r < s
      <4>1. r \in 0 .. c + count - 1
        BY <1>1
      <4> QED
        BY <1>2, <3>1, <3>2, <4>1
    <3>3. CASE s <= r
      <4>1. r + count \in 0 .. c + count - 1 /\ s + count <= r + count /\ (r + count) - count = r
        BY <1>1, <3>3
      <4> QED
        BY <1>2, <3>1, <4>1
    <3> QED
      BY <1>1, <3>2, <3>3
  <2>2. ASSUME NEW x \in X PROVE \E r \in 0 .. c + count - 1 : w[r] = x
    <3>1. PICK r \in 0 .. count - 1 : new[r] = x
      BY <1>3
    <3>2. r + s \in 0 .. c + count - 1 /\ s <= r + s /\ r + s < s + count /\ (r + s) - s = r
      BY <1>1
    <3> QED
      BY <1>2, <3>1, <3>2
  <2> QED
    BY <2>1, <2>2
<1>6. ASSUME NEW q \in 0 .. c + count - 1, NEW r \in 0 .. c + count - 1, q < r
      PROVE  Precedes(par, row, w[q], w[r])
  <2>1. CASE q < s /\ r < s
    BY <1>2, <1>3, <1>6, <2>1
  <2>2. CASE q < s /\ s <= r /\ r < s + count
    BY <1>2, <1>3, <2>2
  <2>3. CASE q < s /\ s + count <= r
    <3>1. q < r - count
      BY <1>1, <2>3
    <3> QED
      BY <1>2, <1>3, <2>3, <3>1
  <2>4. CASE s <= q /\ q < s + count /\ s <= r /\ r < s + count
    <3>1. q - s < r - s
      BY <1>1, <1>6
    <3> QED
      BY <1>2, <1>3, <2>4, <3>1
  <2>5. CASE s <= q /\ q < s + count /\ s + count <= r
    BY <1>2, <1>3, <2>5
  <2>6. CASE s + count <= q /\ s + count <= r
    <3>1. q - count < r - count
      BY <1>1, <1>6
    <3> QED
      BY <1>2, <1>3, <2>6, <3>1
  <2> QED
    BY <1>1, <1>6, <2>1, <2>2, <2>3, <2>4, <2>5, <2>6
<1>7. c + count \in Nat
  BY <1>1
<1> QED
  BY <1>2, <1>4, <1>5, <1>6, <1>7 DEF IsList, w

LEMMA CutFromList ==
    ASSUME NEW par, NEW row, IsTree(par), Numbered(par, row),
           NEW L \in SUBSET In(par), NEW v, NEW c, IsList(par, row, v, c, L),
           NEW a \in 0 .. c, NEW b \in Int, a <= b + 1, b < c
    PROVE  IsList(par, row, CutList(v, c, a, b), c - (b - a + 1), L \ Span(v, a, b))
<1> DEFINE n == b - a + 1
           w == CutList(v, c, a, b)
<1>1. c \in Nat /\ n \in Nat /\ a \in Nat /\ c - n \in Nat /\ a <= c - n
  BY DEF IsList
<1>2. /\ DOMAIN w = 0 .. c - n - 1
      /\ \A r \in 0 .. c - n - 1 :
            /\ r < a => r \in 0 .. c - 1 /\ r \notin a .. b /\ w[r] = v[r]
            /\ a <= r => r + n \in 0 .. c - 1 /\ r + n \notin a .. b /\ w[r] = v[r + n]
            /\ r < a \/ a <= r
  BY <1>1 DEF CutList
<1>3. /\ \A r \in 0 .. c - 1 : v[r] \in L
      /\ \A q, r \in 0 .. c - 1 : q < r => Precedes(par, row, v[q], v[r])
      /\ \A x \in L : \E r \in 0 .. c - 1 : v[r] = x
  BY DEF IsList
<1>4. \A r \in 0 .. c - 1 : r \notin a .. b => v[r] \notin Span(v, a, b)
  <2>1. \A q, r \in 0 .. c - 1 : v[q] = v[r] <=> q = r
    BY ListOrder
  <2>2. \A k \in a .. b : k \in 0 .. c - 1
    BY <1>1
  <2> QED
    BY <2>1, <2>2 DEF Span
<1>5. \A r \in 0 .. c - n - 1 : w[r] \in L \ Span(v, a, b)
  BY <1>2, <1>3, <1>4
<1>6. ASSUME NEW x \in L \ Span(v, a, b)
      PROVE  \E r \in 0 .. c - n - 1 : w[r] = x
  <2>1. PICK r \in 0 .. c - 1 : v[r] = x
    BY <1>3
  <2>2. r \notin a .. b
    BY <2>1 DEF Span
  <2>3. CASE r < a
    <3>1. r \in 0 .. c - n - 1
      BY <1>1, <2>3
    <3> QED
      BY <1>2, <2>1, <2>3, <3>1
  <2>4. CASE b < r
    <3>1. r - n \in 0 .. c - n - 1 /\ a <= r - n /\ (r - n) + n = r
      BY <1>1, <2>4
    <3> QED
      BY <1>2, <2>1, <3>1
  <2> QED
    BY <1>1, <2>2, <2>3, <2>4
<1>7. ASSUME NEW q \in 0 .. c - n - 1, NEW r \in 0 .. c - n - 1, q < r
      PROVE  Precedes(par, row, w[q], w[r])
  <2>1. CASE r < a
    BY <1>1, <1>2, <1>3, <1>7, <2>1
  <2>2. CASE q < a /\ a <= r
    <3>1. q < r + n
      BY <1>1, <1>7
    <3> QED
      BY <1>2, <1>3, <2>2, <3>1
  <2>3. CASE a <= q /\ a <= r
    <3>1. q + n < r + n
      BY <1>1, <1>7
    <3> QED
      BY <1>2, <1>3, <2>3, <3>1
  <2> QED
    BY <1>1, <1>7, <2>1, <2>2, <2>3
<1> QED
  BY <1>1, <1>2, <1>5, <1>6, <1>7 DEF IsList

\* m maps the nodes of T to their rows in the list v.
MapsSet(m, v, T) == m = [r \in {q \in DOMAIN v : v[q] \in T} |-> v[r]]

Lasts(par, row, L) == {n \in L : IsLast(par, row, L, n)}

LEMMA MapsLastIs ==
    ASSUME NEW par, NEW row, NEW m, NEW v, NEW L
    PROVE  MapsLast(par, row, m, v, L) <=> MapsSet(m, v, Lasts(par, row, L))
<1>1. {q \in DOMAIN v : IsLast(par, row, L, v[q])} = {q \in DOMAIN v : v[q] \in Lasts(par, row, L)}
  BY DEF Lasts, IsLast
<1> QED
  BY <1>1 DEF MapsLast, MapsSet

LEMMA ShiftForInsertion ==
    ASSUME NEW v, NEW c \in Nat, DOMAIN v = 0 .. c - 1,
           NEW new, NEW count \in Nat, NEW s \in 0 .. c,
           NEW T, \A k \in 0 .. count - 1 : new[k] \notin T, NEW m, MapsSet(m, v, T)
    PROVE  MapsSet(MapShift(m, s, count), InsertedList(v, c, s, new, count), T)
<1> DEFINE w == InsertedList(v, c, s, new, count)
           moved == {r \in DOMAIN m : r >= s}
           targets == {r + count : r \in moved}
           kept == {r \in DOMAIN m : r < s} \ targets
           dom == {q \in DOMAIN w : w[q] \in T}
<1>1. /\ DOMAIN m = {q \in 0 .. c - 1 : v[q] \in T} /\ \A q \in DOMAIN m : m[q] = v[q]
  BY DEF MapsSet
<1>2. /\ DOMAIN w = 0 .. c + count - 1
      /\ \A r \in 0 .. c + count - 1 :
            /\ r < s => r \in 0 .. c - 1 /\ w[r] = v[r]
            /\ s <= r /\ r < s + count => r - s \in 0 .. count - 1 /\ w[r] = new[r - s]
            /\ s + count <= r => r - count \in 0 .. c - 1 /\ s <= r - count /\ w[r] = v[r - count]
            /\ r < s \/ (s <= r /\ r < s + count) \/ s + count <= r
  BY DEF InsertedList
<1> HIDE DEF w
<1>3. \A r \in targets : /\ r \in 0 .. c + count - 1 /\ s + count <= r
                         /\ r - count \in DOMAIN m /\ r - count >= s
  BY <1>1
<1>4. \A r \in dom : s + count <= r => r \in targets
  <2> SUFFICES ASSUME NEW r \in dom, s + count <= r PROVE r \in targets
    OBVIOUS
  <2>1. r \in 0 .. c + count - 1 /\ r - count \in 0 .. c - 1 /\ s <= r - count /\ v[r - count] \in T
    BY <1>2
  <2>2. r - count \in moved /\ (r - count) + count = r
    BY <1>1, <2>1
  <2> QED
    BY <2>2
<1>5. kept \cup targets = dom
  <2>1. \A r \in targets : r \in dom
    BY <1>1, <1>2, <1>3
  <2>2. \A r \in kept : r \in dom
    <3> SUFFICES ASSUME NEW r \in kept PROVE r \in dom
      OBVIOUS
    <3>1. r \in 0 .. c + count - 1 /\ r < s /\ v[r] \in T
      BY <1>1
    <3> QED
      BY <1>2, <3>1
  <2>3. \A r \in dom : r < s => r \in kept
    <3> SUFFICES ASSUME NEW r \in dom, r < s PROVE r \in kept
      OBVIOUS
    <3>1. r \in DOMAIN m
      BY <1>1, <1>2
    <3>2. r \notin targets
      <4>1. \A t \in targets : t \in Int /\ s <= t
        <5> HIDE DEF targets
        <5> QED
          BY <1>3
      <4>2. r \in Int /\ s \in Int
        BY <1>2
      <4> HIDE DEF targets, dom
      <4> QED
        BY <2>3, <4>1, <4>2
    <3> QED
      BY <3>1, <3>2
  <2>4. \A r \in dom : r < s \/ s + count <= r
    BY <1>2
  <2> QED
    BY <1>4, <2>1, <2>2, <2>3, <2>4
<1>6. \A r \in dom : (IF r \in targets THEN m[r - count] ELSE m[r]) = w[r]
  <2> SUFFICES ASSUME NEW r \in dom PROVE (IF r \in targets THEN m[r - count] ELSE m[r]) = w[r]
    OBVIOUS
  <2>1. CASE r \in targets
    BY <1>1, <1>2, <1>3, <2>1
  <2>2. CASE r \notin targets
    <3>1. r \in kept
      BY <1>5, <2>2
    <3>2. r \in DOMAIN m /\ r < s /\ r \in 0 .. c + count - 1
      BY <1>1, <3>1
    <3> QED
      BY <1>1, <1>2, <2>2, <3>2
  <2> QED
    BY <2>1, <2>2
<1>7. MapShift(m, s, count) = [r \in kept \cup targets |-> IF r \in targets THEN m[r - count] ELSE m[r]]
  BY DEF MapShift
<1> HIDE DEF targets, kept, dom
<1>8. MapShift(m, s, count) = [r \in dom |-> w[r]]
  BY <1>5, <1>6, <1>7
<1> QED
  BY <1>8 DEF MapsSet, dom, w

----------------------------------------------------------------------------
(* Recursion down the tree: into one child of an index and on from there.  *)

\* The indexes that a descent from i comes by: into next[i] as long as i is in C.
Descent(par, C, next, i) ==
    {x \in In(par) : /\ i \in Ancestors(par)[x]
                     /\ \A a \in Ancestors(par)[x] :
                           i \in Ancestors(par)[par[a]] => par[a] \in C /\ a = next[par[a]]}

LEMMA DescentUnfolds ==
    ASSUME NEW par, IsTree(par), NEW C \in SUBSET In(par), NEW next,
           \A i \in C : next[i] \in In(par) /\ par[next[i]] = i,
           NEW i \in In(par)
    PROVE  {x \in Descent(par, C, next, i) : x \notin C}
              = IF i \in C THEN {x \in Descent(par, C, next, next[i]) : x \notin C} ELSE {i}
<1> DEFINE up == Ancestors(par)
           k == next[i]
<1>1. /\ up[Root] = {}
      /\ \A j \in In(par) : up[j] = {j} \cup up[par[j]] /\ par[j] \in In(par) \cup {Root}
  BY AncestorsOfOne
<1>2. \A j \in In(par) : up[j] \subseteq In(par)
  BY AncestorsClosed
<1>3. i \notin up[par[i]]
  BY NoCycle
<1>4. i \in Descent(par, C, next, i)
  <2> SUFFICES ASSUME NEW a \in up[i], i \in up[par[a]] PROVE FALSE
    BY <1>1 DEF Descent
  <2>1. a \in In(par) /\ up[par[a]] \subseteq up[par[i]]
    BY <1>2, AboveAncestor
  <2> QED
    BY <1>3, <2>1
\* what is below i is below a child of i, and that is next[i]
<1>5. ASSUME NEW x \in Descent(par, C, next, i), x # i
      PROVE  i \in C /\ k \in up[x]
  <2>1. x \in In(par) /\ i \in up[x]
    BY DEF Descent
  <2> DEFINE S == {a \in up[x] : i \in up[par[a]]}
  <2>2. S \in SUBSET In(par) /\ x \in S
    BY <1>1, <1>2, <1>5, <2>1
  <2>3. PICK a \in S : par[a] \notin S
    <3> HIDE DEF S
    <3> QED
      BY <2>2 DEF IsTree
  <2>4. par[a] \in In(par) /\ par[a] \in up[x]
    <3>1. par[a] # Root
      BY <1>1
    <3> QED
      BY <1>1, <2>1, <2>2, <3>1, AncestorsClosed
  <2>5. par[a] = i
    BY <1>1, <2>3, <2>4
  <2> QED
    BY <2>5 DEF Descent
<1>6. CASE i \notin C
  BY <1>4, <1>5, <1>6
<1>7. CASE i \in C
  <2>1. k \in In(par) /\ par[k] = i /\ up[k] = {k} \cup up[i]
    BY <1>1, <1>7
  <2>2. ASSUME NEW x \in Descent(par, C, next, i), x # i
        PROVE  x \in Descent(par, C, next, k)
    <3>1. x \in In(par) /\ k \in up[x]
      BY <1>5, <2>2 DEF Descent
    <3>2. ASSUME NEW a \in up[x], k \in up[par[a]]
          PROVE  i \in up[par[a]]
      <4>1. a \in In(par) /\ par[a] \in In(par) \cup {Root}
        BY <1>1, <1>2, <3>1
      <4>2. up[k] \subseteq up[par[a]]
        BY <3>2, <4>1, AncestorsTransitive
      <4> QED
        BY <1>1, <2>1, <4>2
    <3> QED
      BY <3>1, <3>2 DEF Descent
  <2>3. ASSUME NEW x \in Descent(par, C, next, k)
        PROVE  x \in Descent(par, C, next, i)
    <3>1. x \in In(par) /\ k \in up[x]
      BY DEF Descent
    <3>2. up[k] \subseteq up[x]
      BY <3>1, AncestorsTransitive
    <3>3. i \in up[x]
      BY <1>1, <2>1, <3>2
    <3>4. ASSUME NEW a \in up[x], i \in up[par[a]], k \notin up[par[a]]
          PROVE  a = k
      <4>1. a \in In(par) /\ par[a] \in In(par)
        BY <1>1, <1>2, <3>1, <3>4
      <4>2. a \in up[k] \/ k \in up[a]
        BY <3>1, AncestorsChain
      <4>3. CASE k \in up[a]
        BY <1>1, <3>4, <4>1, <4>3
      <4>4. CASE a \in up[k] /\ a # k
        <5>1. a \in up[i]
          BY <2>1, <4>4
        <5>2. up[par[a]] \subseteq up[par[i]]
          BY <5>1, AboveAncestor
        <5> QED
          BY <1>3, <3>4, <5>2
      <4> QED
        BY <4>2, <4>3, <4>4
    <3> QED
      BY <1>7, <2>1, <3>1, <3>3, <3>4 DEF Descent
  <2> QED
    BY <1>7, <2>2, <2>3
<1> QED
  BY <1>6, <1>7

\* The recursion: on into next[i], and base[i] where the descent ends.
Descends(C, next, base, g) == [i \in Nodes |-> IF i \in C THEN g[next[i]] ELSE base[i]]

\* It has a solution.
LEMMA DescentEnds ==
    ASSUME NEW par, IsTree(par), NEW C \in SUBSET In(par), NEW next,
           \A i \in C : next[i] \in In(par) /\ par[next[i]] = i, NEW base
    PROVE  \E g : g = Descends(C, next, base, g)
<1> DEFINE ends(i) == {x \in Descent(par, C, next, i) : x \notin C}
           g == [i \in Nodes |-> IF i \in C THEN base[CHOOSE x \in ends(i) : TRUE] ELSE base[i]]
<1>1. \A i \in In(par) : i \in Nodes
  BY DEF In
<1>2. ASSUME NEW i \in C PROVE g[next[i]] = base[CHOOSE x \in ends(i) : TRUE]
  <2>1. next[i] \in In(par) /\ i \in In(par) /\ next[i] \in Nodes
    BY <1>1
  <2>2. ends(i) = ends(next[i])
    BY <2>1, DescentUnfolds
  <2>3. CASE next[i] \in C
    BY <2>1, <2>2, <2>3
  <2>4. CASE next[i] \notin C
    <3>1. ends(next[i]) = {next[i]}
      BY <2>1, <2>4, DescentUnfolds
    <3> HIDE DEF ends
    <3>2. (CHOOSE x \in ends(i) : TRUE) = next[i]
      BY <2>2, <3>1
    <3> QED
      BY <2>1, <2>4, <3>2
  <2> QED
    BY <2>3, <2>4
<1>3. ASSUME NEW i \in Nodes
      PROVE  g[i] = IF i \in C THEN g[next[i]] ELSE base[i]
  BY <1>2
<1>4. g = [i \in Nodes |-> IF i \in C THEN g[next[i]] ELSE base[i]]
  <2> DEFINE h == [i \in Nodes |-> IF i \in C THEN g[next[i]] ELSE base[i]]
  <2>1. DOMAIN g = Nodes /\ DOMAIN h = Nodes /\ \A i \in Nodes : g[i] = h[i]
    <3>1. \A i \in Nodes : h[i] = IF i \in C THEN g[next[i]] ELSE base[i]
      <4> HIDE DEF g
      <4> QED
        OBVIOUS
    <3> HIDE DEF h
    <3>2. \A i \in Nodes : g[i] = h[i]
      <4> HIDE DEF g
      <4> QED
        BY <1>3, <3>1
    <3> QED
      BY <3>2 DEF h
  <2>2. g = [i \in Nodes |-> g[i]] /\ h = [i \in Nodes |-> h[i]]
    OBVIOUS
  <2> HIDE DEF g, h
  <2>3. g = h
    BY <2>1, <2>2
  <2> QED
    BY <2>3 DEF h
<1> QED
  BY <1>4 DEF Descends

\* What is below an index is below one of its children.
LEMMA BranchBelow ==
    ASSUME NEW par, IsTree(par), NEW x \in In(par), NEW i \in In(par) \cup {Root},
           i \in Ancestors(par)[par[x]] \cup {Root}
    PROVE  \E b \in Ancestors(par)[x] : b \in In(par) /\ par[b] = i
<1> DEFINE up == Ancestors(par)
           S == {a \in up[x] : i \in up[par[a]] \cup {Root}}
<1>1. /\ up[Root] = {}
      /\ \A j \in In(par) : up[j] = {j} \cup up[par[j]] /\ par[j] \in In(par) \cup {Root}
  BY AncestorsOfOne
<1>2. up[x] \subseteq In(par) /\ \A a \in up[x] : par[a] \in up[x] \cup {Root}
  BY AncestorsClosed
<1>3. S \in SUBSET In(par) /\ x \in S
  BY <1>1, <1>2
<1>4. PICK a \in S : par[a] \notin S
  <2> HIDE DEF S
  <2> QED
    BY <1>3 DEF IsTree
<1>5. a \in In(par) /\ a \in up[x]
  BY <1>3
<1>6. CASE par[a] = Root
  BY <1>1, <1>4, <1>5, <1>6
<1>7. CASE par[a] # Root
  <2>1. par[a] \in up[x] /\ par[a] \in In(par)
    BY <1>1, <1>2, <1>5, <1>7
  <2>2. i # Root /\ i \notin up[par[par[a]]]
    BY <1>4, <2>1
  <2>3. i \in up[par[a]]
    BY <1>4, <2>2
  <2> QED
    BY <1>1, <1>5, <2>1, <2>2, <2>3
<1> QED
  BY <1>6, <1>7

\* Some index of a set has no child in it.
LEMMA DeepestExists ==
    ASSUME NEW par, IsTree(par), NEW S \in SUBSET In(par), S # {}
    PROVE  \E i \in S : \A k \in In(par) : par[k] = i => k \notin S
<1> DEFINE up == Ancestors(par)
           depths == {Cardinality(up[n]) : n \in S}
<1>1. \A n \in In(par) : up[n] = {n} \cup up[par[n]] /\ up[n] \in SUBSET Nodes /\ n \notin up[par[n]]
  BY AncestorsOfOne, AncestorsClosed, NoCycle DEF In
<1>2. IsFiniteSet(Nodes) /\ Cardinality(Nodes) \in Nat
  BY NodesAssumption, FS_CardinalityType
<1>3. \A n \in In(par) : /\ IsFiniteSet(up[n]) /\ Cardinality(up[n]) \in Nat
                         /\ Cardinality(up[n]) <= Cardinality(Nodes)
  <2> SUFFICES ASSUME NEW n \in In(par)
               PROVE  /\ IsFiniteSet(up[n]) /\ Cardinality(up[n]) \in Nat
                      /\ Cardinality(up[n]) <= Cardinality(Nodes)
    OBVIOUS
  <2>1. up[n] \in SUBSET Nodes
    BY <1>1
  <2> QED
    BY <1>2, <2>1, FS_Subset, CountType
<1>4. depths \in SUBSET Nat /\ depths # {} /\ \A d \in depths : d <= Cardinality(Nodes)
  BY <1>3
<1>5. PICK d \in depths : \A q \in depths : q <= d
  <2> HIDE DEF depths
  <2> QED
    BY <1>2, <1>4, GreatestExists
<1>6. PICK i \in S : d = Cardinality(up[i])
  OBVIOUS
<1>7. ASSUME NEW k \in In(par), par[k] = i, k \in S
      PROVE  FALSE
  <2>1. up[k] = up[i] \cup {k} /\ k \notin up[i]
    BY <1>1, <1>7
  <2>2. i \in In(par) /\ IsFiniteSet(up[i]) /\ Cardinality(up[i]) \in Nat
    BY <1>3
  <2>3. Cardinality(up[k]) = Cardinality(up[i]) + 1
    BY <2>1, <2>2, FS_AddElement
  <2>4. Cardinality(up[k]) <= d
    BY <1>5, <1>7
  <2> QED
    BY <1>6, <2>2, <2>3, <2>4
<1> QED
  BY <1>6, <1>7

\* The last row of an index.
LEMMA LastChild ==
    ASSUME Numbered(srcParent, srcRow), NEW p \in Nodes \cup {Root}, hasChildren(p)
    PROVE  LET e == index(rowCount(p) - 1, p)
           IN  /\ e \in Nodes /\ srcParent[e] = p /\ srcRow[e] = rowCount(p) - 1
               /\ rowCount(p) \in Nat \ {0}
               /\ \A k \in Nodes : srcParent[k] = p =>
                     /\ srcRow[k] \in Nat /\ srcRow[k] <= srcRow[e]
                     /\ srcRow[k] = srcRow[e] => k = e
<1>1. rowCount(p) \in Nat /\ rowCount(p) # 0
  BY RowCountType DEF hasChildren
<1>2. rowCount(p) - 1 \in 0 .. rowCount(p) - 1
  BY <1>1
<1>3. /\ index(rowCount(p) - 1, p) \in Children(p)
      /\ srcRow[index(rowCount(p) - 1, p)] = rowCount(p) - 1
  BY <1>2, IndexExists
<1>4. /\ \A k \in Children(p) : srcRow[k] \in 0 .. rowCount(p) - 1
      /\ \A m, n \in Children(p) : srcRow[m] = srcRow[n] => m = n
  BY DEF Numbered, Children, rowCount
<1> QED
  BY <1>1, <1>3, <1>4 DEF Children

\* The indexes below i that are shown when i and its rows are, C being expanded.
ShownBelow(par, C, i) ==
    {x \in In(par) : /\ i \in Ancestors(par)[x]
                     /\ \A a \in Ancestors(par)[par[x]] : i \in Ancestors(par)[a] => a \in C}

LEMMA DescentLast ==
    ASSUME IsTree(srcParent), Numbered(srcParent, srcRow),
           NEW C \in SUBSET In(srcParent), \A i \in C : hasChildren(i),
           NEW f, \A i \in In(srcParent) :
                     f[i] = IF i \in C THEN f[index(rowCount(i) - 1, i)] ELSE i,
           NEW i \in In(srcParent)
    PROVE  /\ f[i] \in ShownBelow(srcParent, C, i)
           /\ \A x \in ShownBelow(srcParent, C, i) : x = f[i] \/ Precedes(srcParent, srcRow, x, f[i])
           /\ f[i] = i \/ \A k \in Nodes : srcParent[k] = srcParent[f[i]] => srcRow[k] <= srcRow[f[i]]
<1> DEFINE up == Ancestors(srcParent)
           P(x, y) == Precedes(srcParent, srcRow, x, y)
           Sh(j) == ShownBelow(srcParent, C, j)
           good(j) == /\ f[j] \in Sh(j)
                      /\ \A x \in Sh(j) : x = f[j] \/ P(x, f[j])
                      /\ f[j] = j \/ \A k \in Nodes : srcParent[k] = srcParent[f[j]] => srcRow[k] <= srcRow[f[j]]
           bad == {j \in In(srcParent) : ~good(j)}
<1>1. /\ up[Root] = {}
      /\ \A j \in In(srcParent) : /\ up[j] = {j} \cup up[srcParent[j]] /\ srcParent[j] \in In(srcParent) \cup {Root}
                                  /\ j \in Nodes /\ srcRow[j] \in Nat /\ j \notin up[srcParent[j]]
                                  /\ up[j] \subseteq In(srcParent)
  BY AncestorsOfOne, RowsType, NoCycle, AncestorsClosed DEF In
<1>2. SUFFICES ASSUME NEW j \in In(srcParent),
                      \A k \in In(srcParent) : srcParent[k] = j => good(k)
               PROVE  good(j)
  <2>1. ASSUME bad # {} PROVE FALSE
    <3>1. bad \in SUBSET In(srcParent)
      OBVIOUS
    <3>2. PICK j \in bad : \A k \in In(srcParent) : srcParent[k] = j => k \notin bad
      <4> HIDE DEF bad
      <4> QED
        BY <2>1, <3>1, DeepestExists
    <3>3. \A k \in In(srcParent) : srcParent[k] = j => good(k)
      BY <3>2
    <3>4. j \in In(srcParent) /\ ~good(j)
      BY <3>2
    <3> HIDE DEF good
    <3> QED
      BY <1>2, <3>3, <3>4
  <2> QED
    BY <2>1
<1>3. j \in Sh(j)
  <2> SUFFICES ASSUME NEW a \in up[srcParent[j]], j \in up[a] PROVE FALSE
    BY <1>1 DEF ShownBelow
  <2>1. up[a] \subseteq up[srcParent[j]]
    BY <1>1, AncestorsTransitive
  <2> QED
    BY <1>1, <2>1
<1>4. CASE j \notin C
  <2>1. f[j] = j
    BY <1>4
  <2>2. ASSUME NEW x \in Sh(j) PROVE x = j
    BY <1>1, <1>4 DEF ShownBelow
  <2> QED
    BY <1>3, <2>1, <2>2
<1>5. CASE j \in C
  <2> DEFINE c == index(rowCount(j) - 1, j)
             z == f[c]
  <2>1. /\ c \in In(srcParent) /\ srcParent[c] = j /\ f[j] = z
        /\ \A k \in Nodes : srcParent[k] = j => /\ srcRow[k] <= srcRow[c]
                                                /\ srcRow[k] = srcRow[c] => k = c
    <3>1. j \in Nodes \cup {Root} /\ hasChildren(j) /\ j # Absent
      BY <1>1, <1>5, NodesAssumption
    <3> QED
      BY <1>5, <3>1, LastChild DEF In
  <2> HIDE DEF c
  <2>2. good(c)
    BY <1>2, <2>1
  <2>3. z \in In(srcParent) /\ c \in up[z] /\ \A a \in up[srcParent[z]] : c \in up[a] => a \in C
    BY <2>2 DEF ShownBelow
  <2>4. up[c] = {c} \cup up[j] /\ up[c] \subseteq up[z] /\ j \in up[z] /\ c # j
    BY <1>1, <2>1, <2>3, AncestorsTransitive
  <2>5. z \in Sh(j)
    <3> SUFFICES ASSUME NEW a \in up[srcParent[z]], j \in up[a], c \notin up[a] PROVE a \in C
      BY <2>3, <2>4 DEF ShownBelow
    <3>1. a \in up[z] /\ a \in In(srcParent)
      BY <1>1, <2>3
    <3>2. a \in up[c]
      BY <2>3, <3>1, AncestorsChain
    <3>3. a \in up[j] /\ a \in In(srcParent)
      BY <1>1, <2>4, <3>1, <3>2
    <3>4. a = j
      BY <3>3, AncestorsAntisymmetric
    <3> QED
      BY <1>5, <3>4
  <2>6. ASSUME NEW x \in Sh(j) PROVE x = z \/ P(x, z)
    <3>1. x \in In(srcParent) /\ j \in up[x] /\ \A a \in up[srcParent[x]] : j \in up[a] => a \in C
      BY DEF ShownBelow
    <3>2. CASE x = j
      <4>1. z # j
        BY <1>1, <2>1, <2>3, <2>4
      <4> QED
        BY <2>3, <2>4, <3>2, AncestorFirst
    <3>3. CASE x # j
      <4>1. j \in up[srcParent[x]]
        BY <1>1, <3>1, <3>3
      <4>2. PICK b \in up[x] : b \in In(srcParent) /\ srcParent[b] = j
        BY <3>1, <4>1, BranchBelow
      <4>3. CASE b = c
        <5>1. ASSUME NEW a \in up[srcParent[x]], c \in up[a] PROVE a \in C
          <6>1. a \in In(srcParent)
            BY <1>1, <3>1
          <6>2. j \in up[a]
            BY <1>1, <2>4, <5>1, <6>1, AncestorsTransitive
          <6> QED
            BY <3>1, <6>2
        <5>2. x \in Sh(c)
          BY <3>1, <4>2, <4>3, <5>1 DEF ShownBelow
        <5> QED
          BY <2>2, <5>2
      <4>4. CASE b # c
        <5>1. srcRow[b] < srcRow[c]
          BY <1>1, <2>1, <4>2, <4>4
        <5> QED
          BY <2>1, <2>3, <4>2, <5>1 DEF Precedes
      <4> QED
        BY <4>3, <4>4
    <3> QED
      BY <3>2, <3>3
  <2>7. \A k \in Nodes : srcParent[k] = srcParent[z] => srcRow[k] <= srcRow[z]
    BY <2>1, <2>2
  <2> QED
    BY <2>1, <2>5, <2>6, <2>7
<1> QED
  BY <1>4, <1>5

\* An index with children is in the model.
LEMMA ParentKnown ==
    ASSUME IsTree(srcParent), NEW i \in Nodes, hasChildren(i)
    PROVE  i \in In(srcParent)
BY NodesAssumption DEF hasChildren, Children, IsTree, In

ParentsIn(i) == {n \in Children(i) : hasChildren(n)}

FirstParent(i) == CHOOSE n \in ParentsIn(i) : \A k \in ParentsIn(i) : srcRow[n] <= srcRow[k]

LEMMA FirstParentIs ==
    ASSUME IsTree(srcParent), Numbered(srcParent, srcRow), NEW i \in In(srcParent), ParentsIn(i) # {}
    PROVE  /\ FirstParent(i) \in In(srcParent) /\ srcParent[FirstParent(i)] = i
           /\ hasChildren(FirstParent(i))
           /\ \A k \in Nodes : srcParent[k] = i /\ srcRow[k] < srcRow[FirstParent(i)] => ~hasChildren(k)
<1> DEFINE rows == {srcRow[n] : n \in ParentsIn(i)}
<1>1. \A n \in ParentsIn(i) : n \in In(srcParent) /\ srcParent[n] = i /\ srcRow[n] \in Nat /\ hasChildren(n)
  <2>1. \A n \in ParentsIn(i) : n \in In(srcParent) /\ srcParent[n] = i /\ hasChildren(n)
    BY NodesAssumption DEF ParentsIn, Children, In
  <2> QED
    BY <2>1, RowsType
<1>2. rows \in SUBSET Nat /\ rows # {}
  BY <1>1
<1>3. PICK r \in rows : \A q \in rows : r <= q
  <2> HIDE DEF rows
  <2> QED
    BY <1>2, LeastExists
<1>4. \E n \in ParentsIn(i) : \A k \in ParentsIn(i) : srcRow[n] <= srcRow[k]
  BY <1>3
<1>5. FirstParent(i) \in ParentsIn(i) /\ \A k \in ParentsIn(i) : srcRow[FirstParent(i)] <= srcRow[k]
  BY <1>4 DEF FirstParent
<1>6. ASSUME NEW k \in Nodes, srcParent[k] = i, srcRow[k] < srcRow[FirstParent(i)], hasChildren(k)
      PROVE  FALSE
  <2>1. k \in ParentsIn(i)
    BY <1>6 DEF ParentsIn, Children
  <2> QED
    BY <1>1, <1>5, <1>6, <2>1
<1> QED
  BY <1>1, <1>5, <1>6

----------------------------------------------------------------------------
(* Counting rows by levels.                                                *)

LEMMA PassedIn ==
    ASSUME NEW par, NEW row, IsTree(par), Numbered(par, row), NEW n \in In(par)
    PROVE  \A z \in Passed(par, row, n) :
              /\ z \in In(par) /\ z \in Nodes
              /\ z = n \/ Precedes(par, row, z, n)
<1> DEFINE up == Ancestors(par)
<1> SUFFICES ASSUME NEW z \in Passed(par, row, n)
             PROVE  z \in In(par) /\ z \in Nodes /\ (z = n \/ Precedes(par, row, z, n))
  OBVIOUS
<1>1. PICK y \in up[n] : par[z] = par[y] /\ row[z] <= row[y] /\ z \in Nodes
  BY DEF Passed
<1>2. y \in In(par) /\ (y = n \/ Precedes(par, row, y, n))
  BY AncestorFirst
<1>3. z \in In(par)
  BY <1>1, <1>2 DEF In
<1>4. row[z] \in Nat /\ row[y] \in Nat
  BY <1>2, <1>3, RowsType
<1>5. z = y \/ Precedes(par, row, z, y)
  BY <1>1, <1>2, <1>3, <1>4, WalkIs
<1> QED
  BY <1>1, <1>2, <1>3, <1>5, WalkIs

\* Rows q + 1 .. j of a list, when the climb from row j steps over each of them.
LEMMA CountPassed ==
    ASSUME NEW par, NEW row, IsTree(par), Numbered(par, row),
           NEW L, IsListing(par, L), WholeRows(par, L), NEW v, NEW c, IsList(par, row, v, c, L),
           NEW j \in 0 .. c - 1, NEW q \in -1 .. j - 1,
           \A k \in q + 1 .. j : v[k] \in Passed(par, row, v[j])
    PROVE  Cardinality({z \in Passed(par, row, v[j]) : q = -1 \/ Precedes(par, row, v[q], z)}) = j - q
<1>1. L \in SUBSET In(par) /\ c \in Nat /\ v[j] \in L
  BY DEF IsListing, IsList
<1>2. {z \in Passed(par, row, v[j]) : q = -1 \/ Precedes(par, row, v[q], z)} = Span(v, q + 1, j)
  <2>1. ASSUME NEW k \in q + 1 .. j
        PROVE  v[k] \in Passed(par, row, v[j]) /\ (q = -1 \/ Precedes(par, row, v[q], v[k]))
    <3>1. k \in 0 .. c - 1 /\ (q = -1 \/ q \in 0 .. c - 1) /\ q < k
      BY <1>1
    <3> QED
      BY <1>1, <3>1, ListOrder
  <2>2. ASSUME NEW z \in Passed(par, row, v[j]), q = -1 \/ Precedes(par, row, v[q], z)
        PROVE  z \in Span(v, q + 1, j)
    <3>1. z \in L /\ (z = v[j] \/ Precedes(par, row, z, v[j]))
      BY <1>1, PassedBehind
    <3>2. PICK k \in 0 .. c - 1 : v[k] = z
      BY <3>1 DEF IsList
    <3>3. k = j \/ k < j
      <4>1. /\ Precedes(par, row, v[k], v[j]) <=> k < j
            /\ v[k] = v[j] <=> k = j
        BY <1>1, <3>2, ListOrder
      <4> QED
        BY <3>1, <3>2, <4>1
    <3>4. q < k
      <4>1. CASE q = -1
        BY <1>1, <4>1
      <4>2. CASE q # -1
        <5>1. q \in 0 .. c - 1 /\ Precedes(par, row, v[q], v[k])
          BY <1>1, <2>2, <3>2, <4>2
        <5> QED
          BY <1>1, <5>1, ListOrder
      <4> QED
        BY <4>1, <4>2
    <3>5. k \in q + 1 .. j
      BY <1>1, <3>3, <3>4
    <3> QED
      BY <3>2, <3>5 DEF Span
  <2> QED
    BY <2>1, <2>2 DEF Span
<1>3. q + 1 \in Int /\ j \in Int /\ 0 <= q + 1 /\ j < c /\ q + 1 <= j + 1
  BY <1>1
<1>4. Cardinality(Span(v, q + 1, j)) = j - (q + 1) + 1
  BY <1>1, <1>3, SpanCount
<1> QED
  BY <1>2, <1>3, <1>4

----------------------------------------------------------------------------
(* Lists without repetition, and the last child of an index in a list.     *)

\* A list that has no row twice.
Distinct(v, c) == c \in Nat /\ DOMAIN v = 0 .. c - 1 /\ \A q, r \in 0 .. c - 1 : v[q] = v[r] => q = r

LEMMA ListDistinct ==
    ASSUME NEW par, NEW row, IsTree(par), Numbered(par, row),
           NEW L \in SUBSET In(par), NEW v, NEW c, IsList(par, row, v, c, L)
    PROVE  Distinct(v, c)
<1>1. DOMAIN v = 0 .. c - 1 /\ c \in Nat
  BY DEF IsList
<1>2. \A q, r \in 0 .. c - 1 : v[q] = v[r] => q = r
  BY ListOrder
<1> QED
  BY <1>1, <1>2 DEF Distinct

LEMMA MappedDomain ==
    ASSUME NEW v, NEW c, Distinct(v, c), NEW T, NEW m, MapsSet(m, v, T)
    PROVE  /\ DOMAIN m \subseteq 0 .. c - 1
           /\ \A r \in 0 .. c - 1 : r \in DOMAIN m <=> v[r] \in T
           /\ \A r \in DOMAIN m : m[r] = v[r]
  BY DEF MapsSet, Distinct

LEMMA MappedRowIs ==
    ASSUME NEW v, NEW c, Distinct(v, c), NEW T, NEW m, MapsSet(m, v, T),
           NEW r \in 0 .. c - 1, v[r] \in T
    PROVE  v[r] \in MappedIndexes(m) /\ MappedRow(m, v[r]) = r
<1>1. \A q \in DOMAIN m : m[q] = v[r] => q = r
  BY DEF MapsSet, Distinct
<1>2. r \in DOMAIN m /\ m[r] = v[r]
  BY MappedDomain
<1> QED
  BY <1>1, <1>2 DEF MappedRow, MappedIndexes

LEMMA MappedSet ==
    ASSUME NEW v, NEW c, Distinct(v, c), NEW T, NEW m, MapsSet(m, v, T), NEW x
    PROVE  x \in MappedIndexes(m) <=> x \in T /\ \E r \in 0 .. c - 1 : v[r] = x
  BY MappedDomain DEF MappedIndexes

LEMMA MappedEmpty ==
    ASSUME NEW v, NEW c, Distinct(v, c), NEW T, NEW m, MapsSet(m, v, T)
    PROVE  m = EmptyMapping <=> \A r \in 0 .. c - 1 : v[r] \notin T
<1>1. DOMAIN v = 0 .. c - 1
  BY DEF Distinct
<1>2. ASSUME \A r \in 0 .. c - 1 : v[r] \notin T PROVE m = EmptyMapping
  BY <1>1, <1>2 DEF MapsSet, EmptyMapping
<1>3. ASSUME NEW r \in 0 .. c - 1, v[r] \in T PROVE m # EmptyMapping
  BY <1>3, MappedDomain DEF EmptyMapping
<1> QED
  BY <1>2, <1>3

Under(par, p) == {n \in In(par) : p \in Ancestors(par)[par[n]] \cup {Root}}

\* e, the last child of p, is in row j of the list w of L, and all that is below p
\* is listed.
LastChildAt(L, w, c, p, e, j) ==
    /\ IsTree(srcParent) /\ Numbered(srcParent, srcRow)
    /\ IsListing(srcParent, L) /\ WholeRows(srcParent, L)
    /\ IsList(srcParent, srcRow, w, c, L)
    /\ p \in In(srcParent) \cup {Root} /\ hasChildren(p) /\ Under(srcParent, p) \subseteq L
    /\ e = index(rowCount(p) - 1, p)
    /\ j \in 0 .. c - 1 /\ w[j] = e

LEMMA LastChildFacts ==
    ASSUME NEW L, NEW w, NEW c, NEW p, NEW e, NEW j, LastChildAt(L, w, c, p, e, j)
    PROVE  /\ e \in L /\ e \in In(srcParent) /\ srcParent[e] = p
           /\ srcRow[e] = rowCount(p) - 1 /\ srcRow[e] \in Nat
           /\ e \in Lasts(srcParent, srcRow, L)
           /\ \A k \in L : srcParent[k] = p => srcRow[k] <= srcRow[e]
           /\ \A k \in Lasts(srcParent, srcRow, L) : srcParent[k] = p => k = e
           /\ c \in Nat /\ j \in Nat /\ L \in SUBSET In(srcParent)
<1>1. L \in SUBSET In(srcParent) /\ c \in Nat /\ e \in L /\ j \in Nat
  BY DEF LastChildAt, IsListing, IsList
<1>2. /\ srcParent[e] = p /\ srcRow[e] = rowCount(p) - 1
      /\ \A k \in Nodes : srcParent[k] = p => /\ srcRow[k] <= srcRow[e]
                                              /\ srcRow[k] = srcRow[e] => k = e
  BY LastChild DEF LastChildAt, In
<1>3. \A k \in In(srcParent) : srcRow[k] \in Nat /\ k \in Nodes
  BY RowsType DEF LastChildAt, In
<1>4. \A k \in L : srcParent[k] = p => srcRow[k] <= srcRow[e]
  BY <1>1, <1>2, <1>3
<1>5. ASSUME NEW k \in Lasts(srcParent, srcRow, L), srcParent[k] = p PROVE k = e
  <2>1. srcRow[e] <= srcRow[k] /\ k \in In(srcParent)
    BY <1>1, <1>2, <1>5 DEF Lasts, IsLast
  <2> QED
    BY <1>1, <1>2, <1>3, <1>5, <2>1
<1> QED
  BY <1>1, <1>2, <1>3, <1>4, <1>5 DEF Lasts, IsLast

\* No other last child lies between row q and e: the climb from e steps over all of it.
LEMMA ClimbFromEnd ==
    ASSUME NEW L, NEW w, NEW c, NEW p, NEW e, NEW j, LastChildAt(L, w, c, p, e, j),
           NEW q \in -1 .. j - 1,
           \A k \in q + 1 .. j : w[k] \in Lasts(srcParent, srcRow, L) => w[k] = e
    PROVE  Cardinality({z \in Passed(srcParent, srcRow, e) :
                           q = -1 \/ Precedes(srcParent, srcRow, w[q], z)}) = j - q
<1>1. /\ IsTree(srcParent) /\ Numbered(srcParent, srcRow)
      /\ IsListing(srcParent, L) /\ WholeRows(srcParent, L)
      /\ IsList(srcParent, srcRow, w, c, L) /\ j \in 0 .. c - 1 /\ w[j] = e
  BY DEF LastChildAt
<1>2. c \in Nat /\ j \in Nat /\ L \in SUBSET In(srcParent)
  BY LastChildFacts
<1>3. ASSUME NEW k \in q + 1 .. j PROVE w[k] \in Passed(srcParent, srcRow, w[j])
  <2>1. k \in 0 .. c - 1 /\ k <= j
    BY <1>1, <1>2
  <2>2. ASSUME NEW i \in 0 .. c - 1, k <= i, i < j PROVE ~IsLast(srcParent, srcRow, L, w[i])
    <3>1. i \in q + 1 .. j
      BY <1>1, <1>2, <2>1, <2>2
    <3>2. w[i] # e
      BY <1>1, <1>2, <2>2, ListOrder
    <3> QED
      BY <3>1, <3>2 DEF Lasts, IsLast
  <2> QED
    BY <1>1, <2>1, <2>2, NothingBetween
<1> QED
  BY <1>1, <1>2, <1>3, CountPassed

\* The last sibling of any listed row is mapped at or behind it, unless it is e.
LEMMA LastBehind ==
    ASSUME NEW L, NEW w, NEW c, NEW p, NEW e, NEW j, LastChildAt(L, w, c, p, e, j),
           NEW k \in 0 .. c - 1
    PROVE  \E l \in k .. c - 1 : /\ w[l] \in Lasts(srcParent, srcRow, L)
                                 /\ srcParent[w[l]] = srcParent[w[k]]
                                 /\ w[l] = w[k] \/ srcRow[w[k]] < srcRow[w[l]]
                                 /\ w[l] = e => k <= j
<1>1. /\ IsTree(srcParent) /\ Numbered(srcParent, srcRow)
      /\ IsList(srcParent, srcRow, w, c, L) /\ j \in 0 .. c - 1 /\ w[j] = e
      /\ L \in SUBSET In(srcParent) /\ c \in Nat
  BY LastChildFacts DEF LastChildAt
<1>2. w[k] \in L
  BY <1>1 DEF IsList
<1>3. PICK x \in L : /\ srcParent[x] = srcParent[w[k]] /\ IsLast(srcParent, srcRow, L, x)
                     /\ srcRow[w[k]] <= srcRow[x]
  BY <1>1, <1>2, LastSiblingExists
<1>4. PICK l \in 0 .. c - 1 : w[l] = x
  BY <1>1, <1>3 DEF IsList
<1>5. x = w[k] \/ (srcRow[w[k]] < srcRow[x] /\ Precedes(srcParent, srcRow, w[k], x))
  BY <1>1, <1>2, <1>3, WalkIs
<1>6. k <= l
  BY <1>1, <1>4, <1>5, ListOrder
<1>7. x = e => l = j
  BY <1>1, <1>4, ListOrder
<1> QED
  BY <1>1, <1>3, <1>4, <1>5, <1>6, <1>7 DEF Lasts

\* Where the climb from the row above leaves the branch of e: at a, beside b.
LEMMA BranchOfEnd ==
    ASSUME NEW L, NEW w, NEW c, NEW p, NEW e, NEW j, LastChildAt(L, w, c, p, e, j),
           NEW g \in 0 .. j - 1, w[g] \in Lasts(srcParent, srcRow, L),
           w[g] \notin Ancestors(srcParent)[p]
    PROVE  \E a \in Ancestors(srcParent)[srcParent[w[g]]], b \in Ancestors(srcParent)[e] :
              srcParent[a] = srcParent[b] /\ srcRow[a] < srcRow[b]
<1> DEFINE up == Ancestors(srcParent)
           P(x, y) == Precedes(srcParent, srcRow, x, y)
           u == w[g]
<1>1. IsTree(srcParent) /\ Numbered(srcParent, srcRow) /\ IsListing(srcParent, L)
      /\ WholeRows(srcParent, L) /\ IsList(srcParent, srcRow, w, c, L) /\ j \in 0 .. c - 1 /\ w[j] = e
  BY DEF LastChildAt
<1>2. /\ e \in In(srcParent) /\ srcParent[e] = p /\ j \in Nat /\ c \in Nat /\ L \in SUBSET In(srcParent)
      /\ e \in L
  BY LastChildFacts
<1>3. u \in In(srcParent) /\ P(u, e)
  <2>1. g \in 0 .. c - 1
    BY <1>1, <1>2
  <2>2. g < j
    BY <1>2
  <2>3. \A q, r \in 0 .. c - 1 : /\ Precedes(srcParent, srcRow, w[q], w[r]) <=> q < r
                                 /\ w[q] \in In(srcParent)
    BY <1>1, <1>2, ListOrder
  <2> QED
    BY <1>1, <2>1, <2>2, <2>3
<1>4. PICK a \in up[u], b \in up[e] : srcParent[a] = srcParent[b] /\ srcRow[a] < srcRow[b]
  BY <1>2, <1>3, BranchesApart
<1>5. a # u
  <2>1. b \in L
    BY <1>1, <1>2, <1>4, PassedBehind
  <2>2. a = u => srcRow[b] <= srcRow[a]
    BY <1>4, <2>1 DEF Lasts, IsLast
  <2>3. a \in In(srcParent) /\ b \in In(srcParent)
    BY <1>1, <1>2, <1>3, <1>4, AncestorsClosed
  <2>4. srcRow[a] \in Nat /\ srcRow[b] \in Nat
    BY <1>1, <2>3, RowsType
  <2> QED
    BY <1>4, <2>2, <2>4
<1>6. a \in up[srcParent[u]]
  BY <1>1, <1>3, <1>4, <1>5, AncestorsOfOne
<1> QED
  BY <1>4, <1>6

----------------------------------------------------------------------------
(* Entries of the mapping.                                                 *)

LEMMA AddEntry ==
    ASSUME NEW v, NEW c, Distinct(v, c), NEW T, NEW m, MapsSet(m, v, T), NEW k \in 0 .. c - 1
    PROVE  MapsSet(MapInsert(m, v[k], k), v, T \cup {v[k]})
<1> DEFINE dom == {q \in DOMAIN v : v[q] \in T \cup {v[k]}}
<1>1. {q \in DOMAIN m : m[q] # v[k]} \cup {k} = dom
  BY DEF MapsSet, Distinct
<1>2. \A q \in dom : (IF q = k THEN v[k] ELSE m[q]) = v[q]
  BY DEF MapsSet, Distinct
<1>3. MapInsert(m, v[k], k) = [q \in dom |-> IF q = k THEN v[k] ELSE m[q]]
  BY <1>1 DEF MapInsert
<1> HIDE DEF dom
<1>4. MapInsert(m, v[k], k) = [q \in dom |-> v[q]]
  BY <1>2, <1>3
<1> QED
  BY <1>4 DEF dom, MapsSet

LEMMA DropEntry ==
    ASSUME NEW v, NEW T, NEW m, MapsSet(m, v, T), NEW x
    PROVE  MapsSet(MapRemove(m, x), v, T \ {x})
<1>1. {q \in DOMAIN m : m[q] # x} = {q \in DOMAIN v : v[q] \in T \ {x}}
  BY DEF MapsSet
<1>2. \A q \in {q \in DOMAIN v : v[q] \in T \ {x}} : m[q] = v[q]
  BY DEF MapsSet
<1> QED
  BY <1>1, <1>2 DEF MapRemove, MapsSet

\* Rows a .. b go: their entries are erased and those below move up.
LEMMA EraseAndShift ==
    ASSUME NEW v, NEW c \in Nat, DOMAIN v = 0 .. c - 1, NEW T, NEW m, MapsSet(m, v, T),
           NEW a \in 0 .. c, NEW b \in Int, a <= b + 1, b < c
    PROVE  MapsSet(MapShift(MapErase(m, a, b), a, -(b - a + 1)), CutList(v, c, a, b), T)
<1> DEFINE d == b - a + 1
           e == MapErase(m, a, b)
           w == CutList(v, c, a, b)
           moved == {r \in DOMAIN e : r >= a}
           targets == {r + (-d) : r \in moved}
           kept == {r \in DOMAIN e : r < a} \ targets
           dom == {q \in DOMAIN w : w[q] \in T}
<1>1. /\ DOMAIN m = {q \in 0 .. c - 1 : v[q] \in T} /\ \A q \in DOMAIN m : m[q] = v[q]
  BY DEF MapsSet
<1>2. /\ DOMAIN e = {q \in 0 .. c - 1 : v[q] \in T /\ (q < a \/ q > b)}
      /\ \A q \in DOMAIN e : e[q] = v[q]
  <2>1. ~Overruns(m, a, b)
    BY <1>1 DEF Overruns
  <2> QED
    BY <1>1, <2>1 DEF MapErase
<1>3. d \in Nat /\ c - d \in Nat /\ a <= c - d
  OBVIOUS
<1>4. /\ DOMAIN w = 0 .. c - d - 1
      /\ \A r \in 0 .. c - d - 1 : w[r] = IF r < a THEN v[r] ELSE v[r + d]
  BY DEF CutList
<1> HIDE DEF w, e
<1>5. \A r \in moved : r > b /\ r \in 0 .. c - 1 /\ v[r] \in T
  BY <1>2
<1>6. \A r \in targets : r \in 0 .. c - d - 1 /\ a <= r /\ r + d \in moved
  <2> SUFFICES ASSUME NEW q \in moved PROVE q + (-d) \in 0 .. c - d - 1 /\ a <= q + (-d) /\ q + (-d) + d \in moved
    OBVIOUS
  <2>1. q > b /\ q \in 0 .. c - 1
    BY <1>5
  <2>2. q + (-d) + d = q
    BY <2>1
  <2> QED
    BY <2>1, <2>2
<1>7. \A r \in dom : a <= r => r \in targets
  <2> SUFFICES ASSUME NEW r \in dom, a <= r PROVE r \in targets
    OBVIOUS
  <2>1. r \in 0 .. c - d - 1 /\ v[r + d] \in T
    BY <1>4
  <2>2. r + d \in 0 .. c - 1 /\ r + d > b /\ r + d >= a /\ (r + d) + (-d) = r
    BY <1>3, <2>1
  <2>3. r + d \in moved
    BY <1>2, <2>1, <2>2
  <2> QED
    BY <2>2, <2>3
<1>8. kept \cup targets = dom
  <2>1. \A r \in targets : r \in dom
    <3> SUFFICES ASSUME NEW r \in targets PROVE r \in dom
      OBVIOUS
    <3>1. r \in 0 .. c - d - 1 /\ a <= r /\ v[r + d] \in T
      BY <1>5, <1>6
    <3> QED
      BY <1>4, <3>1
  <2>2. \A r \in kept : r \in dom
    <3> SUFFICES ASSUME NEW r \in kept PROVE r \in dom
      OBVIOUS
    <3>1. r < a /\ r \in 0 .. c - 1 /\ v[r] \in T
      BY <1>2
    <3>2. r \in 0 .. c - d - 1
      BY <1>3, <3>1
    <3> QED
      BY <1>4, <3>1, <3>2
  <2>3. \A r \in dom : r < a => r \in kept
    <3> SUFFICES ASSUME NEW r \in dom, r < a PROVE r \in kept
      OBVIOUS
    <3>1. r \in DOMAIN e
      BY <1>2, <1>3, <1>4
    <3>2. r \notin targets
      <4>1. \A t \in targets : t \in Int /\ a <= t
        <5> HIDE DEF targets
        <5> QED
          BY <1>6
      <4>2. r \in Int /\ a \in Int
        BY <1>4
      <4> HIDE DEF targets, dom
      <4> QED
        BY <2>3, <4>1, <4>2
    <3> QED
      BY <3>1, <3>2
  <2>4. \A r \in dom : r < a \/ a <= r
    BY <1>4
  <2> QED
    BY <1>7, <2>1, <2>2, <2>3, <2>4
<1>9. \A r \in dom : (IF r \in targets THEN e[r - (-d)] ELSE e[r]) = w[r]
  <2> SUFFICES ASSUME NEW r \in dom PROVE (IF r \in targets THEN e[r - (-d)] ELSE e[r]) = w[r]
    OBVIOUS
  <2>1. CASE r \in targets
    <3>1. r \in 0 .. c - d - 1 /\ a <= r /\ r + d \in DOMAIN e /\ r - (-d) = r + d
      BY <1>3, <1>6, <2>1
    <3>2. e[r + d] = v[r + d] /\ w[r] = v[r + d]
      BY <1>2, <1>4, <3>1
    <3> QED
      BY <2>1, <3>1, <3>2
  <2>2. CASE r \notin targets
    <3>1. r \in kept
      BY <1>8, <2>2
    <3>2. r \in DOMAIN e /\ r < a /\ r \in 0 .. c - d - 1
      BY <1>4, <3>1
    <3> QED
      BY <1>2, <1>4, <2>2, <3>2
  <2> QED
    BY <2>1, <2>2
<1>10. MapShift(e, a, -d) = [r \in kept \cup targets |-> IF r \in targets THEN e[r - (-d)] ELSE e[r]]
  BY DEF MapShift
<1> HIDE DEF targets, kept, dom
<1>11. MapShift(e, a, -d) = [r \in dom |-> w[r]]
  BY <1>8, <1>9, <1>10
<1> QED
  BY <1>11 DEF MapsSet, dom, w, e

----------------------------------------------------------------------------
(* The children of an index.                                               *)

RowsIn(par, row, p, first, last) == {n \in In(par) : par[n] = p /\ row[n] \in first .. last}

LEMMA ChildList ==
    ASSUME IsTree(srcParent), Numbered(srcParent, srcRow),
           NEW p \in In(srcParent) \cup {Root}, NEW first \in Nat, NEW last \in Nat,
           first <= last, last < rowCount(p)
    PROVE  LET new == [k \in 0 .. last - first |-> index(first + k, p)]
           IN  /\ IsList(srcParent, srcRow, new, last - first + 1,
                         RowsIn(srcParent, srcRow, p, first, last))
               /\ \A k \in 0 .. last - first : srcRow[new[k]] = first + k
<1> DEFINE new == [k \in 0 .. last - first |-> index(first + k, p)]
           X == RowsIn(srcParent, srcRow, p, first, last)
<1>1. p \in Nodes \cup {Root} /\ rowCount(p) \in Nat
  BY RowCountType DEF In
<1>2. ASSUME NEW k \in 0 .. last - first
      PROVE  new[k] \in X /\ srcRow[new[k]] = first + k
  <2>1. first + k \in 0 .. rowCount(p) - 1 /\ first + k \in first .. last
    BY <1>1
  <2>2. index(first + k, p) \in Children(p) /\ srcRow[index(first + k, p)] = first + k
    BY <1>1, <2>1, IndexExists
  <2>3. index(first + k, p) \in In(srcParent)
    BY <2>2, NodesAssumption DEF Children, In
  <2> QED
    BY <2>1, <2>2, <2>3 DEF RowsIn, Children
<1>3. ASSUME NEW x \in X PROVE \E k \in 0 .. last - first : new[k] = x
  <2>1. x \in In(srcParent) /\ srcParent[x] = p /\ srcRow[x] \in first .. last
    BY DEF RowsIn
  <2>2. srcRow[x] - first \in 0 .. last - first /\ first + (srcRow[x] - first) = srcRow[x]
    BY <2>1
  <2>3. /\ new[srcRow[x] - first] \in X
        /\ srcRow[new[srcRow[x] - first]] = srcRow[x]
    BY <1>2, <2>2
  <2>4. new[srcRow[x] - first] = x
    BY <2>1, <2>3, RowsType DEF RowsIn
  <2> QED
    BY <2>2, <2>4
<1>4. ASSUME NEW q \in 0 .. last - first, NEW r \in 0 .. last - first, q < r
      PROVE  Precedes(srcParent, srcRow, new[q], new[r])
  <2>1. new[q] \in X /\ new[r] \in X /\ srcRow[new[q]] < srcRow[new[r]]
    BY <1>2, <1>4
  <2> HIDE DEF new
  <2> QED
    BY <2>1, WalkIs DEF RowsIn
<1>5. DOMAIN new = 0 .. last - first + 1 - 1 /\ last - first + 1 \in Nat
  OBVIOUS
<1>6. 0 .. last - first + 1 - 1 = 0 .. last - first
  OBVIOUS
<1> HIDE DEF new, X
<1>7. IsList(srcParent, srcRow, new, last - first + 1, X)
  BY <1>2, <1>3, <1>4, <1>5, <1>6 DEF IsList
<1> QED
  BY <1>2, <1>7 DEF new, X

----------------------------------------------------------------------------
(* What is listed, and where.                                              *)

\* The rows of the list while those of the parents Q are still to come: below
\* expanded indexes only, and below none of Q.
ListedIn(par, E, Q) ==
    {n \in In(par) : /\ Ancestors(par)[par[n]] \subseteq E
                     /\ (Ancestors(par)[par[n]] \cup {Root}) \cap Q = {}}

LEMMA ListedFacts ==
    ASSUME NEW par, IsTree(par), NEW E, NEW Q
    PROVE  IsListing(par, ListedIn(par, E, Q)) /\ WholeRows(par, ListedIn(par, E, Q))
<1> DEFINE L == ListedIn(par, E, Q)
           up == Ancestors(par)
<1>1. ASSUME NEW n \in L PROVE par[n] \in L \cup {Root}
  <2>1. n \in In(par) /\ up[par[n]] \subseteq E /\ (up[par[n]] \cup {Root}) \cap Q = {}
    BY DEF ListedIn
  <2>2. CASE par[n] = Root
    BY <2>2
  <2>3. CASE par[n] # Root
    <3>1. par[n] \in In(par)
      BY <2>1, <2>3, AncestorsOfOne
    <3>2. up[par[par[n]]] \subseteq up[par[n]]
      BY <3>1, AncestorsOfOne
    <3> QED
      BY <2>1, <3>1, <3>2 DEF ListedIn
  <2> QED
    BY <2>2, <2>3
<1>2. ASSUME NEW n \in L, NEW k \in Nodes, par[k] = par[n] PROVE k \in L
  BY <1>2 DEF ListedIn, In
<1>3. L \in SUBSET In(par)
  BY DEF ListedIn
<1> QED
  BY <1>1, <1>2, <1>3 DEF IsListing, WholeRows

\* The nodes in rows first .. last of p, and everything below them.
BelowRows(par, row, p, first, last) ==
    {n \in In(par) : Ancestors(par)[n] \cap RowsIn(par, row, p, first, last) # {}}

\* n comes before row k of p.
Ahead(par, row, n, p, k) ==
    \/ n \in Ancestors(par)[p]
    \/ \E a \in Ancestors(par)[n] : par[a] = p /\ row[a] < k
    \/ \E a \in Ancestors(par)[n], b \in Ancestors(par)[p] : par[a] = par[b] /\ row[a] < row[b]

LEMMA AheadOfChild ==
    ASSUME NEW par, NEW row, IsTree(par), NEW x \in In(par), NEW n \in In(par)
    PROVE  Ahead(par, row, n, par[x], row[x]) <=> Precedes(par, row, n, x)
<1> DEFINE up == Ancestors(par)
<1>1. up[x] = {x} \cup up[par[x]]
  BY AncestorsOfOne
<1> QED
  BY <1>1 DEF Ahead, Precedes

\* Rows up to the end of what is below e come before the row after e.
LEMMA AheadOfNext ==
    ASSUME NEW par, NEW row, IsTree(par), Numbered(par, row),
           NEW e \in In(par), NEW z \in In(par), e \in Ancestors(par)[z], NEW n \in In(par)
    PROVE  /\ n = z \/ Precedes(par, row, n, z) => Ahead(par, row, n, par[e], row[e] + 1)
           /\ Ahead(par, row, n, par[e], row[e] + 1) => e \in Ancestors(par)[n] \/ Precedes(par, row, n, z)
           /\ e \in Ancestors(par)[n] => Ahead(par, row, n, par[e], row[e] + 1)
<1> DEFINE up == Ancestors(par)
           p == par[e]
<1>1. /\ up[Root] = {}
      /\ \A i \in In(par) : up[i] = {i} \cup up[par[i]] /\ row[i] \in Nat /\ i \notin up[par[i]]
                            /\ par[i] \in In(par) \cup {Root}
  BY AncestorsOfOne, RowsType, NoCycle
<1>2. e \in up[n] => Ahead(par, row, n, p, row[e] + 1)
  BY <1>1 DEF Ahead
<1>3. up[e] \subseteq up[z] /\ up[p] \subseteq up[e]
  BY <1>1, AncestorsTransitive
<1>4. ASSUME n \in up[z] PROVE Ahead(par, row, n, p, row[e] + 1)
  <2>1. n \in up[e] \/ e \in up[n]
    BY <1>4, AncestorsChain
  <2>2. CASE n \in up[e]
    BY <1>1, <1>2, <2>2 DEF Ahead
  <2> QED
    BY <1>2, <2>1, <2>2
<1>5. ASSUME n = z \/ Precedes(par, row, n, z) PROVE Ahead(par, row, n, p, row[e] + 1)
  <2>1. CASE n \in up[z]
    BY <1>4, <2>1
  <2>2. CASE n \notin up[z]
    <3>1. Precedes(par, row, n, z) /\ n \notin up[par[z]]
      BY <1>1, <1>5, <2>2
    <3>2. PICK a \in up[n], b \in up[z] : par[a] = par[b] /\ row[a] < row[b]
      BY <3>1, BranchesApart
    <3>3. a \in In(par) /\ b \in In(par)
      BY <3>2, AncestorsClosed
    <3>4. b \in up[e] \/ e \in up[b]
      BY <3>2, AncestorsChain
    <3>5. CASE b = e
      <4>1. row[a] < row[e] + 1 /\ par[a] = p
        BY <1>1, <3>2, <3>3, <3>5
      <4> QED
        BY <3>2, <4>1 DEF Ahead
    <3>6. CASE b # e /\ b \in up[e]
      <4>1. b \in up[p]
        BY <1>1, <3>6
      <4> QED
        BY <3>2, <4>1 DEF Ahead
    <3>7. CASE b # e /\ e \in up[b]
      <4>1. e \in up[par[a]]
        BY <1>1, <3>2, <3>3, <3>7
      <4>2. e \in up[a] /\ up[a] \subseteq up[n]
        BY <1>1, <3>2, <3>3, <4>1, AncestorsTransitive
      <4> QED
        BY <1>2, <4>2
    <3> QED
      BY <3>4, <3>5, <3>6, <3>7
  <2> QED
    BY <2>1, <2>2
<1>6. ASSUME Ahead(par, row, n, p, row[e] + 1), e \notin up[n] PROVE Precedes(par, row, n, z)
  <2>1. CASE n \in up[p]
    <3>1. n \in up[z] /\ n # e
      BY <1>1, <1>3, <2>1
    <3>2. e \in up[par[z]] \/ e = z
      BY <1>1
    <3>3. n \in up[par[z]]
      <4>1. CASE e = z
        BY <2>1, <4>1
      <4>2. CASE e \in up[par[z]]
        <5>1. up[e] \subseteq up[par[z]]
          BY <1>1, <4>2, AncestorsTransitive
        <5> QED
          BY <1>3, <2>1, <5>1
      <4> QED
        BY <3>2, <4>1, <4>2
    <3> QED
      BY <3>3 DEF Precedes
  <2>2. CASE \E a \in up[n] : par[a] = p /\ row[a] < row[e] + 1
    <3>1. PICK a \in up[n] : par[a] = p /\ row[a] < row[e] + 1
      BY <2>2
    <3>2. a \in In(par) /\ a # e
      BY <1>6, <3>1, AncestorsClosed
    <3>3. row[a] < row[e]
      <4>1. row[a] # row[e]
        BY <3>1, <3>2, RowsType
      <4> QED
        BY <1>1, <3>1, <3>2, <4>1
    <3> QED
      BY <3>1, <3>3 DEF Precedes
  <2>3. CASE \E a \in up[n], b \in up[p] : par[a] = par[b] /\ row[a] < row[b]
    BY <1>3, <2>3 DEF Precedes
  <2> QED
    BY <1>6, <2>1, <2>2, <2>3 DEF Ahead
<1> QED
  BY <1>2, <1>5, <1>6

\* Outside rows first .. last of p, what comes before them comes before row first.
LEMMA AheadOfRows ==
    ASSUME NEW par, NEW row, IsTree(par), Numbered(par, row), NEW p, NEW first \in Nat, NEW last \in Nat,
           NEW x \in RowsIn(par, row, p, first, last), NEW n \in In(par),
           n \notin BelowRows(par, row, p, first, last)
    PROVE  /\ Ahead(par, row, n, p, first) => Precedes(par, row, n, x)
           /\ ~Ahead(par, row, n, p, first) => Precedes(par, row, x, n)
<1> DEFINE up == Ancestors(par)
<1>1. x \in In(par) /\ par[x] = p /\ row[x] \in first .. last
  BY DEF RowsIn
<1>2. /\ \A i \in In(par) : up[i] = {i} \cup up[par[i]] /\ row[i] \in Nat /\ i \in up[i]
  BY AncestorsOfOne, RowsType
<1>3. up[n] \cap RowsIn(par, row, p, first, last) = {}
  BY DEF BelowRows
<1>4. Ahead(par, row, n, p, first) <=> Precedes(par, row, n, x)
  <2>1. ASSUME NEW a \in up[n], par[a] = p PROVE row[a] < first <=> row[a] < row[x]
    <3>1. a \in In(par) /\ row[a] \notin first .. last /\ row[a] \in Nat
      BY <1>2, <1>3, <2>1, AncestorsClosed DEF RowsIn
    <3> QED
      BY <1>1, <3>1
  <2>2. Ahead(par, row, n, p, first) <=> Ahead(par, row, n, p, row[x])
    BY <2>1 DEF Ahead
  <2> QED
    BY <1>1, <2>2, AheadOfChild
<1>5. n # x
  BY <1>2, <1>3
<1> QED
  BY <1>1, <1>4, <1>5, WalkIs

\* What is not below p comes before the children of p when it is p or comes before p.
LEMMA AheadOfChildren ==
    ASSUME NEW par, NEW row, IsTree(par), Numbered(par, row), NEW p \in In(par),
           NEW x \in In(par), par[x] = p, NEW n \in In(par), p \notin Ancestors(par)[par[n]]
    PROVE  /\ n = p \/ Precedes(par, row, n, p) => Precedes(par, row, n, x)
           /\ Precedes(par, row, p, n) => Precedes(par, row, x, n)
<1> DEFINE up == Ancestors(par)
<1>1. \A i \in In(par) : up[i] = {i} \cup up[par[i]]
  BY AncestorsOfOne
<1>2. Precedes(par, row, p, x)
  BY <1>1 DEF Precedes
<1>3. ASSUME Precedes(par, row, p, n) PROVE Precedes(par, row, x, n)
  <2>1. PICK a \in up[p], b \in up[n] : par[a] = par[b] /\ row[a] < row[b]
    BY <1>3, BranchesApart
  <2>2. a \in up[x]
    BY <1>1, <2>1
  <2> QED
    BY <2>1, <2>2 DEF Precedes
<1> QED
  BY <1>2, <1>3, WalkIs

----------------------------------------------------------------------------
(* The last children of a list that grows.                                 *)

LEMMA LastsWithChildren ==
    ASSUME IsTree(srcParent), Numbered(srcParent, srcRow),
           NEW L \in SUBSET In(srcParent), NEW p \in In(srcParent) \cup {Root}, hasChildren(p),
           \A n \in L : srcParent[n] # p
    PROVE  Lasts(srcParent, srcRow, L \cup Children(p))
             = Lasts(srcParent, srcRow, L) \cup {index(rowCount(p) - 1, p)}
<1> DEFINE e == index(rowCount(p) - 1, p)
           M == L \cup Children(p)
<1>1. p \in Nodes \cup {Root}
  BY DEF In
<1>2. /\ e \in Nodes /\ srcParent[e] = p
      /\ \A k \in Nodes : srcParent[k] = p => /\ srcRow[k] <= srcRow[e]
                                              /\ srcRow[e] <= srcRow[k] => k = e
  <2>1. /\ e \in Nodes /\ srcParent[e] = p
        /\ \A k \in Nodes : srcParent[k] = p => /\ srcRow[k] \in Nat /\ srcRow[k] <= srcRow[e]
                                                /\ srcRow[k] = srcRow[e] => k = e
    BY <1>1, LastChild
  <2>2. srcRow[e] \in Nat
    BY <2>1
  <2> HIDE DEF e
  <2> QED
    BY <2>1, <2>2
<1> HIDE DEF e
<1>3. ASSUME NEW n \in M PROVE IsLast(srcParent, srcRow, M, n) <=> IsLast(srcParent, srcRow, L, n) \/ n = e
  <2>1. CASE n \in L
    BY <1>2, <2>1 DEF IsLast, Children
  <2>2. CASE n \in Children(p)
    <3>1. n \notin L /\ srcParent[n] = p /\ n \in Nodes /\ e \in Children(p)
      BY <1>2, <2>2 DEF Children
    <3>2. ~IsLast(srcParent, srcRow, L, n)
      BY <3>1 DEF IsLast
    <3>3. IsLast(srcParent, srcRow, M, n) => n = e
      BY <1>2, <3>1 DEF IsLast
    <3>4. \A k \in M : srcParent[k] = p => k \in Nodes
      BY DEF In, Children
    <3>5. n = e => IsLast(srcParent, srcRow, M, n)
      BY <1>2, <3>1, <3>4 DEF IsLast
    <3> QED
      BY <3>2, <3>3, <3>5
  <2> QED
    BY <2>1, <2>2
<1>4. e \in M
  BY <1>2 DEF Children
<1>5. Lasts(srcParent, srcRow, M) = Lasts(srcParent, srcRow, L) \cup {e}
  <2>1. \A n : n \in L => n \in M
    OBVIOUS
  <2> HIDE DEF M
  <2>2. ASSUME NEW n PROVE n \in Lasts(srcParent, srcRow, M) <=> n \in Lasts(srcParent, srcRow, L) \/ n = e
    BY <1>3, <1>4, <2>1 DEF Lasts, IsLast
  <2> QED
    BY <2>2
<1> QED
  BY <1>5 DEF e

\* Rows first .. last are added to the other rows of p.
LEMMA LastsWithRows ==
    ASSUME IsTree(srcParent), Numbered(srcParent, srcRow),
           NEW L \in SUBSET In(srcParent), NEW p \in In(srcParent) \cup {Root},
           NEW first \in Nat, NEW last \in Nat, first <= last, last < rowCount(p),
           \A n \in Children(p) : n \in L <=> ~(first <= srcRow[n] /\ srcRow[n] <= last),
           0 < first \/ last # rowCount(p) - 1,
           NEW M, M = L \cup RowsIn(srcParent, srcRow, p, first, last)
    PROVE  /\ last # rowCount(p) - 1 => Lasts(srcParent, srcRow, M) = Lasts(srcParent, srcRow, L)
           /\ last = rowCount(p) - 1 =>
                 \A n : n \in Lasts(srcParent, srcRow, M) <=>
                           \/ n \in Lasts(srcParent, srcRow, L) /\ n # index(first - 1, p)
                           \/ n = index(last, p)
<1> DEFINE X == RowsIn(srcParent, srcRow, p, first, last)
           N == rowCount(p)
<1>1. p \in Nodes \cup {Root} /\ N \in Nat
  BY RowCountType DEF In
<1>2. /\ \A n \in Children(p) : n \in In(srcParent) /\ srcParent[n] = p /\ srcRow[n] \in 0 .. N - 1
      /\ \A n \in In(srcParent) : srcParent[n] = p => n \in Children(p)
      /\ \A m, n \in Children(p) : srcRow[m] = srcRow[n] => m = n
      /\ \A r \in 0 .. N - 1 : index(r, p) \in Children(p) /\ srcRow[index(r, p)] = r
  <2>1. \A n \in Children(p) : n \in In(srcParent) /\ srcParent[n] = p
    BY <1>1, NodesAssumption DEF Children, In
  <2>2. \A n \in In(srcParent) : srcParent[n] = p => n \in Children(p)
    BY DEF Children, In
  <2>3. \A q \in Nodes \cup {Root} : \A n \in Children(q) : srcRow[n] \in 0 .. rowCount(q) - 1
    BY DEF Numbered, Children, rowCount
  <2>4. \A m, n \in Children(p) : srcRow[m] = srcRow[n] => m = n
    BY <2>1, RowsType
  <2>5. \A r \in 0 .. N - 1 : index(r, p) \in Children(p) /\ srcRow[index(r, p)] = r
    BY <1>1, IndexExists
  <2> QED
    BY <1>1, <2>1, <2>2, <2>3, <2>4, <2>5
<1>0. \A n \in Children(p) : n \in L <=> srcRow[n] \notin first .. last
  BY <1>2
<1>3. X = {n \in Children(p) : srcRow[n] \in first .. last}
  BY <1>2 DEF RowsIn
<1>4. \A n \in L : srcParent[n] # p => (IsLast(srcParent, srcRow, M, n) <=> IsLast(srcParent, srcRow, L, n))
  BY <1>2, <1>3 DEF IsLast
<1>5. \A n \in M : srcParent[n] = p <=> n \in Children(p)
  BY <1>2, <1>3
<1>6. Children(p) \subseteq M
  BY <1>0, <1>3
<1>7. ASSUME NEW n \in Children(p) PROVE IsLast(srcParent, srcRow, M, n) <=> srcRow[n] = N - 1
  <2>1. N - 1 \in 0 .. N - 1
    BY <1>1, <1>2
  <2>2. index(N - 1, p) \in M /\ srcParent[index(N - 1, p)] = p /\ srcRow[index(N - 1, p)] = N - 1
    BY <1>2, <1>6, <2>1
  <2>3. srcRow[n] \in 0 .. N - 1 /\ n \in M /\ srcParent[n] = p
    BY <1>2, <1>6
  <2>4. IsLast(srcParent, srcRow, M, n) => srcRow[n] = N - 1
    BY <1>1, <2>2, <2>3 DEF IsLast
  <2>5. srcRow[n] = N - 1 => IsLast(srcParent, srcRow, M, n)
    BY <1>1, <1>2, <1>5, <2>3 DEF IsLast
  <2> QED
    BY <2>4, <2>5
<1>8. CASE last # N - 1
  <2>1. ASSUME NEW n \in Children(p) PROVE IsLast(srcParent, srcRow, L, n) <=> srcRow[n] = N - 1
    <3>1. N - 1 \in 0 .. N - 1 /\ N - 1 \notin first .. last
      BY <1>1, <1>2, <1>8
    <3>2. index(N - 1, p) \in L /\ srcParent[index(N - 1, p)] = p /\ srcRow[index(N - 1, p)] = N - 1
      BY <1>2, <3>1
    <3>3. srcRow[n] \in 0 .. N - 1 /\ srcParent[n] = p
      BY <1>2
    <3>4. IsLast(srcParent, srcRow, L, n) => srcRow[n] = N - 1
      BY <1>1, <3>2, <3>3 DEF IsLast
    <3>5. srcRow[n] = N - 1 => n \in L
      BY <3>1
    <3>6. \A k \in L : srcParent[k] = p => srcRow[k] \in 0 .. N - 1
      BY <1>2
    <3>7. srcRow[n] = N - 1 => IsLast(srcParent, srcRow, L, n)
      BY <1>1, <3>3, <3>5, <3>6 DEF IsLast
    <3> QED
      BY <3>4, <3>7
  <2>2. Lasts(srcParent, srcRow, M) = Lasts(srcParent, srcRow, L)
    <3>1. \A n \in M : IsLast(srcParent, srcRow, M, n) <=> IsLast(srcParent, srcRow, L, n)
      BY <1>3, <1>4, <1>5, <1>7, <2>1
    <3>2. \A n \in M : IsLast(srcParent, srcRow, L, n) => n \in L
      BY DEF IsLast
    <3> QED
      BY <3>1, <3>2 DEF Lasts
  <2> QED
    BY <1>8, <2>2
<1>9. CASE last = N - 1
  <2>1. first - 1 \in 0 .. N - 1 /\ first - 1 \notin first .. last /\ last \in 0 .. N - 1
    BY <1>1, <1>9
  <2> DEFINE o == index(first - 1, p)
             e == index(last, p)
  <2>2. /\ o \in L /\ o \in Children(p) /\ srcRow[o] = first - 1 /\ e \in Children(p) /\ srcRow[e] = N - 1
    BY <1>2, <1>9, <2>1
  <2> HIDE DEF o, e
  <2>3. ASSUME NEW n \in Children(p) PROVE n \in L /\ IsLast(srcParent, srcRow, L, n) <=> n = o
    <3>1. srcRow[n] \in 0 .. N - 1 /\ srcParent[n] = p /\ srcParent[o] = p
      BY <1>2, <2>2
    <3>2. n \in L => srcRow[n] <= first - 1
      BY <1>1, <1>9, <3>1
    <3>3. n \in L /\ IsLast(srcParent, srcRow, L, n) => srcRow[n] = first - 1
      BY <2>2, <3>1, <3>2 DEF IsLast
    <3>4. \A k \in L : srcParent[k] = p => srcRow[k] \in 0 .. N - 1 /\ srcRow[k] \notin first .. last
      BY <1>2
    <3>5. \A k \in L : srcParent[k] = p => srcRow[k] <= first - 1
      BY <1>1, <1>9, <3>4
    <3>6. IsLast(srcParent, srcRow, L, o)
      BY <2>2, <3>1, <3>5 DEF IsLast
    <3> QED
      BY <1>2, <2>2, <3>3, <3>6
  <2>4. \A n \in Children(p) : srcRow[n] = N - 1 <=> n = e
    BY <1>2, <2>2
  <2>5. ASSUME NEW n PROVE n \in Lasts(srcParent, srcRow, M) <=> (n \in Lasts(srcParent, srcRow, L) /\ n # o) \/ n = e
    <3>1. CASE n \in Children(p)
      BY <1>6, <1>7, <2>3, <2>4, <3>1 DEF Lasts
    <3>2. CASE n \notin Children(p)
      <4>1. n # o /\ n # e
        BY <2>2, <3>2
      <4>2. n \in M <=> n \in L
        BY <1>3, <3>2
      <4>3. n \in M => srcParent[n] # p
        BY <1>5, <3>2
      <4> QED
        BY <1>4, <4>1, <4>2, <4>3 DEF Lasts
    <3> QED
      BY <3>1, <3>2
  <2>6. Lasts(srcParent, srcRow, M) = (Lasts(srcParent, srcRow, L) \ {o}) \cup {e}
    BY <2>5
  <2> QED
    BY <1>9, <2>6 DEF o, e
<1> QED
  BY <1>8, <1>9

----------------------------------------------------------------------------
(* Parents whose rows are still to come.                                   *)

QueueOf(s) == {s[k] : k \in DOMAIN s}

\* No parent on the list is below another: each is shown or is the root, alone.
Apart(par, E, s) ==
    /\ \A k \in DOMAIN s : s[k] \in In(par) \cup {Root} /\ s[k] \in E \cup {Root}
    /\ \A j, k \in DOMAIN s : j # k => s[j] \notin Ancestors(par)[s[k]] \cup {Root}

\* Nothing but c rows.
IsRows(v, c) == v = [r \in 0 .. c - 1 |-> v[r]]

\* The rows are those of L, in some order.
Holds(v, c, L) == DOMAIN v = 0 .. c - 1 /\ L = {v[r] : r \in 0 .. c - 1} /\ c = Cardinality(L)

LEMMA NoQueue == QueueOf(<<>>) = {} /\ \A par, E : Apart(par, E, <<>>)
BY DEF QueueOf, Apart

LEMMA TailApart ==
    ASSUME NEW par, NEW E, NEW s, s \in Seq(Nodes \cup {Root}), s # <<>>, Apart(par, E, s)
    PROVE  Apart(par, E, Tail(s))
<1>1. /\ \A k \in DOMAIN Tail(s) : k + 1 \in DOMAIN s /\ Tail(s)[k] = s[k + 1]
      /\ \A j, k \in DOMAIN Tail(s) : j # k => j + 1 # k + 1
  OBVIOUS
<1>2. \A k \in DOMAIN Tail(s) : Tail(s)[k] \in In(par) \cup {Root} /\ Tail(s)[k] \in E \cup {Root}
  BY <1>1 DEF Apart
<1>3. ASSUME NEW j \in DOMAIN Tail(s), NEW k \in DOMAIN Tail(s), j # k
      PROVE  Tail(s)[j] \notin Ancestors(par)[Tail(s)[k]] \cup {Root}
  <2>1. j + 1 \in DOMAIN s /\ k + 1 \in DOMAIN s /\ j + 1 # k + 1
    BY <1>1, <1>3
  <2>2. Tail(s)[j] = s[j + 1] /\ Tail(s)[k] = s[k + 1]
    BY <1>1
  <2> QED
    BY <2>1, <2>2 DEF Apart
<1> QED
  BY <1>2, <1>3 DEF Apart

LEMMA ConcatApart ==
    ASSUME NEW par, NEW E, NEW s \in Seq(Nodes \cup {Root}), NEW t \in Seq(Nodes \cup {Root}),
           Apart(par, E, s), Apart(par, E, t),
           \A x \in QueueOf(s), y \in QueueOf(t) :
              x \notin Ancestors(par)[y] \cup {Root} /\ y \notin Ancestors(par)[x] \cup {Root}
    PROVE  /\ Apart(par, E, s \o t)
           /\ QueueOf(s \o t) = QueueOf(s) \cup QueueOf(t)
<1> DEFINE u == s \o t
           N == Len(s)
<1>1. /\ N \in Nat /\ DOMAIN s = 1 .. N /\ DOMAIN u = 1 .. N + Len(t) /\ DOMAIN t = 1 .. Len(t)
      /\ Len(t) \in Nat
      /\ \A k \in DOMAIN u : k <= N => k \in DOMAIN s /\ u[k] = s[k]
      /\ \A k \in DOMAIN u : k > N => k - N \in DOMAIN t /\ u[k] = t[k - N]
      /\ \A k \in DOMAIN s : k \in DOMAIN u /\ u[k] = s[k]
      /\ \A k \in DOMAIN t : k + N \in DOMAIN u /\ u[k + N] = t[k]
  <2>1. N \in Nat /\ Len(t) \in Nat /\ DOMAIN s = 1 .. N /\ DOMAIN t = 1 .. Len(t) /\ DOMAIN u = 1 .. N + Len(t)
    OBVIOUS
  <2>2. \A k \in 1 .. N + Len(t) : u[k] = IF k <= N THEN s[k] ELSE t[k - N]
    OBVIOUS
  <2>3. \A k \in DOMAIN u : k > N => k - N \in DOMAIN t
    BY <2>1
  <2>4. \A k \in DOMAIN t : k + N \in DOMAIN u /\ ~(k + N <= N) /\ k + N - N = k
    BY <2>1
  <2> HIDE DEF u, N
  <2>5. \A k \in DOMAIN u : k > N => u[k] = t[k - N]
    BY <2>1, <2>2
  <2>6. \A k \in DOMAIN u : k <= N => k \in DOMAIN s /\ u[k] = s[k]
    BY <2>1, <2>2
  <2>7. \A k \in DOMAIN s : k \in DOMAIN u /\ k <= N
    BY <2>1
  <2>8. \A k \in DOMAIN t : u[k + N] = t[k]
    BY <2>1, <2>2, <2>4
  <2> QED
    BY <2>1, <2>3, <2>4, <2>5, <2>6, <2>7, <2>8
<1> HIDE DEF u, N
<1>2. QueueOf(u) = QueueOf(s) \cup QueueOf(t)
  <2>1. \A k \in DOMAIN u : u[k] \in QueueOf(s) \cup QueueOf(t)
    <3>1. ASSUME NEW k \in DOMAIN u PROVE u[k] \in QueueOf(s) \cup QueueOf(t)
      <4>1. k <= N \/ k > N
        BY <1>1
      <4> QED
        BY <1>1, <4>1 DEF QueueOf
    <3> QED
      BY <3>1
  <2>2. \A k \in DOMAIN s : s[k] \in QueueOf(u)
    BY <1>1 DEF QueueOf
  <2>3. \A k \in DOMAIN t : t[k] \in QueueOf(u)
    BY <1>1 DEF QueueOf
  <2>4. \A x : x \in QueueOf(u) => x \in QueueOf(s) \cup QueueOf(t)
    BY <2>1 DEF QueueOf
  <2>5. \A x : x \in QueueOf(s) => x \in QueueOf(u)
    BY <2>2 DEF QueueOf
  <2>6. \A x : x \in QueueOf(t) => x \in QueueOf(u)
    BY <2>3 DEF QueueOf
  <2> QED
    BY <2>4, <2>5, <2>6
<1>3. \A k \in DOMAIN u : u[k] \in In(par) \cup {Root} /\ u[k] \in E \cup {Root}
  <2> SUFFICES ASSUME NEW k \in DOMAIN u PROVE u[k] \in In(par) \cup {Root} /\ u[k] \in E \cup {Root}
    OBVIOUS
  <2>1. k <= N \/ k > N
    BY <1>1
  <2> QED
    BY <1>1, <2>1 DEF Apart
<1>4. ASSUME NEW j \in DOMAIN u, NEW k \in DOMAIN u, j # k
      PROVE  u[j] \notin Ancestors(par)[u[k]] \cup {Root}
  <2>1. (j <= N \/ j > N) /\ (k <= N \/ k > N) /\ j - N # k - N
    BY <1>1, <1>4
  <2>2. CASE j <= N /\ k <= N
    BY <1>1, <1>4, <2>2 DEF Apart
  <2>3. CASE j > N /\ k > N
    BY <1>1, <2>1, <2>3 DEF Apart
  <2>4. CASE j <= N /\ k > N
    <3>1. u[j] \in QueueOf(s) /\ u[k] \in QueueOf(t)
      BY <1>1, <2>4 DEF QueueOf
    <3> QED
      BY <3>1
  <2>5. CASE j > N /\ k <= N
    <3>1. u[j] \in QueueOf(t) /\ u[k] \in QueueOf(s)
      BY <1>1, <2>5 DEF QueueOf
    <3> QED
      BY <3>1
  <2> QED
    BY <2>1, <2>2, <2>3, <2>4, <2>5
<1>5. Apart(par, E, u)
  BY <1>3, <1>4 DEF Apart
<1> QED
  BY <1>2, <1>5 DEF u

\* The children of an index are its rows from the first to the last.
LEMMA AllRows ==
    ASSUME IsTree(srcParent), Numbered(srcParent, srcRow), NEW p \in In(srcParent) \cup {Root}
    PROVE  RowsIn(srcParent, srcRow, p, 0, rowCount(p) - 1) = Children(p)
<1>1. p \in Nodes \cup {Root}
  BY DEF In
<1>2. \A n \in Children(p) : n \in In(srcParent) /\ srcRow[n] \in 0 .. rowCount(p) - 1
  <2>1. \A n \in Children(p) : n \in In(srcParent)
    BY <1>1, NodesAssumption DEF Children, In
  <2>2. \A q \in Nodes \cup {Root} : \A n \in Children(q) : srcRow[n] \in 0 .. rowCount(q) - 1
    BY DEF Numbered, Children, rowCount
  <2> QED
    BY <1>1, <2>1, <2>2
<1>3. \A n \in Children(p) : n \in RowsIn(srcParent, srcRow, p, 0, rowCount(p) - 1)
  BY <1>2 DEF RowsIn, Children
<1>4. \A n \in RowsIn(srcParent, srcRow, p, 0, rowCount(p) - 1) : n \in Children(p)
  BY DEF RowsIn, Children, In
<1> QED
  BY <1>3, <1>4

\* What the rows of an index p, all of a sudden listed, add to the list: the rows of
\* those of its children that show rows of their own have to wait.
LEMMA ChildrenListed ==
    ASSUME IsTree(srcParent), Numbered(srcParent, srcRow),
           NEW E, NEW Q, NEW R, NEW p \in In(srcParent) \cup {Root},
           p # Root => p \in E, Ancestors(srcParent)[p] \subseteq E,
           \A y \in Q : y \notin Ancestors(srcParent)[p] \cup {Root},
           \A x \in R : x \in In(srcParent) /\ srcParent[x] = p,
           \A x \in Children(p) : hasChildren(x) /\ x \in E => x \in R
    PROVE  ListedIn(srcParent, E, Q \cup R) = ListedIn(srcParent, E, Q \cup {p}) \cup Children(p)
<1> DEFINE up == Ancestors(srcParent)
           M == ListedIn(srcParent, E, Q \cup R)
           L == ListedIn(srcParent, E, Q \cup {p})
<1>1. \A n \in In(srcParent) : /\ up[n] = {n} \cup up[srcParent[n]] /\ n # Root
                               /\ srcParent[n] \in In(srcParent) \cup {Root}
                               /\ n \notin up[srcParent[n]]
  BY AncestorsOfOne, NoCycle, NodesAssumption DEF In
<1>2. ASSUME NEW n \in M, n \notin L PROVE n \in Children(p)
  <2>1. n \in In(srcParent) /\ up[srcParent[n]] \subseteq E /\ (up[srcParent[n]] \cup {Root}) \cap (Q \cup R) = {}
    BY DEF ListedIn
  <2>2. p \in up[srcParent[n]] \cup {Root}
    BY <1>2, <2>1 DEF ListedIn
  <2>3. PICK b \in up[n] : b \in In(srcParent) /\ srcParent[b] = p
    BY <2>1, <2>2, BranchBelow
  <2>4. CASE b = n
    BY <2>3, <2>4 DEF Children, In
  <2>5. CASE b # n
    <3>1. b \in up[srcParent[n]]
      BY <1>1, <2>1, <2>3, <2>5
    <3>2. PICK d \in up[n] : d \in In(srcParent) /\ srcParent[d] = b
      BY <2>1, <2>3, <3>1, BranchBelow
    <3>3. hasChildren(b) /\ b \in E /\ b \in Children(p)
      BY <2>1, <2>3, <3>1, <3>2 DEF hasChildren, Children, In
    <3>4. b \in R
      BY <3>3
    <3> QED
      BY <2>1, <3>1, <3>4
  <2> QED
    BY <2>4, <2>5
<1>3. ASSUME NEW n \in L PROVE n \in M
  <2>1. n \in In(srcParent) /\ up[srcParent[n]] \subseteq E /\ (up[srcParent[n]] \cup {Root}) \cap (Q \cup {p}) = {}
    BY DEF ListedIn
  <2>2. ASSUME NEW x \in R, x \in up[srcParent[n]] PROVE FALSE
    <3>1. srcParent[x] \in up[srcParent[n]] \cup {Root}
      BY <1>1, <2>1, <2>2, AncestorsClosed
    <3> QED
      BY <2>1, <2>2, <3>1
  <2>3. Root \notin R
    BY <1>1
  <2> QED
    BY <2>1, <2>2, <2>3 DEF ListedIn
<1>4. ASSUME NEW n \in Children(p) PROVE n \in M
  <2>1. n \in In(srcParent) /\ srcParent[n] = p
    BY NodesAssumption DEF Children, In
  <2>2. \A x \in R : x \notin up[p] \cup {Root}
    BY <1>1
  <2> QED
    BY <2>1, <2>2 DEF ListedIn
<1> HIDE DEF L, M
<1>5. M = L \cup Children(p)
  BY <1>2, <1>3, <1>4
<1> QED
  BY <1>5 DEF L, M

\* A list as a function on its rows.
LEMMA InsertedIsFunction ==
    ASSUME NEW v, NEW c \in Int, NEW s, NEW new, NEW count \in Int, NEW w, w = InsertedList(v, c, s, new, count),
           NEW d, d = c + count
    PROVE  IsRows(w, d)
<1> DEFINE F(r) == IF r < s THEN v[r] ELSE IF r < s + count THEN new[r - s] ELSE v[r - count]
           D == 0 .. c + count - 1
           E == 0 .. d - 1
<1>1. w = [r \in D |-> F(r)]
  BY DEF InsertedList
<1>2. D = E
  OBVIOUS
<1> HIDE DEF F, D, E
<1>3. w = [r \in E |-> w[r]]
  BY <1>1, <1>2
<1> QED
  BY <1>3 DEF E, IsRows

LEMMA InsertedRowIs ==
    ASSUME NEW v, NEW c \in Nat, NEW s \in 0 .. c, NEW new, NEW count \in Nat, NEW k \in 0 .. count - 1
    PROVE  /\ s + k \in 0 .. (c + count) - 1
           /\ InsertedList(v, c, s, new, count)[s + k] = new[k]
<1>1. s + k \in 0 .. c + count - 1 /\ s + k \in 0 .. (c + count) - 1
  OBVIOUS
<1>2. ~(s + k < s) /\ s + k < s + count /\ (s + k) - s = k
  OBVIOUS
<1> DEFINE i == s + k
<1>3. InsertedList(v, c, s, new, count)[i] = new[i - s]
  <2>1. i \in 0 .. c + count - 1 /\ ~(i < s) /\ i < s + count
    BY <1>1, <1>2
  <2> HIDE DEF i
  <2> QED
    BY <2>1 DEF InsertedList
<1> QED
  BY <1>1, <1>2, <1>3

LEMMA NoRows ==
    /\ \A par, row : IsList(par, row, EmptyMapping, 0, {})
    /\ \A T : MapsSet(EmptyMapping, EmptyMapping, T)
    /\ IsRows(EmptyMapping, 0)
<1>1. 0 .. 0 - 1 = {} /\ DOMAIN EmptyMapping = {}
  BY DEF EmptyMapping
<1>2. \A par, row : IsList(par, row, EmptyMapping, 0, {})
  BY <1>1 DEF IsList
<1>3. \A T : MapsSet(EmptyMapping, EmptyMapping, T)
  <2> SUFFICES ASSUME NEW T PROVE MapsSet(EmptyMapping, EmptyMapping, T)
    OBVIOUS
  <2>1. {q \in DOMAIN EmptyMapping : EmptyMapping[q] \in T} = {}
    BY <1>1
  <2> QED
    BY <2>1 DEF MapsSet, EmptyMapping
<1>4. IsRows(EmptyMapping, 0)
  BY <1>1 DEF IsRows, EmptyMapping
<1> QED
  BY <1>2, <1>3, <1>4

LEMMA EmptyTree ==
    ASSUME NEW par, IsTree(par), \A n \in Nodes : par[n] # Root
    PROVE  In(par) = {}
<1>1. SUFFICES ASSUME In(par) # {} PROVE FALSE
  OBVIOUS
<1>2. PICK n \in In(par) : par[n] \notin In(par)
  BY <1>1 DEF IsTree
<1>3. par[n] = Root
  BY <1>2 DEF IsTree
<1> QED
  BY <1>2, <1>3 DEF In

LEMMA RootAlone ==
    /\ QueueOf(<<Root>>) = {Root}
    /\ \A par, E : Apart(par, E, <<Root>>) /\ ListedIn(par, E, {Root}) = {}
<1>1. DOMAIN <<Root>> = {1} /\ <<Root>>[1] = Root
  OBVIOUS
<1>2. QueueOf(<<Root>>) = {Root}
  BY <1>1 DEF QueueOf
<1>3. \A par, E : Apart(par, E, <<Root>>)
  BY <1>1 DEF Apart
<1>4. \A par, E : ListedIn(par, E, {Root}) = {}
  BY DEF ListedIn
<1> QED
  BY <1>2, <1>3, <1>4

----------------------------------------------------------------------------
(* A change of the tree that leaves S, which has all its parents, in order. *)

KeepsOrder(par, row, new, newRow, S) ==
    /\ S \in SUBSET In(par) /\ new \in [Nodes -> Indexes]
    /\ \A n \in S : /\ par[n] \in S \cup {Root} /\ new[n] = par[n]
                    /\ row[n] \in Nat /\ newRow[n] \in Nat
    /\ \A m, n \in S : par[m] = par[n] => (row[m] < row[n] <=> newRow[m] < newRow[n])

LEMMA ListKept ==
    ASSUME NEW par, NEW row, IsTree(par), NEW new, NEW newRow, NEW S,
           KeepsOrder(par, row, new, newRow, S),
           NEW L \in SUBSET S, NEW v, NEW c, IsList(par, row, v, c, L)
    PROVE  /\ IsList(new, newRow, v, c, L)
           /\ Lasts(new, newRow, L) = Lasts(par, row, L)
<1>1. /\ S \in SUBSET In(par) /\ new \in [Nodes -> Indexes]
      /\ \A n \in S : /\ par[n] \in S \cup {Root} /\ new[n] = par[n]
                      /\ row[n] \in Nat /\ newRow[n] \in Nat
      /\ \A m, n \in S : par[m] = par[n] => (row[m] < row[n] <=> newRow[m] < newRow[n])
  BY DEF KeepsOrder
<1>2. ASSUME NEW x \in S, NEW y \in S
      PROVE  Precedes(new, newRow, x, y) <=> Precedes(par, row, x, y)
  BY <1>1, OrderKept
<1>3. IsList(new, newRow, v, c, L)
  <2>1. \A r \in 0 .. c - 1 : v[r] \in S
    BY DEF IsList
  <2>2. \A q, r \in 0 .. c - 1 : q < r => Precedes(new, newRow, v[q], v[r])
    BY <1>2, <2>1 DEF IsList
  <2> QED
    BY <2>2 DEF IsList
<1>4. ASSUME NEW n \in L PROVE IsLast(new, newRow, L, n) <=> IsLast(par, row, L, n)
  <2>1. ASSUME NEW k \in L
        PROVE  (new[k] = new[n] => newRow[k] <= newRow[n]) <=> (par[k] = par[n] => row[k] <= row[n])
    <3>1. /\ new[k] = par[k] /\ new[n] = par[n]
          /\ row[n] \in Nat /\ newRow[n] \in Nat /\ row[k] \in Nat /\ newRow[k] \in Nat
          /\ par[n] = par[k] => (row[n] < row[k] <=> newRow[n] < newRow[k])
      BY <1>1
    <3>2. (row[k] <= row[n] <=> ~(row[n] < row[k])) /\ (newRow[k] <= newRow[n] <=> ~(newRow[n] < newRow[k]))
      BY <3>1
    <3> QED
      BY <3>1, <3>2
  <2> QED
    BY <2>1 DEF IsLast
<1>5. Lasts(new, newRow, L) = Lasts(par, row, L)
  BY <1>4 DEF Lasts
<1> QED
  BY <1>3, <1>5

LEMMA AheadKept ==
    ASSUME NEW par, NEW row, IsTree(par), NEW new, NEW newRow, NEW S,
           KeepsOrder(par, row, new, newRow, S),
           NEW p \in S \cup {Root}, NEW k,
           \A a \in S : par[a] = p => (row[a] < k <=> newRow[a] < k), NEW n \in S
    PROVE  Ahead(new, newRow, n, p, k) <=> Ahead(par, row, n, p, k)
<1>1. /\ S \in SUBSET In(par) /\ new \in [Nodes -> Indexes]
      /\ \A i \in S : par[i] \in S \cup {Root} /\ new[i] = par[i]
      /\ \A i, j \in S : par[i] = par[j] => (row[i] < row[j] <=> newRow[i] < newRow[j])
  BY DEF KeepsOrder
<1>2. \A i \in S \cup {Root} : Ancestors(new)[i] = Ancestors(par)[i]
  BY <1>1, AncestorsKept
<1>3. \A i \in S \cup {Root} : Ancestors(par)[i] \subseteq S
  <2> SUFFICES ASSUME NEW i \in S \cup {Root}, NEW a \in Ancestors(par)[i], a \notin S PROVE FALSE
    OBVIOUS
  <2> DEFINE X == {x \in Ancestors(par)[i] : x \notin S}
  <2>1. i \in In(par) \cup {Root}
    BY <1>1
  <2>2. i # Root /\ i \in S
    BY AncestorsOfOne
  <2>3. X \in SUBSET In(par) /\ X # {}
    BY <2>1, AncestorsClosed
  <2>4. PICK x \in X : \A k2 \in In(par) : par[k2] = x => k2 \notin X
    BY <2>3, DeepestExists
  <2>5. x \in Ancestors(par)[i] /\ x \notin S /\ x # i
    BY <2>2, <2>4
  <2>6. i \in In(par) /\ x \in Ancestors(par)[par[i]] /\ x \in In(par)
    BY <1>1, <2>1, <2>2, <2>3, <2>5, AncestorsOfOne
  <2>7. PICK b \in Ancestors(par)[i] : b \in In(par) /\ par[b] = x
    BY <2>6, BranchBelow
  <2>8. b \in S
    BY <2>4, <2>7
  <2>9. par[b] \in S \cup {Root}
    BY <1>1, <2>8
  <2> QED
    BY <2>5, <2>6, <2>7, <2>9, NodesAssumption DEF In
<1>4. Ancestors(new)[n] = Ancestors(par)[n] /\ Ancestors(new)[p] = Ancestors(par)[p]
      /\ Ancestors(par)[n] \subseteq S /\ Ancestors(par)[p] \subseteq S
  BY <1>2, <1>3
<1>5. \A a \in Ancestors(par)[n] : new[a] = par[a] /\ (par[a] = p => (row[a] < k <=> newRow[a] < k))
  BY <1>1, <1>4
<1>6. \A a \in Ancestors(par)[n], b \in Ancestors(par)[p] :
         (new[a] = new[b] /\ newRow[a] < newRow[b]) <=> (par[a] = par[b] /\ row[a] < row[b])
  BY <1>1, <1>4
<1> QED
  BY <1>4, <1>5, <1>6 DEF Ahead

\* Which of the children of p are below its rows first .. last.
LEMMA ChildrenBelowRows ==
    ASSUME IsTree(srcParent), NEW p \in In(srcParent) \cup {Root}, NEW first, NEW last,
           NEW n \in Children(p)
    PROVE  n \in BelowRows(srcParent, srcRow, p, first, last) <=> srcRow[n] \in first .. last
<1> DEFINE up == Ancestors(srcParent)
<1>1. n \in In(srcParent) /\ srcParent[n] = p
  BY NodesAssumption DEF Children, In
<1>2. up[n] = {n} \cup up[p]
  BY <1>1, AncestorsOfOne
<1>3. \A x \in In(srcParent) : srcParent[x] = p => x \notin up[p]
  BY NoCycle
<1> QED
  BY <1>1, <1>2, <1>3 DEF BelowRows, RowsIn

LEMMA OneQueued ==
    ASSUME NEW par, NEW E, NEW p \in In(par) \cup {Root}, p \in E \cup {Root}
    PROVE  QueueOf(<<p>>) = {p} /\ Apart(par, E, <<p>>)
<1>1. DOMAIN <<p>> = {1} /\ <<p>>[1] = p
  OBVIOUS
<1> QED
  BY <1>1 DEF QueueOf, Apart

----------------------------------------------------------------------------
(* Rows that stand together.                                               *)

\* Rows x .. y of p and all that is below them, down to z, stand together.
StretchOf(p, first, last, x, y, z) ==
    /\ IsTree(srcParent) /\ Numbered(srcParent, srcRow)
    /\ first \in Nat /\ last \in Nat /\ first <= last
    /\ x \in In(srcParent) /\ srcParent[x] = p /\ srcRow[x] = first
    /\ y \in In(srcParent) /\ srcParent[y] = p /\ srcRow[y] = last
    /\ z \in In(srcParent) /\ y \in Ancestors(srcParent)[z]
    /\ \A n \in In(srcParent) : y \in Ancestors(srcParent)[n] =>
           n = z \/ Precedes(srcParent, srcRow, n, z)

LEMMA StretchIs ==
    ASSUME NEW p, NEW first, NEW last, NEW x, NEW y, NEW z, StretchOf(p, first, last, x, y, z),
           NEW n \in In(srcParent)
    PROVE  n \in BelowRows(srcParent, srcRow, p, first, last) <=>
              /\ n = x \/ Precedes(srcParent, srcRow, x, n)
              /\ n = z \/ Precedes(srcParent, srcRow, n, z)
<1> DEFINE up == Ancestors(srcParent)
           prec(a, b) == Precedes(srcParent, srcRow, a, b)
           B == BelowRows(srcParent, srcRow, p, first, last)
<1>1. /\ IsTree(srcParent) /\ Numbered(srcParent, srcRow)
      /\ first \in Nat /\ last \in Nat /\ first <= last
      /\ x \in In(srcParent) /\ srcParent[x] = p /\ srcRow[x] = first
      /\ y \in In(srcParent) /\ srcParent[y] = p /\ srcRow[y] = last
      /\ z \in In(srcParent) /\ y \in up[z]
  BY DEF StretchOf
<1>2. \A m \in In(srcParent) : y \in up[m] => m = z \/ prec(m, z)
  BY DEF StretchOf
<1>3. /\ \A a, b \in In(srcParent) : prec(a, b) => ~prec(b, a) /\ a # b
      /\ \A a, b, d \in In(srcParent) : prec(a, b) /\ prec(b, d) => prec(a, d)
      /\ \A a \in In(srcParent) : srcRow[a] \in Nat
      /\ \A a, b \in In(srcParent) : srcParent[a] = srcParent[b] /\ srcRow[a] = srcRow[b] => a = b
  BY <1>1, WalkIs
<1>4. \A a \in up[n] : a \in In(srcParent) /\ (a = n \/ prec(a, n))
  BY <1>1, AncestorFirst
<1>5. \A a, b \in In(srcParent) : srcParent[a] = srcParent[b] => (prec(a, b) <=> srcRow[a] < srcRow[b])
  BY <1>1, WalkIs
<1>6. ASSUME n \in B PROVE (n = x \/ prec(x, n)) /\ (n = z \/ prec(n, z))
  <2>1. PICK t \in up[n] : t \in In(srcParent) /\ srcParent[t] = p /\ srcRow[t] \in first .. last
    BY <1>6 DEF BelowRows, RowsIn
  <2>2. t = x \/ prec(x, t)
    <3>1. srcRow[t] = first \/ first < srcRow[t]
      BY <1>1, <2>1
    <3> QED
      BY <1>1, <1>3, <1>5, <2>1, <3>1
  <2>3. n = x \/ prec(x, n)
    <3>1. t = n \/ prec(t, n)
      BY <1>4
    <3> QED
      BY <1>1, <1>3, <2>1, <2>2, <3>1
  <2>4. n = z \/ prec(n, z)
    <3>1. CASE t = y
      BY <1>2, <2>1, <3>1
    <3>2. CASE t # y
      <4>1. srcRow[t] < srcRow[y]
        <5>1. srcRow[t] # srcRow[y]
          BY <1>1, <1>3, <2>1, <3>2
        <5> QED
          BY <1>1, <2>1, <5>1
      <4>2. y \in up[z] /\ srcParent[t] = srcParent[y] /\ srcRow[t] < srcRow[y]
        BY <1>1, <2>1, <4>1
      <4>3. prec(n, z)
        BY <2>1, <4>2 DEF Precedes
      <4> QED
        BY <4>3
    <3> QED
      BY <3>1, <3>2
  <2> QED
    BY <2>3, <2>4
<1>7. ASSUME n = x \/ prec(x, n), n = z \/ prec(n, z) PROVE n \in B
  <2>1. Ahead(srcParent, srcRow, n, srcParent[y], srcRow[y] + 1)
    BY <1>1, <1>7, AheadOfNext
  <2>2. ~prec(n, x)
    BY <1>1, <1>3, <1>7
  <2>3. ~Ahead(srcParent, srcRow, n, srcParent[x], srcRow[x])
    BY <1>1, <2>2, AheadOfChild
  <2>4. Ahead(srcParent, srcRow, n, p, last + 1) /\ ~Ahead(srcParent, srcRow, n, p, first)
    BY <1>1, <2>1, <2>3
  <2>5. PICK a \in up[n] : srcParent[a] = p /\ srcRow[a] < last + 1 /\ ~(srcRow[a] < first)
    BY <2>4 DEF Ahead
  <2>6. a \in In(srcParent) /\ srcRow[a] \in first .. last
    BY <1>1, <1>3, <1>4, <2>5
  <2>7. a \in RowsIn(srcParent, srcRow, p, first, last)
    BY <2>5, <2>6 DEF RowsIn
  <2> QED
    BY <2>7 DEF BelowRows
<1> QED
  BY <1>6, <1>7

LEMMA InRowsIsBelow ==
    ASSUME IsTree(srcParent), NEW p, NEW first, NEW last
    PROVE  InRows(p, first, last) = BelowRows(srcParent, srcRow, p, first, last)
<1> DEFINE up == Ancestors(srcParent)
<1>1. Present = In(srcParent) /\ SelfAndAbove = up
  BY SelfAndAboveIsAncestors DEF Present, In
<1>2. \A n \in In(srcParent) : \A a \in up[n] : a \in In(srcParent)
  BY AncestorsClosed
<1> QED
  BY <1>1, <1>2 DEF InRows, BelowRows, RowsIn

\* The mapping only matters where the list has rows.
LEMMA SameEntries ==
    ASSUME NEW m, NEW v, NEW S, MapsSet(m, v, S), NEW T,
           \A r \in DOMAIN v : v[r] \in S <=> v[r] \in T
    PROVE  MapsSet(m, v, T)
<1>1. {q \in DOMAIN v : v[q] \in S} = {q \in DOMAIN v : v[q] \in T}
  OBVIOUS
<1> QED
  BY <1>1 DEF MapsSet

\* Rows a .. b of the list v are those that go.
CutsRows(p, first, last, L, v, c, m, a, b) ==
    /\ L \in SUBSET In(srcParent) /\ Children(p) \subseteq L
    /\ IsList(srcParent, srcRow, v, c, L)
    /\ MapsSet(m, v, Lasts(srcParent, srcRow, L))
    /\ a \in Nat /\ b \in Nat /\ a <= b /\ b < c
    /\ \A r \in 0 .. c - 1 :
          r \in a .. b <=> v[r] \in BelowRows(srcParent, srcRow, p, first, last)
==============================================================================
