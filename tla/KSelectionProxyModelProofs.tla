---------------------- MODULE KSelectionProxyModelProofs ----------------------
(***************************************************************************)
(* Proofs about KSelectionProxyModel, for source trees of any size and     *)
(* every sequence of selections and changes of the source: the roots are   *)
(* those that the selection calls for, in depth-first order, so that the   *)
(* search for the place of a new root ends; whoever is told of roots       *)
(* coming and going has them; and the begin... and end... calls nest.      *)
(*                                                                         *)
(* The inductive invariant has six parts.  Flow says where a call can      *)
(* stand and what the flags are there, Scope that its arguments are about  *)
(* rows that are in the source.  RootsInv says which roots there are while *)
(* selectionChanged() removes and inserts them one by one, OrderInv in     *)
(* which order.  HeardInv and SignalInv follow the signals.                *)
(*                                                                         *)
(* The last sections are about the tables of a proxy that has its roots on *)
(* the top level, as KSelectionProxyModelRows needs them: a list of roots  *)
(* and entries for some of the rows shown below them (Showing).            *)
(***************************************************************************)
EXTENDS KSelectionProxyModel, SourceTreeTheorems, SequenceTheorems

----------------------------------------------------------------------------
(* The selected indexes that are roots.                                    *)

\* The indexes that are to be roots when S is selected.
Target(S) == IF m_includeAllSelected THEN S ELSE getRootRanges(S)

\* What is above an index: itself not, and what is there is closed upwards.
LEMMA AboveFacts ==
    ASSUME IsTree(srcParent), NEW n \in Present
    PROVE  /\ Above(n) = Ancestors(srcParent)[srcParent[n]]
           /\ SelfAndAbove[n] = {n} \cup Above(n)
           /\ Above(n) \subseteq Present /\ n \notin Above(n)
           /\ \A a \in Above(n) : Above(a) \subseteq Above(n)
<1>1. Present = In(srcParent) /\ parent(n) = srcParent[n]
  BY DEF Present, In, parent
<1>2. Above(n) = Ancestors(srcParent)[srcParent[n]]
  BY <1>1, SelfAndAboveIsAncestors DEF Above
<1>3. SelfAndAbove[n] = {n} \cup Above(n) /\ srcParent[n] \in Present \cup {Root}
  BY <1>1, <1>2, AncestorsOfOne, SelfAndAboveIsAncestors
<1>4. Above(n) \subseteq Present /\ n \notin Above(n)
  BY <1>1, <1>2, <1>3, AncestorsClosed, NoCycle
<1>5. ASSUME NEW a \in Above(n) PROVE Above(a) \subseteq Above(n)
  <2>1. a \in In(srcParent) /\ parent(a) = srcParent[a]
    BY <1>1, <1>4 DEF parent, In
  <2>2. Ancestors(srcParent)[a] \subseteq Above(n)
    BY <1>1, <1>2, <1>3, AncestorsTransitive
  <2>3. Ancestors(srcParent)[srcParent[a]] \subseteq Ancestors(srcParent)[a]
    BY <2>1, AncestorsOfOne
  <2> QED
    BY <2>1, <2>2, <2>3, SelfAndAboveIsAncestors DEF Above
<1> QED
  BY <1>2, <1>3, <1>4, <1>5

\* The highest selected index above n has no selected one above it.
LEMMA HighestSelected ==
    ASSUME IsTree(srcParent), NEW n \in Present, NEW S, Above(n) \cap S # {}
    PROVE  \E t \in Above(n) \cap S : Above(t) \cap S = {} /\ Above(t) \subseteq Above(n)
<1>1. Present = In(srcParent) /\ srcParent[n] \in Present \cup {Root}
  BY AncestorsOfOne DEF Present, In
<1>2. Above(n) = Ancestors(srcParent)[srcParent[n]]
  BY AboveFacts
<1>3. PICK t \in Above(n) \cap S : Ancestors(srcParent)[srcParent[t]] \cap S = {}
  BY <1>1, <1>2, HighestAncestor
<1>4. t \in Present /\ Above(t) \subseteq Above(n)
  BY AboveFacts
<1>5. Above(t) = Ancestors(srcParent)[srcParent[t]]
  BY <1>4, AboveFacts
<1> QED
  BY <1>3, <1>4, <1>5

\* A selection has roots, and each selected index lies within one.
LEMMA SelectedWithinRoot ==
    ASSUME IsTree(srcParent), NEW S \in SUBSET Present, NEW n \in S
    PROVE  LiesWithin(getRootRanges(S), n)
<1>1. n \in Present /\ SelfAndAbove[n] = {n} \cup Above(n)
  BY AboveFacts
<1>2. CASE Above(n) \cap S = {}
  BY <1>1, <1>2 DEF getRootRanges, LiesWithin
<1>3. CASE Above(n) \cap S # {}
  <2>1. PICK t \in Above(n) \cap S : Above(t) \cap S = {}
    BY <1>1, <1>3, HighestSelected
  <2> QED
    BY <1>1, <2>1 DEF getRootRanges, LiesWithin
<1> QED
  BY <1>2, <1>3

\* Only the empty selection calls for no roots.
LEMMA NothingSelected == \A S \in SUBSET Present : IsTree(srcParent) => (Target(S) = {} <=> S = {})
<1> SUFFICES ASSUME NEW S \in SUBSET Present, IsTree(srcParent), S # {}
             PROVE  Target(S) # {}
  BY DEF Target, getRootRanges
<1>1. PICK n \in S : TRUE
  OBVIOUS
<1>2. LiesWithin(getRootRanges(S), n)
  BY SelectedWithinRoot
<1> QED
  BY <1>2 DEF Target, LiesWithin

\* When the selection goes from O to S, the roots that selectionChanged() finds doomed
\* are those of O that are none of S, and the new ones it finds are those of S that
\* were none of O.
LEMMA RootsChange ==
    ASSUME IsTree(srcParent), NEW O \in SUBSET Present, NEW S \in SUBSET Present
    PROVE  LET gone == RemovedRoots(S, S \ O, O \ S)
               come == NewRoots(S, S \ O, O \ S)
           IN  /\ \A r \in Target(O) : r \in Target(S) <=> ~Doomed(gone, r)
               /\ Target(S) \subseteq Target(O) \cup come
               /\ come \subseteq Target(S) \ Target(O)
<1> DEFINE existing == getRootRanges(S \ (S \ O))
           new == {n \in getRootRanges(S \ O) : ~isDescendantOf(existing, n)}
           uncovering == {n \in getRootRanges(O \ S) : ~isDescendantOf(existing, n)}
           exposed == {n \in existing : Above(n) \cap uncovering # {} /\ ~isDescendantOf(new, n)}
           obscured == {n \in existing : isDescendantOf(new, n)}
           gone == RemovedRoots(S, S \ O, O \ S)
           come == NewRoots(S, S \ O, O \ S)
<1>1. CASE m_includeAllSelected
  <2>1. gone = O \ S /\ come = S \ O
    BY <1>1 DEF RemovedRoots, NewRoots
  <2> QED
    BY <1>1, <2>1 DEF Target, Doomed
<1>2. CASE ~m_includeAllSelected
  <2>1. gone = uncovering \cup getRootRanges(obscured)
    BY <1>2 DEF RemovedRoots
  <2>2. come = new \cup getRootRanges(exposed)
    BY <1>2 DEF NewRoots
  <2>3. \A n \in Present : /\ SelfAndAbove[n] = {n} \cup Above(n)
                          /\ Above(n) \subseteq Present /\ n \notin Above(n)
                          /\ \A a \in Above(n) : Above(a) \subseteq Above(n)
    BY AboveFacts
  <2>4. /\ \A n : n \in existing <=> n \in S \cap O /\ Above(n) \cap (S \cap O) = {}
        /\ \A n : n \in new <=> /\ n \in S \ O /\ Above(n) \cap (S \ O) = {}
                               /\ Above(n) \cap existing = {}
        /\ \A n : n \in uncovering <=> /\ n \in O \ S /\ Above(n) \cap (O \ S) = {}
                                      /\ Above(n) \cap existing = {}
    BY DEF getRootRanges, isDescendantOf
  <2>5. /\ \A n : n \in exposed <=> /\ n \in existing /\ Above(n) \cap uncovering # {}
                                   /\ Above(n) \cap new = {}
        /\ \A n : n \in obscured <=> n \in existing /\ Above(n) \cap new # {}
    BY <2>4 DEF isDescendantOf
  <2>6. /\ \A n : n \in getRootRanges(exposed) <=> n \in exposed /\ Above(n) \cap exposed = {}
        /\ \A n : n \in getRootRanges(obscured) <=> n \in obscured /\ Above(n) \cap obscured = {}
        /\ \A n : n \in Target(O) <=> n \in O /\ Above(n) \cap O = {}
        /\ \A n : n \in Target(S) <=> n \in S /\ Above(n) \cap S = {}
    BY <1>2 DEF getRootRanges, Target
  <2>7. \A r : Doomed(gone, r) <=> SelfAndAbove[r] \cap gone # {}
    BY <1>2 DEF Doomed, LiesWithin
  <2>8. obscured \subseteq Present
    BY <2>4, <2>5
  \* What is above n in S \ O and highest there is new, unless something of existing is above it.
  <2>9. ASSUME NEW n \in Present, Above(n) \cap (S \ O) # {}, Above(n) \cap existing = {}
        PROVE  Above(n) \cap new # {}
    <3> DEFINE D == S \ O
    <3>0. Above(n) \cap D # {}
      BY <2>9
    <3> HIDE DEF D
    <3>1. PICK t \in Above(n) \cap D : Above(t) \cap D = {} /\ Above(t) \subseteq Above(n)
      BY <3>0, HighestSelected
    <3> USE DEF D
    <3> QED
      BY <2>4, <2>9, <3>1
  <2>10. ASSUME NEW n \in Present, Above(n) \cap (O \ S) # {}, Above(n) \cap existing = {}
         PROVE  Above(n) \cap uncovering # {}
    <3> DEFINE D == O \ S
    <3>0. Above(n) \cap D # {}
      BY <2>10
    <3> HIDE DEF D
    <3>1. PICK t \in Above(n) \cap D : Above(t) \cap D = {} /\ Above(t) \subseteq Above(n)
      BY <3>0, HighestSelected
    <3> USE DEF D
    <3> QED
      BY <2>4, <2>10, <3>1
  <2>11. ASSUME NEW n \in Present, Above(n) \cap existing = {}
         PROVE  Above(n) \cap (S \cap O) = {}
    <3> SUFFICES ASSUME Above(n) \cap (S \cap O) # {} PROVE FALSE
      OBVIOUS
    <3> DEFINE D == S \cap O
    <3>0. Above(n) \cap D # {}
      OBVIOUS
    <3> HIDE DEF D
    <3>1. PICK t \in Above(n) \cap D : Above(t) \cap D = {} /\ Above(t) \subseteq Above(n)
      BY <3>0, HighestSelected
    <3> USE DEF D
    <3> QED
      BY <2>4, <2>11, <3>1
  <2> HIDE DEF existing, new, uncovering, exposed, obscured, gone, come
  <2>12. ASSUME NEW r \in Target(O), ~Doomed(gone, r)
         PROVE  r \in Target(S)
    <3>1. r \in O /\ r \in Present /\ Above(r) \cap O = {}
      BY <2>6
    <3>2. SelfAndAbove[r] = {r} \cup Above(r) /\ SelfAndAbove[r] \cap gone = {}
      BY <2>3, <2>7, <2>12, <3>1
    <3>3. Above(r) \cap existing = {}
      BY <2>4, <3>1
    <3>4. r \in S
      BY <2>1, <2>4, <3>1, <3>2, <3>3
    <3>5. r \in existing
      BY <2>4, <3>1, <3>4
    <3>6. r \notin obscured
      <4> SUFFICES ASSUME r \in obscured PROVE FALSE
        OBVIOUS
      <4>1. LiesWithin(getRootRanges(obscured), r)
        BY <2>8, SelectedWithinRoot
      <4> QED
        BY <2>1, <3>2, <4>1 DEF LiesWithin
    <3>7. Above(r) \cap (S \ O) = {}
      BY <2>5, <2>9, <3>1, <3>3, <3>5, <3>6
    <3> QED
      BY <2>6, <3>1, <3>4, <3>7
  <2>13. ASSUME NEW r \in Target(O), r \in Target(S)
         PROVE  ~Doomed(gone, r)
    <3>1. r \in Present /\ r \in O /\ r \in S /\ Above(r) \cap O = {} /\ Above(r) \cap S = {}
      BY <2>6, <2>13
    <3>2. SelfAndAbove[r] = {r} \cup Above(r)
      BY <2>3, <3>1
    <3>3. gone \subseteq O
      BY <2>1, <2>4, <2>5, <2>6
    <3>4. r \notin gone
      BY <2>1, <2>4, <2>5, <2>6, <3>1
    <3> QED
      BY <2>7, <3>1, <3>2, <3>3, <3>4
  <2>14. ASSUME NEW r \in Target(S), r \notin Target(O)
         PROVE  r \in come
    <3>1. r \in Present /\ r \in S /\ Above(r) \cap S = {}
      BY <2>6
    <3>2. Above(r) \cap existing = {} /\ Above(r) \cap new = {} /\ Above(r) \cap exposed = {}
      BY <2>4, <2>5, <3>1
    <3>3. CASE r \notin O
      BY <2>2, <2>4, <3>1, <3>2, <3>3
    <3>4. CASE r \in O
      <4>1. r \in existing
        BY <2>4, <3>1, <3>4
      <4>2. Above(r) \cap (O \ S) # {}
        BY <2>6, <2>14, <3>1, <3>4
      <4> QED
        BY <2>2, <2>5, <2>6, <2>10, <3>1, <3>2, <4>1, <4>2
    <3> QED
      BY <3>3, <3>4
  <2>15. ASSUME NEW r \in come
         PROVE  r \in Target(S) /\ r \notin Target(O)
    <3>1. CASE r \in new
      <4>1. /\ r \in S \ O /\ r \in Present /\ Above(r) \cap (S \ O) = {}
            /\ Above(r) \cap existing = {}
        BY <2>4, <3>1
      <4> QED
        BY <2>6, <2>11, <4>1
    <3>2. CASE r \in getRootRanges(exposed)
      <4>1. /\ r \in S \cap O /\ r \in Present /\ Above(r) \cap (S \cap O) = {}
            /\ Above(r) \cap uncovering # {} /\ Above(r) \cap new = {}
        BY <2>4, <2>5, <2>6, <3>2
      <4>2. Above(r) \cap existing = {}
        BY <2>4, <4>1
      <4>3. Above(r) \cap (S \ O) = {}
        BY <2>9, <4>1, <4>2
      <4>4. Above(r) \cap O # {}
        BY <2>4, <4>1
      <4> QED
        BY <2>6, <4>1, <4>3, <4>4
    <3> QED
      BY <2>2, <3>1, <3>2
  <2> QED
    BY <2>12, <2>13, <2>14, <2>15 DEF gone, come
<1> QED
  BY <1>1, <1>2

----------------------------------------------------------------------------
(* Lists of roots.                                                         *)

Injective(s) == \A j, k \in DOMAIN s : s[j] = s[k] => j = k

RangeOf(s) == {s[k] : k \in DOMAIN s}

\* Least and Greatest pick what their names say.
LEMMA LeastIs ==
    ASSUME NEW S \in SUBSET Nat, S # {}
    PROVE  Least(S) \in S /\ \A n \in S : Least(S) <= n
BY LeastExists DEF Least

LEMMA GreatestIs ==
    ASSUME NEW S \in SUBSET Nat, S # {}, NEW bound \in Nat, \A n \in S : n <= bound
    PROVE  Greatest(S) \in S /\ \A n \in S : n <= Greatest(S)
BY GreatestExists DEF Greatest

\* The doomed roots from the first of them on stand side by side.
LEMMA DoomedBlockIs ==
    ASSUME m_rootIndexList \in Seq(Nodes), NEW D
    PROVE  LET block == DoomedBlock(D)
           IN  /\ block = {} <=> \A k \in DOMAIN m_rootIndexList : m_rootIndexList[k] \notin D
               /\ block # {} => /\ Least(block) \in DOMAIN m_rootIndexList
                                /\ Greatest(block) \in DOMAIN m_rootIndexList
                                /\ Least(block) <= Greatest(block)
                                /\ block = Least(block) .. Greatest(block)
                                /\ \A k \in block : m_rootIndexList[k] \in D
<1> DEFINE doomed == {k \in DOMAIN m_rootIndexList : m_rootIndexList[k] \in D}
           lo == Least(doomed)
           block == DoomedBlock(D)
<1>1. DOMAIN m_rootIndexList = 1 .. Len(m_rootIndexList) /\ Len(m_rootIndexList) \in Nat
  OBVIOUS
<1>2. block = {k \in doomed : lo .. k \subseteq doomed}
  BY DEF DoomedBlock
<1>3. doomed \in SUBSET Nat /\ \A k \in doomed : k <= Len(m_rootIndexList)
  BY <1>1
<1> HIDE DEF block
<1>4. CASE doomed = {}
  BY <1>2, <1>4 DEF block
<1>5. CASE doomed # {}
  <2>1. lo \in doomed /\ \A k \in doomed : lo <= k
    <3> HIDE DEF doomed
    <3> QED
      BY <1>3, <1>5, LeastIs
  <2>2. lo \in block
    <3>1. lo \in Nat
      BY <1>3, <2>1
    <3>2. lo .. lo = {lo}
      BY <3>1
    <3> QED
      BY <1>2, <2>1, <3>2
  <2>3. block \in SUBSET Nat /\ block # {} /\ \A k \in block : k <= Len(m_rootIndexList)
    BY <1>2, <1>3, <2>2
  <2>4. Least(block) \in block /\ \A k \in block : Least(block) <= k
    BY <2>3, LeastIs
  <2>5. Greatest(block) \in block /\ \A k \in block : k <= Greatest(block)
    BY <1>1, <2>3, GreatestIs
  <2>6. Least(block) = lo
    <3>1. Least(block) \in doomed /\ Least(block) \in Nat
      BY <1>2, <2>3, <2>4
    <3>2. lo <= Least(block) /\ Least(block) <= lo /\ lo \in Nat
      BY <1>3, <2>1, <2>2, <2>4, <3>1
    <3> QED
      BY <3>1, <3>2
  <2> DEFINE hi == Greatest(block)
  <2>7. ASSUME NEW k \in lo .. hi PROVE k \in block
    <3>1. lo .. hi \subseteq doomed
      BY <1>2, <2>5
    <3>2. hi \in Nat /\ lo \in Nat
      BY <2>3, <2>4, <2>5, <2>6
    <3>3. lo .. k \subseteq lo .. hi
      BY <3>2
    <3> QED
      BY <1>2, <3>1, <3>3
  <2>8. block \subseteq lo .. hi
    BY <2>3, <2>4, <2>5, <2>6
  <2> QED
    BY <1>1, <1>2, <2>3, <2>4, <2>5, <2>6, <2>7, <2>8 DEF block
<1> QED
  BY <1>4, <1>5

\* Where the rows after a cut come from, and go.
LEMMA BehindCut ==
    ASSUME NEW n \in Nat, NEW lo \in 1 .. n, NEW hi \in 1 .. n, lo <= hi
    PROVE  LET count == hi - lo + 1
           IN  \A j \in 1 .. n : j > hi =>
                  /\ j - count \in 1 .. n - count
                  /\ ~(j - count < lo) /\ (j - count) + count = j
OBVIOUS

\* A list without its places lo .. hi.
LEMMA CutOut ==
    ASSUME NEW s \in Seq(Nodes), NEW lo \in Int, NEW hi \in Int,
           1 <= lo, lo <= hi, hi <= Len(s)
    PROVE  LET cut == SubSeq(s, 1, lo - 1) \o SubSeq(s, hi + 1, Len(s))
               count == hi - lo + 1
           IN  /\ cut \in Seq(Nodes) /\ Len(cut) = Len(s) - count
               /\ \A k \in 1 .. Len(s) - count :
                     cut[k] = IF k < lo THEN s[k] ELSE s[k + count]
<1> DEFINE one == SubSeq(s, 1, lo - 1)
           two == SubSeq(s, hi + 1, Len(s))
           count == hi - lo + 1
<1>1. Len(s) \in Nat /\ lo \in 1 .. Len(s) /\ hi \in 1 .. Len(s)
  OBVIOUS
<1>2. /\ one \in Seq(Nodes) /\ Len(one) = lo - 1
      /\ \A k \in 1 .. lo - 1 : one[k] = s[k]
  <2>1. \A k \in 1 .. lo - 1 : s[k] \in Nodes
    BY <1>1
  <2>2. /\ one \in Seq(Nodes) /\ Len(one) = IF 1 <= lo - 1 THEN (lo - 1) - 1 + 1 ELSE 0
        /\ \A k \in 1 .. (lo - 1) - 1 + 1 : one[k] = s[1 + k - 1]
    BY <1>1, <2>1, SubSeqProperties
  <2> QED
    BY <1>1, <2>2
<1>3. /\ two \in Seq(Nodes) /\ Len(two) = Len(s) - hi
      /\ \A k \in 1 .. Len(s) - hi : two[k] = s[k + hi]
  <2>1. \A k \in hi + 1 .. Len(s) : s[k] \in Nodes
    BY <1>1
  <2>2. /\ two \in Seq(Nodes) /\ Len(two) = IF hi + 1 <= Len(s) THEN Len(s) - (hi + 1) + 1 ELSE 0
        /\ \A k \in 1 .. Len(s) - (hi + 1) + 1 : two[k] = s[hi + 1 + k - 1]
    BY <1>1, <2>1, SubSeqProperties
  <2> QED
    BY <1>1, <2>2
<1> HIDE DEF one, two
<1>4. /\ one \o two \in Seq(Nodes) /\ Len(one \o two) = Len(one) + Len(two)
      /\ \A k \in 1 .. Len(one) + Len(two) :
            (one \o two)[k] = IF k <= Len(one) THEN one[k] ELSE two[k - Len(one)]
  BY <1>2, <1>3, ConcatProperties
<1>5. Len(one) + Len(two) = Len(s) - count
  BY <1>1, <1>2, <1>3
<1>6. ASSUME NEW k \in 1 .. Len(s) - count
      PROVE  (one \o two)[k] = IF k < lo THEN s[k] ELSE s[k + count]
  <2>1. (one \o two)[k] = IF k <= lo - 1 THEN one[k] ELSE two[k - (lo - 1)]
    BY <1>2, <1>4, <1>5
  <2>2. CASE k < lo
    <3> DEFINE n == Len(s) - count
    <3>0. k \in 1 .. n /\ n \in Int /\ lo \in Int
      BY <1>1
    <3> HIDE DEF n, count
    <3>1. k <= lo - 1 /\ k \in 1 .. lo - 1
      BY <2>2, <3>0
    <3>2. one[k] = s[k]
      BY <1>2, <3>1
    <3> QED
      BY <2>1, <2>2, <3>1, <3>2
  <2>3. CASE ~(k < lo)
    <3>1. k - (lo - 1) \in 1 .. Len(s) - hi /\ k - (lo - 1) + hi = k + count
      BY <1>1, <2>3
    <3>2. two[k - (lo - 1)] = s[k - (lo - 1) + hi]
      BY <1>3, <3>1
    <3>3. ~(k <= lo - 1)
      BY <1>1, <2>3
    <3> QED
      BY <2>1, <2>3, <3>1, <3>2, <3>3
  <2> QED
    BY <2>2, <2>3
<1> QED
  BY <1>4, <1>5, <1>6 DEF one, two

\* What is cut out of a list without duplicates is gone from it.
LEMMA CutOutSet ==
    ASSUME NEW s \in Seq(Nodes), NEW lo \in Int, NEW hi \in Int,
           1 <= lo, lo <= hi, hi <= Len(s), Injective(s)
    PROVE  LET cut == SubSeq(s, 1, lo - 1) \o SubSeq(s, hi + 1, Len(s))
           IN  /\ RangeOf(cut) = RangeOf(s) \ {s[k] : k \in lo .. hi}
               /\ Injective(cut)
<1> DEFINE cut == SubSeq(s, 1, lo - 1) \o SubSeq(s, hi + 1, Len(s))
           count == hi - lo + 1
           from(k) == IF k < lo THEN k ELSE k + count
<1>1. Len(s) \in Nat /\ lo \in 1 .. Len(s) /\ hi \in 1 .. Len(s) /\ DOMAIN s = 1 .. Len(s)
  OBVIOUS
<1>2. /\ cut \in Seq(Nodes) /\ Len(cut) = Len(s) - count
      /\ \A k \in 1 .. Len(s) - count : cut[k] = IF k < lo THEN s[k] ELSE s[k + count]
  BY CutOut
<1>3. DOMAIN cut = 1 .. Len(s) - count
  <2> HIDE DEF cut, count
  <2>1. DOMAIN cut = 1 .. Len(cut)
    BY <1>2
  <2> QED
    BY <1>2, <2>1
<1>0. lo \in Int /\ hi \in Int /\ count \in Int /\ count > 0
  BY <1>1
<1>4. ASSUME NEW k \in DOMAIN cut
      PROVE  cut[k] = s[from(k)] /\ from(k) \in DOMAIN s /\ from(k) \notin lo .. hi
  <2>1. k \in 1 .. Len(s) - count /\ cut[k] = IF k < lo THEN s[k] ELSE s[k + count]
    BY <1>2, <1>3
  <2> HIDE DEF cut
  <2> DEFINE n == Len(s)
  <2>0. n \in Nat /\ lo \in 1 .. n /\ hi \in 1 .. n /\ k \in 1 .. n - count /\ DOMAIN s = 1 .. n
    BY <1>1, <2>1
  <2> HIDE DEF n
  <2>2. CASE k < lo
    <3>1. cut[k] = s[k] /\ from(k) = k
      BY <2>1, <2>2
    <3>2. k \in 1 .. n /\ k \notin lo .. hi
      BY <2>0, <2>2
    <3> QED
      BY <2>0, <3>1, <3>2
  <2>3. CASE ~(k < lo)
    <3>1. cut[k] = s[k + count] /\ from(k) = k + count
      BY <2>1, <2>3
    <3>2. k + count \in 1 .. n /\ k + count \notin lo .. hi
      BY <2>0, <2>3
    <3> QED
      BY <2>0, <3>1, <3>2
  <2> QED
    BY <2>2, <2>3
<1>5. \A j \in DOMAIN s : j \notin lo .. hi => \E k \in DOMAIN cut : from(k) = j
  <2> SUFFICES ASSUME NEW j \in DOMAIN s, j \notin lo .. hi
               PROVE  \E k \in DOMAIN cut : from(k) = j
    OBVIOUS
  <2> DEFINE n == Len(s)
  <2>0. n \in Nat /\ lo \in 1 .. n /\ hi \in 1 .. n /\ j \in 1 .. n /\ DOMAIN cut = 1 .. n - count
    BY <1>1, <1>3
  <2> HIDE DEF n, cut
  <2>1. CASE j < lo
    <3>1. j \in DOMAIN cut /\ from(j) = j
      BY <1>3, <2>0, <2>1
    <3> QED
      BY <3>1
  <2>2. CASE j > hi
    <3>1. j - count \in 1 .. n - count /\ ~(j - count < lo) /\ (j - count) + count = j
      BY <2>0, <2>2, BehindCut
    <3> HIDE DEF count
    <3>2. from(j - count) = j
      BY <3>1
    <3> QED
      BY <2>0, <3>1, <3>2
  <2> QED
    BY <1>1, <2>1, <2>2
<1>6. ASSUME NEW j \in DOMAIN cut, NEW k \in DOMAIN cut, from(j) = from(k)
      PROVE  j = k
  <2>1. j \in Int /\ k \in Int
    BY <1>1, <1>3
  <2> HIDE DEF cut, count
  <2> QED
    BY <1>0, <1>6, <2>1
<1>7. \A j, k \in DOMAIN s : s[j] = s[k] => j = k
  BY DEF Injective
<1> HIDE DEF cut, from
<1>8. RangeOf(cut) = RangeOf(s) \ {s[k] : k \in lo .. hi}
  <2>1. ASSUME NEW x \in RangeOf(cut) PROVE x \in RangeOf(s) /\ \A k \in lo .. hi : x # s[k]
    <3>1. PICK k \in DOMAIN cut : x = s[from(k)]
      BY <1>4 DEF RangeOf
    <3>2. lo .. hi \subseteq DOMAIN s
      BY <1>1
    <3> QED
      BY <1>4, <1>7, <3>1, <3>2 DEF RangeOf
  <2>2. ASSUME NEW x \in RangeOf(s), \A k \in lo .. hi : x # s[k] PROVE x \in RangeOf(cut)
    <3>1. PICK j \in DOMAIN s : x = s[j]
      BY DEF RangeOf
    <3>2. PICK k \in DOMAIN cut : from(k) = j
      BY <1>5, <2>2, <3>1
    <3> QED
      BY <1>4, <3>1, <3>2 DEF RangeOf
  <2> QED
    BY <2>1, <2>2
<1>9. Injective(cut)
  BY <1>4, <1>6, <1>7 DEF Injective
<1> QED
  BY <1>8, <1>9 DEF cut

\* A list with n at its place at.
LEMMA Inserted ==
    ASSUME NEW s \in Seq(Nodes), NEW n \in Nodes, NEW at \in 1 .. Len(s) + 1
    PROVE  LET new == Seqs!InsertAt(s, at, n)
           IN  /\ new \in Seq(Nodes) /\ Len(new) = Len(s) + 1
               /\ \A k \in 1 .. Len(s) + 1 :
                     new[k] = IF k < at THEN s[k] ELSE IF k = at THEN n ELSE s[k - 1]
<1> DEFINE one == SubSeq(s, 1, at - 1)
           two == SubSeq(s, at, Len(s))
<1>1. Len(s) \in Nat /\ at \in Nat
  OBVIOUS
<1>2. /\ one \in Seq(Nodes) /\ Len(one) = at - 1
      /\ \A k \in 1 .. at - 1 : one[k] = s[k]
  <2>1. \A k \in 1 .. at - 1 : s[k] \in Nodes
    BY <1>1
  <2>2. /\ one \in Seq(Nodes) /\ Len(one) = IF 1 <= at - 1 THEN (at - 1) - 1 + 1 ELSE 0
        /\ \A k \in 1 .. (at - 1) - 1 + 1 : one[k] = s[1 + k - 1]
    BY <1>1, <2>1, SubSeqProperties
  <2> QED
    BY <1>1, <2>2
<1>3. /\ two \in Seq(Nodes) /\ Len(two) = Len(s) - at + 1
      /\ \A k \in 1 .. Len(s) - at + 1 : two[k] = s[k + at - 1]
  <2>1. \A k \in at .. Len(s) : s[k] \in Nodes
    BY <1>1
  <2>2. /\ two \in Seq(Nodes) /\ Len(two) = IF at <= Len(s) THEN Len(s) - at + 1 ELSE 0
        /\ \A k \in 1 .. Len(s) - at + 1 : two[k] = s[at + k - 1]
    BY <1>1, <2>1, SubSeqProperties
  <2> QED
    BY <1>1, <2>2
<1>4. Seqs!InsertAt(s, at, n) = one \o <<n>> \o two
  BY DEF Seqs!InsertAt
<1> HIDE DEF one, two
<1>5. <<n>> \in Seq(Nodes) /\ Len(<<n>>) = 1 /\ <<n>>[1] = n
  OBVIOUS
<1> DEFINE left == one \o <<n>>
<1>6. /\ left \in Seq(Nodes) /\ Len(left) = at
      /\ \A k \in 1 .. at : left[k] = IF k <= at - 1 THEN one[k] ELSE <<n>>[k - (at - 1)]
  <2>1. /\ left \in Seq(Nodes) /\ Len(left) = Len(one) + Len(<<n>>)
        /\ \A k \in 1 .. Len(one) + Len(<<n>>) :
              left[k] = IF k <= Len(one) THEN one[k] ELSE <<n>>[k - Len(one)]
    BY <1>2, <1>5, ConcatProperties
  <2> QED
    BY <1>1, <1>2, <1>5, <2>1
<1> HIDE DEF left
<1>7. /\ left \o two \in Seq(Nodes) /\ Len(left \o two) = Len(left) + Len(two)
      /\ \A k \in 1 .. Len(left) + Len(two) :
            (left \o two)[k] = IF k <= Len(left) THEN left[k] ELSE two[k - Len(left)]
  BY <1>3, <1>6, ConcatProperties
<1>8. Len(left) + Len(two) = Len(s) + 1
  BY <1>1, <1>3, <1>6
<1>9. ASSUME NEW k \in 1 .. Len(s) + 1
      PROVE  (left \o two)[k] = IF k < at THEN s[k] ELSE IF k = at THEN n ELSE s[k - 1]
  <2>1. (left \o two)[k] = IF k <= at THEN left[k] ELSE two[k - at]
    BY <1>6, <1>7, <1>8
  <2>2. CASE k < at
    <3>1. left[k] = one[k]
      BY <1>1, <1>6, <2>2
    <3> QED
      BY <1>1, <1>2, <2>1, <2>2, <3>1
  <2>3. CASE k = at
    <3>1. k - (at - 1) = 1 /\ ~(k <= at - 1) /\ k \in 1 .. at
      BY <1>1, <2>3
    <3>2. left[k] = <<n>>[1]
      BY <1>6, <3>1
    <3> QED
      BY <1>1, <1>5, <2>1, <2>3, <3>2
  <2>4. CASE k > at
    <3>1. k - at \in 1 .. Len(s) - at + 1 /\ k - at + at - 1 = k - 1
      BY <1>1, <2>4
    <3>2. two[k - at] = s[k - 1]
      BY <1>3, <3>1
    <3> QED
      BY <1>1, <2>1, <2>4, <3>2
  <2>5. k < at \/ k = at \/ k > at
    BY <1>1
  <2>6. k > at => ~(k < at) /\ k # at
    BY <1>1
  <2>7. k = at => ~(k < at)
    BY <1>1
  <2> QED
    BY <2>2, <2>3, <2>4, <2>5, <2>6, <2>7
<1> QED
  BY <1>4, <1>7, <1>8, <1>9 DEF left

\* What is inserted into it is there, once.
LEMMA InsertedSet ==
    ASSUME NEW s \in Seq(Nodes), NEW n \in Nodes, NEW at \in 1 .. Len(s) + 1,
           Injective(s), n \notin RangeOf(s)
    PROVE  LET new == Seqs!InsertAt(s, at, n)
           IN  RangeOf(new) = RangeOf(s) \cup {n} /\ Injective(new)
<1> DEFINE new == Seqs!InsertAt(s, at, n)
<1>1. Len(s) \in Nat /\ at \in Nat /\ DOMAIN s = 1 .. Len(s)
  OBVIOUS
<1>2. /\ new \in Seq(Nodes) /\ Len(new) = Len(s) + 1
      /\ \A k \in 1 .. Len(s) + 1 :
            new[k] = IF k < at THEN s[k] ELSE IF k = at THEN n ELSE s[k - 1]
  BY Inserted
<1> HIDE DEF new
<1>3. DOMAIN new = 1 .. Len(s) + 1
  BY <1>2
<1> DEFINE from(k) == IF k < at THEN k ELSE k - 1
<1>4. \A k \in DOMAIN new : IF k = at THEN new[k] = n
                            ELSE new[k] = s[from(k)] /\ from(k) \in DOMAIN s
  BY <1>1, <1>2, <1>3
<1>5. \A j \in DOMAIN s : \E k \in DOMAIN new : k # at /\ from(k) = j
  <2> SUFFICES ASSUME NEW j \in DOMAIN s PROVE \E k \in DOMAIN new : k # at /\ from(k) = j
    OBVIOUS
  <2>1. CASE j < at
    BY <1>1, <1>3, <2>1
  <2>2. CASE j >= at
    <3>1. j + 1 \in DOMAIN new /\ j + 1 # at /\ from(j + 1) = j
      BY <1>1, <1>3, <2>2
    <3> QED
      BY <3>1
  <2> QED
    BY <1>1, <2>1, <2>2
<1>6. \A j, k \in DOMAIN new : j # at /\ k # at /\ from(j) = from(k) => j = k
  BY <1>1, <1>3
<1>7. at \in DOMAIN new
  BY <1>1, <1>3
<1>8. \A j, k \in DOMAIN s : s[j] = s[k] => j = k
  BY DEF Injective
<1> HIDE DEF from
<1>9. RangeOf(new) = RangeOf(s) \cup {n}
  BY <1>4, <1>5, <1>7 DEF RangeOf
<1>10. \A k \in DOMAIN new : k # at => new[k] \in RangeOf(s)
  BY <1>4 DEF RangeOf
<1>11. Injective(new)
  BY <1>4, <1>6, <1>8, <1>10 DEF Injective
<1> QED
  BY <1>9, <1>11 DEF new

----------------------------------------------------------------------------
(* The repairs of the two mappings leave the list of roots alone.          *)

IsTables(t) == DOMAIN t = {"roots", "firsts", "parents"}

\* u has the roots of t.
SameRoots(t, u) == IsTables(u) /\ u.roots = t.roots

\* The tables are a record; to set one of its fields leaves the others alone.
LEMMA TablesAre ==
    /\ IsTables(Tables) /\ Tables.roots = m_rootIndexList
    /\ \A t : IsTables(t) =>
          /\ \A e : SameRoots(t, [t EXCEPT !.parents = e]) /\ SameRoots(t, [t EXCEPT !.firsts = e])
          /\ \A e : IsTables([t EXCEPT !.roots = e]) /\ [t EXCEPT !.roots = e].roots = e
BY DEF Tables, IsTables, SameRoots

\* None of the repairs touches the list of roots.
LEMMA RepairsKeepRoots ==
    ASSUME NEW t, IsTables(t)
    PROVE  /\ \A at, start, offset : SameRoots(t, updateInternalIndexes(t, at, start, offset))
           /\ \A start, offset : SameRoots(t, updateInternalTopIndexes(t, start, offset))
           /\ \A p, row : SameRoots(t, createFirstChildMapping(t, p, row))
           /\ \A p, offset : SameRoots(t, updateFirstChildMapping(t, p, offset))
           /\ \A p, first, last : SameRoots(t, createParentMappings(t, p, first, last))
           /\ \A first, last : SameRoots(t, removeFirstChildMappings(t, first, last))
           /\ \A first, last : SameRoots(t, removeParentMappings(t, first, last))
           /\ SameRoots(t, Fetched(t))
           /\ SameRoots(t, recreated(t))
<1>1. \A u : IsTables(u) => \A e : SameRoots(u, [u EXCEPT !.parents = e])
  BY TablesAre
<1>2. \A u : IsTables(u) => \A e : SameRoots(u, [u EXCEPT !.firsts = e])
  BY TablesAre
<1>3. \A at, start, offset : SameRoots(t, updateInternalIndexes(t, at, start, offset))
  BY <1>1 DEF updateInternalIndexes
<1>4. \A start, offset : SameRoots(t, updateInternalTopIndexes(t, start, offset))
  BY <1>2, <1>3 DEF updateInternalTopIndexes, SameRoots
<1>5. \A p, row : SameRoots(t, createFirstChildMapping(t, p, row))
  BY <1>2 DEF createFirstChildMapping, SameRoots
<1>6. \A p, offset : SameRoots(t, updateFirstChildMapping(t, p, offset))
  BY <1>2 DEF updateFirstChildMapping, SameRoots
<1>7. \A p, first, last : SameRoots(t, createParentMappings(t, p, first, last))
  BY <1>1 DEF createParentMappings, SameRoots
<1>8. \A first, last : SameRoots(t, removeFirstChildMappings(t, first, last))
  BY <1>2 DEF removeFirstChildMappings
<1>9. \A first, last : SameRoots(t, removeParentMappings(t, first, last))
  BY <1>1 DEF removeParentMappings
<1>10. SameRoots(t, Fetched(t))
  BY <1>1 DEF Fetched
<1>11. SameRoots(t, recreated(t))
  BY <1>5 DEF recreated, SameRoots
<1> QED
  BY <1>3, <1>4, <1>5, <1>6, <1>7, <1>8, <1>9, <1>10, <1>11

\* endInsertRows() leaves the roots alone.
LEMMA EndInsertRowsKeepsRoots ==
    \A p, first, last : SameRoots(Tables, Fetched(endInsertRows(p, first, last)))
<1> SUFFICES ASSUME NEW p, NEW first, NEW last
             PROVE  SameRoots(Tables, Fetched(endInsertRows(p, first, last)))
  OBVIOUS
<1> DEFINE start == getProxyInitialRow(Tables, p) + first
           count == last - first + 1
           isNewParent == rowCount(p) = count
           moved == updateInternalTopIndexes(Tables, start, count)
           t == IF m_startWithChildTrees /\ IsRoot(Tables, p)
                THEN IF isNewParent THEN createFirstChildMapping(moved, p, start)
                     ELSE IF first = 0 THEN updateFirstChildMapping(moved, p, last + 1)
                     ELSE moved
                ELSE IF isNewParent
                THEN createParentMappings(Tables, parent(p), IndexRow(p), IndexRow(p))
                ELSE updateInternalIndexes(Tables, mapFromSource(Tables, p), first, count)
<1>1. SameRoots(Tables, moved)
  BY TablesAre, RepairsKeepRoots
<1>2. /\ SameRoots(moved, createFirstChildMapping(moved, p, start))
      /\ SameRoots(moved, updateFirstChildMapping(moved, p, last + 1))
  <2> HIDE DEF moved, start
  <2> QED
    BY <1>1, RepairsKeepRoots DEF SameRoots
<1>3. /\ SameRoots(Tables, createParentMappings(Tables, parent(p), IndexRow(p), IndexRow(p)))
      /\ SameRoots(Tables, updateInternalIndexes(Tables, mapFromSource(Tables, p), first, count))
  BY TablesAre, RepairsKeepRoots
<1> HIDE DEF moved, start, count, isNewParent
<1>4. SameRoots(Tables, t)
  BY <1>1, <1>2, <1>3 DEF SameRoots
<1> HIDE DEF t
<1>5. SameRoots(t, createParentMappings(t, p, first, last))
  BY <1>4, RepairsKeepRoots DEF SameRoots
<1>6. endInsertRows(p, first, last) = createParentMappings(t, p, first, last)
  BY DEF endInsertRows, t, moved, start, count, isNewParent
<1>7. SameRoots(endInsertRows(p, first, last), Fetched(endInsertRows(p, first, last)))
  BY <1>5, <1>6, RepairsKeepRoots DEF SameRoots
<1> QED
  BY <1>4, <1>5, <1>6, <1>7 DEF SameRoots

\* endRemoveRows() only erases the roots that have become invalid.
LEMMA EndRemoveRowsRoots ==
    \A p, pair : recreated(endRemoveRows(p, pair)).roots = ValidRoots(m_rootIndexList)
<1> SUFFICES ASSUME NEW p, NEW pair
             PROVE  recreated(endRemoveRows(p, pair)).roots = ValidRoots(m_rootIndexList)
  OBVIOUS
<1> DEFINE at == IF Mapped(Tables, p) THEN m_mappedParents[p] ELSE NoIndex
           count == pair[2] - pair[1] + 1
           valid == [Tables EXCEPT !.parents = [n \in DOMAIN @ \cap Present |-> @[n]]]
           erased == removeFirstChildMappings(valid, pair[1], pair[2])
           moved == IF at # NoIndex THEN updateInternalIndexes(valid, at, pair[2] + 1, -count)
                    ELSE updateInternalTopIndexes(erased, pair[2] + 1, -count)
<1>1. SameRoots(Tables, valid)
  BY TablesAre
<1> HIDE DEF valid
<1>2. /\ SameRoots(valid, erased)
      /\ SameRoots(valid, updateInternalIndexes(valid, at, pair[2] + 1, -count))
  BY <1>1, RepairsKeepRoots DEF SameRoots
<1> HIDE DEF erased, at, count
<1>3. SameRoots(erased, updateInternalTopIndexes(erased, pair[2] + 1, -count))
  <2>1. IsTables(erased)
    BY <1>2 DEF SameRoots
  <2>2. \A s, offset : SameRoots(erased, updateInternalTopIndexes(erased, s, offset))
    BY <2>1, RepairsKeepRoots
  <2> QED
    BY <2>2
<1>4. SameRoots(Tables, moved)
  BY <1>1, <1>2, <1>3 DEF SameRoots
<1> HIDE DEF moved
<1>5. endRemoveRows(p, pair) = [moved EXCEPT !.roots = ValidRoots(@)]
  BY DEF endRemoveRows, moved, erased, at, count, valid
<1>6. IsTables(endRemoveRows(p, pair)) /\ endRemoveRows(p, pair).roots = ValidRoots(m_rootIndexList)
  <2>1. IsTables(moved) /\ moved.roots = m_rootIndexList
    BY <1>4, TablesAre DEF SameRoots
  <2>2. \A t, list : IsTables(t) => /\ IsTables([t EXCEPT !.roots = list])
                                   /\ [t EXCEPT !.roots = list].roots = list
    BY TablesAre
  <2>3. endRemoveRows(p, pair) = [moved EXCEPT !.roots = ValidRoots(m_rootIndexList)]
    BY <1>5, <2>1
  <2> HIDE DEF IsTables
  <2> QED
    BY <2>1, <2>2, <2>3
<1> QED
  BY <1>6, RepairsKeepRoots DEF SameRoots

\* The repairs for a new root leave the list as it is.
LEMMA WithRootRoots == \A n : SameRoots(Tables, WithRoot(n))
<1> SUFFICES ASSUME NEW n PROVE SameRoots(Tables, WithRoot(n))
  OBVIOUS
<1> DEFINE row == RootRow(Tables, n) - 1
           start == RowsBefore(Tables, row + 1)
           shifted == updateInternalTopIndexes(Tables, start, rowCount(n))
           inner == updateInternalIndexes(Tables, NoIndex, row, 1)
           first == createFirstChildMapping(shifted, n, start)
<1>1. IsTables(Tables) /\ SameRoots(Tables, Tables)
  BY TablesAre DEF SameRoots
<1>2. SameRoots(Tables, shifted) /\ SameRoots(Tables, inner)
  BY <1>1, RepairsKeepRoots
<1> HIDE DEF shifted, inner, start
<1>3. /\ SameRoots(shifted, first)
      /\ SameRoots(inner, createParentMappings(inner, parent(n), srcRow[n], srcRow[n]))
  <2>1. IsTables(shifted) /\ IsTables(inner)
    BY <1>2 DEF SameRoots
  <2>2. \A p, r : SameRoots(shifted, createFirstChildMapping(shifted, p, r))
    BY <2>1, RepairsKeepRoots
  <2>3. \A p, f, l : SameRoots(inner, createParentMappings(inner, p, f, l))
    BY <2>1, RepairsKeepRoots
  <2> QED
    BY <2>2, <2>3
<1> HIDE DEF first
<1>4. SameRoots(first, createParentMappings(first, n, 0, rowCount(n) - 1))
  BY <1>3, RepairsKeepRoots DEF SameRoots
<1>5. WithRoot(n) = IF ~m_startWithChildTrees
                    THEN createParentMappings(inner, parent(n), srcRow[n], srcRow[n])
                    ELSE IF ~hasChildren(n) THEN Tables
                    ELSE createParentMappings(first, n, 0, rowCount(n) - 1)
  BY DEF WithRoot, inner, first, shifted, start
<1> QED
  BY <1>1, <1>2, <1>3, <1>4, <1>5 DEF SameRoots

----------------------------------------------------------------------------
(* How a call goes on.                                                     *)

\* While selectionChanged() removes and inserts roots, the call it is part of waits at
\* resume.
ChangePhases == {"changing", "rootsLeaving", "adding", "rootComing", "rootAdded"}
Where == IF phase \in ChangePhases THEN resume ELSE phase

\* The selection changes while rows come and go are those that the runs have: one at a
\* time, and none while the proxy shows rows that go.
CalmSelections == "selectRemovingShown" \notin Operations /\ MaxPending <= 1

\* Where a call can stand, what its flags are there, and where it goes on after
\* selectionChanged().
Flow ==
    /\ phase \in Phases /\ resume \in Phases
    /\ hasSource \in BOOLEAN /\ selection \subseteq Nodes /\ m_filterBehavior \in Behaviors
    /\ m_rowsInserted \in BOOLEAN /\ m_rowsRemoved \in BOOLEAN
    /\ m_resetting \in BOOLEAN /\ m_sourceModelResetting \in BOOLEAN
    /\ m_doubleResetting \in BOOLEAN /\ m_layoutChanging \in BOOLEAN
    /\ m_pendingSelectionChanges \in Seq([selected : SUBSET Nodes, deselected : SUBSET Nodes])
    /\ op \in [parent : Nodes \cup {Root}, first : Nat, last : Nat,
               target : Nodes \cup {Root}, dest : Nat]
    /\ phase \in ChangePhases =>
          resume \in {"idle", "toRemove", "inserted", "removed", "draining", "layoutRebuilt", "rebuilt"}
    /\ phase = "cleared" => resume \in {"idle", "rebuilt"}
    /\ phase \notin ChangePhases \cup {"cleared"} => resume = "idle"
    /\ ~hasSource => phase = "idle"
    /\ m_rowsInserted => phase \in {"inserting", "inserted"}
    /\ m_rowsRemoved => phase \in {"removing", "removed"}
    /\ m_sourceModelResetting <=> phase \in {"resetting", "reset"}
    /\ m_layoutChanging <=> Where = "layoutRebuilt"
    /\ m_layoutChanging => m_resetting
    /\ m_resetting => \/ Where \in {"layoutRebuilt", "resetting", "reset", "rebuilt"}
                      \/ phase = "cleared" /\ resume = "rebuilt"
    /\ Len(m_pendingSelectionChanges) <= 1
    /\ m_pendingSelectionChanges # <<>> => m_rowsInserted \/ phase = "draining"
    /\ emptied \in BOOLEAN
    /\ emptied => /\ phase \in {"relayouting", "relayouted", "idle"} /\ selection = {}
                  /\ hasSource

LEMMA FlowInit == Init => Flow
<1> SUFFICES ASSUME Init PROVE Flow
  OBVIOUS
<1>1. selection \subseteq Nodes
  BY ForestFacts DEF Init
<1>2. NoOp \in [parent : Nodes \cup {Root}, first : Nat, last : Nat,
                target : Nodes \cup {Root}, dest : Nat]
  BY DEF NoOp
<1>3. /\ m_pendingSelectionChanges = <<>> /\ op = NoOp /\ Len(m_pendingSelectionChanges) = 0
      /\ m_filterBehavior \in Behaviors
  BY DEF Init
<1>4. m_pendingSelectionChanges \in Seq([selected : SUBSET Nodes, deselected : SUBSET Nodes])
  BY <1>3
<1>5. /\ phase = "idle" /\ resume = "idle" /\ hasSource = FALSE
      /\ m_rowsInserted = FALSE /\ m_rowsRemoved = FALSE /\ m_resetting = FALSE
      /\ m_sourceModelResetting = FALSE /\ m_doubleResetting = FALSE /\ m_layoutChanging = FALSE
  BY DEF Init
<1>6. op \in [parent : Nodes \cup {Root}, first : Nat, last : Nat,
             target : Nodes \cup {Root}, dest : Nat]
  BY <1>2, <1>3
<1>7. Where = "idle" /\ phase \notin ChangePhases /\ phase \in Phases /\ resume \in Phases
  BY <1>5 DEF Where, ChangePhases, Phases
<1>8. /\ hasSource \in BOOLEAN /\ m_rowsInserted \in BOOLEAN /\ m_rowsRemoved \in BOOLEAN
      /\ m_resetting \in BOOLEAN /\ m_sourceModelResetting \in BOOLEAN
      /\ m_doubleResetting \in BOOLEAN /\ m_layoutChanging \in BOOLEAN
      /\ ~m_rowsInserted /\ ~m_rowsRemoved /\ ~m_resetting /\ ~m_sourceModelResetting
      /\ ~m_layoutChanging /\ emptied = FALSE
  BY <1>5 DEF Init
<1>9. /\ phase = "idle" /\ resume = "idle" /\ m_pendingSelectionChanges = <<>>
      /\ Len(m_pendingSelectionChanges) <= 1
  BY <1>3, <1>5
<1>10. m_filterBehavior \in Behaviors
  BY <1>3
<1> QED
  BY <1>1, <1>4, <1>6, <1>7, <1>8, <1>9, <1>10 DEF Flow

\* What is left of the waiting changes is at most one, as well.
LEMMA WaitingType ==
    ASSUME NEW T, NEW s \in Seq(T), Len(s) <= 1
    PROVE  /\ s = <<>> <=> Len(s) = 0
           /\ s # <<>> => Head(s) \in T /\ Head(s) = s[1] /\ Tail(s) \in Seq(T) /\ Tail(s) = <<>>
           /\ \A e \in T : Len(s) < 1 => /\ Append(s, e) \in Seq(T) /\ Len(Append(s, e)) = 1
                                         /\ Append(s, e) = <<e>>
<1>1. (s = <<>> <=> Len(s) = 0) /\ Len(s) \in Nat
  BY EmptySeq
<1>2. ASSUME s # <<>>
      PROVE  Head(s) \in T /\ Head(s) = s[1] /\ Tail(s) \in Seq(T) /\ Tail(s) = <<>>
  <2>1. Head(s) \in T /\ Tail(s) \in Seq(T) /\ Len(Tail(s)) = Len(s) - 1
    BY <1>2, HeadTailProperties
  <2>3. Head(s) = s[1]
    BY <1>2
  <2>2. Len(Tail(s)) = 0
    BY <1>1, <1>2, <2>1
  <2> QED
    BY <2>1, <2>2, <2>3, EmptySeq
<1>3. ASSUME NEW e \in T, Len(s) < 1
      PROVE  Append(s, e) \in Seq(T) /\ Len(Append(s, e)) = 1 /\ Append(s, e) = <<e>>
  <2>1. s = <<>>
    BY <1>1, <1>3
  <2> QED
    BY <2>1
<1> QED
  BY <1>1, <1>2, <1>3

\* Every step leads from one of these points of a call to another.
LEMMA FlowStep ==
    ASSUME CalmSelections, Flow, [Next]_vars
    PROVE  Flow'
<1> USE DEF Flow, Phases, ChangePhases, Where, Enters, Finishes
<1> DEFINE T == [selected : SUBSET Nodes, deselected : SUBSET Nodes]
<1>a. NoOp \in [parent : Nodes \cup {Root}, first : Nat, last : Nat,
                target : Nodes \cup {Root}, dest : Nat]
  BY DEF NoOp
<1>b. \A p \in Nodes \cup {Root} : rowCount(p) \in Nat
  BY RowCountType
<1>c. MaxForest \in Nat /\ MaxPending \in Nat
  BY NodesAssumption, SelectionAssumption
<1>1. CASE SetSourceModel
  BY <1>1 DEF SetSourceModel, StartsOver, BeginReset, selectVars, rowFlags, resetFlags, changeVars
<1>2. ASSUME NEW S \in SUBSET Present, NEW next,
             Selects(S, next), hasSource, ~emptied,
             \/ phase = "idle" /\ next = "idle"
             \/ phase = "inserted" /\ next = "inserted" /\ Len(m_pendingSelectionChanges) < 1
             \/ phase = "inserting" /\ next = "inserting" /\ m_rowsInserted /\ Len(m_pendingSelectionChanges) < 1
             \/ phase = "removed" /\ next = "removed" /\ ~m_rowsRemoved
             \/ phase = "reset" /\ next = "reset"
      PROVE  Flow'
  <2>1. selection' \subseteq Nodes /\ S \ selection \subseteq Nodes /\ selection \ S \subseteq Nodes
    BY <1>2 DEF Selects, Present
  <2> DEFINE e == [selected |-> S \ selection, deselected |-> selection \ S]
  <2>2. e \in T
    BY <2>1
  <2>3. CASE (m_rowsInserted \/ m_rowsRemoved) /\ ~m_sourceModelResetting
    <3>1. m_rowsInserted /\ Len(m_pendingSelectionChanges) < 1
      BY <1>2, <2>3
    <3>2. /\ m_pendingSelectionChanges' = Append(m_pendingSelectionChanges, e)
          /\ phase' = next
          /\ UNCHANGED <<resume, rowFlags, resetFlags, op, hasSource, emptied, m_filterBehavior>>
      BY <1>2, <2>3 DEF Selects, selectionChanged
    <3>3. /\ m_pendingSelectionChanges' \in Seq(T) /\ Len(m_pendingSelectionChanges') = 1
      BY <2>2, <3>1, <3>2, WaitingType
    <3> QED
      BY <1>2, <2>1, <3>1, <3>2, <3>3 DEF rowFlags, resetFlags
  <2>4. CASE ~((m_rowsInserted \/ m_rowsRemoved) /\ ~m_sourceModelResetting)
    <3>1. /\ UNCHANGED <<m_pendingSelectionChanges, rowFlags, resetFlags, op, hasSource, emptied,
                         m_filterBehavior>>
          /\ \/ phase' = next /\ resume' = "idle"
             \/ phase' = "changing" /\ resume' = next /\ ~m_sourceModelResetting
      BY <1>2, <2>4 DEF Selects, selectionChanged, Processes
    <3> QED
      BY <1>2, <2>1, <2>4, <3>1 DEF rowFlags, resetFlags
  <2> QED
    BY <2>3, <2>4
<1>3. ASSUME NEW S \in SUBSET Present, Select(S)
      PROVE  Flow'
  BY <1>2, <1>3 DEF Select, Starts
<1>4. ASSUME NEW S \in SUBSET Present, SetSelectionModel(S)
      PROVE  Flow'
  BY <1>4 DEF SetSelectionModel, MaySetSelectionModel, Starts, rowFlags, resetFlags, Present
<1>5. ASSUME NEW p \in Nodes \cup {Root}, NEW first \in 0 .. rowCount(p),
             NEW last \in first .. first + MaxForest - 1, AboutToInsert(p, first, last)
      PROVE  Flow'
  <2>1. first \in Nat /\ last \in Nat
    BY <1>b, <1>c
  <2>2. op' \in [parent : Nodes \cup {Root}, first : Nat, last : Nat,
                 target : Nodes \cup {Root}, dest : Nat]
    BY <1>5, <2>1 DEF AboutToInsert, NoOp
  <2>3. /\ phase = "idle" /\ hasSource /\ phase' = "inserting" /\ ~emptied
        /\ m_rowsInserted' \in BOOLEAN
        /\ UNCHANGED <<selectVars, resetFlags, m_rowsRemoved, resume, m_pendingSelectionChanges>>
    BY <1>5 DEF AboutToInsert, MayInsert, Starts
  <2> QED
    BY <2>2, <2>3 DEF resetFlags, selectVars
<1>6. ASSUME NEW p \in Nodes \cup {Root}, NEW last \in 0 .. rowCount(p) - 1,
             NEW first \in 0 .. last, AboutToRemove(p, first, last)
      PROVE  Flow'
  <2>1. first \in Nat /\ last \in Nat
    BY <1>b
  <2>2. op' \in [parent : Nodes \cup {Root}, first : Nat, last : Nat,
                 target : Nodes \cup {Root}, dest : Nat]
    BY <1>6, <2>1 DEF AboutToRemove, NoOp
  <2>3. /\ phase = "idle" /\ hasSource /\ selection' \subseteq Nodes /\ ~emptied
        /\ UNCHANGED <<hasSource, emptied, m_filterBehavior, rowFlags, resetFlags, m_pendingSelectionChanges>>
        /\ \/ phase' = "toRemove" /\ resume' = "idle"
           \/ phase' = "changing" /\ resume' = "toRemove"
    BY <1>6 DEF AboutToRemove, Starts, selectionChanged, Processes
  <2> QED
    BY <2>2, <2>3 DEF rowFlags, resetFlags
<1>7. ASSUME NEW p \in Nodes \cup {Root}, NEW last \in 0 .. rowCount(p) - 1,
             NEW first \in 0 .. last, NEW q \in Nodes \cup {Root}, NEW dest \in 0 .. rowCount(q),
             AboutToMove(p, first, last, q, dest)
      PROVE  Flow'
  <2>1. first \in Nat /\ last + 1 \in Nat /\ dest \in Nat
    BY <1>b
  <2>2. op' \in [parent : Nodes \cup {Root}, first : Nat, last : Nat,
                 target : Nodes \cup {Root}, dest : Nat]
    BY <1>7, <2>1 DEF AboutToMove
  <2> QED
    BY <1>7, <2>2 DEF AboutToMove, Starts, LayoutAboutToBeChanged, selectVars, rowFlags, resetFlags
<1>8. ASSUME NEW p \in Nodes \cup {Root}, AboutToRelayout(p)
      PROVE  Flow'
  <2>1. op' \in [parent : Nodes \cup {Root}, first : Nat, last : Nat,
                 target : Nodes \cup {Root}, dest : Nat]
    BY <1>8 DEF AboutToRelayout, NoOp
  <2> QED
    BY <1>8, <2>1 DEF AboutToRelayout, Starts, LayoutAboutToBeChanged, selectVars, rowFlags, resetFlags
<1>9. CASE AboutToReset
  BY <1>9 DEF AboutToReset, BeginReset, Starts, selectVars, rowFlags
<1>10. ASSUME NEW behavior \in Behaviors, SetFilterBehavior(behavior)
       PROVE  Flow'
  BY <1>10 DEF SetFilterBehavior, Starts, StartsOver, BeginReset, rowFlags
<1>11. CASE AnnounceRootsLeaving
  BY <1>11 DEF AnnounceRootsLeaving, selectVars, rowFlags, resetFlags
<1>12. CASE RemoveRoots
  BY <1>12 DEF RemoveRoots, selectVars, rowFlags, resetFlags
<1>13. CASE AnnounceRoot
  BY <1>13 DEF AnnounceRoot, Inserting, RootsRemoved, selectVars, rowFlags, resetFlags
<1>14. CASE InsertRoot
  BY <1>14 DEF InsertRoot, selectVars, rowFlags, resetFlags
<1>32. CASE ListRoot
  BY <1>32 DEF ListRoot, Inserting, RootsRemoved, selectVars, rowFlags, resetFlags
<1>15. CASE FinishChange
  BY <1>15, <1>a DEF FinishChange, RootsRemoved, selectVars, rowFlags, resetFlags
<1>16. ASSUME NEW f \in Forests, SourceInserts(f)
       PROVE  Flow'
  BY <1>16 DEF SourceInserts, selectVars, rowFlags, resetFlags
<1>17. CASE HandleRowsInserted
  <2>1. /\ phase = "inserted"
        /\ UNCHANGED <<selectVars, resetFlags, m_rowsRemoved, m_pendingSelectionChanges, resume>>
        /\ \/ ~m_rowsInserted /\ m_rowsInserted' = FALSE /\ phase' = "idle" /\ op' = NoOp
           \/ m_rowsInserted' = FALSE /\ phase' = "draining" /\ op' = op
    BY <1>17 DEF HandleRowsInserted
  <2>2. CASE op' = NoOp /\ ~m_rowsInserted
    BY <2>1, <2>2, <1>a DEF selectVars, resetFlags
  <2>3. CASE op' = op
    BY <2>1, <2>3 DEF selectVars, resetFlags
  <2> QED
    BY <2>1, <2>2, <2>3
<1>18. CASE DrainPending
  <2>1. /\ phase = "draining" /\ m_pendingSelectionChanges # <<>> /\ ~m_sourceModelResetting
        /\ UNCHANGED <<selectVars, rowFlags, resetFlags, op>>
        /\ m_pendingSelectionChanges' = Tail(m_pendingSelectionChanges)
        /\ \/ phase' = "draining" /\ resume' = "idle"
           \/ phase' = "changing" /\ resume' = "draining"
    BY <1>18 DEF DrainPending, Processes
  <2>2. m_pendingSelectionChanges' \in Seq(T) /\ m_pendingSelectionChanges' = <<>>
    BY <2>1, WaitingType
  <2> QED
    BY <2>1, <2>2 DEF selectVars, rowFlags, resetFlags
<1>19. CASE FinishInsert
  BY <1>19, <1>a DEF FinishInsert, selectVars, rowFlags, resetFlags
<1>20. CASE HandleRowsAboutToBeRemoved
  BY <1>20 DEF HandleRowsAboutToBeRemoved, selectVars, rowFlags, resetFlags
<1>21. CASE SourceRemoves
  BY <1>21 DEF SourceRemoves, selectVars, rowFlags, resetFlags
<1>22. CASE HandleRowsRemoved
  <2>1. /\ phase = "removed" /\ phase' = "idle" /\ op' = NoOp
        /\ UNCHANGED <<selectVars, resetFlags, m_rowsInserted, m_pendingSelectionChanges, resume>>
        /\ m_rowsRemoved' = FALSE
    BY <1>22 DEF HandleRowsRemoved, rowFlags
  <2> QED
    BY <2>1, <1>a DEF selectVars, resetFlags
<1>23. CASE SourceRelayouts
  BY <1>23 DEF SourceRelayouts, selectVars, rowFlags, resetFlags
<1>24. CASE HandleLayoutChanged
  <2>1. /\ phase = "relayouted"
        /\ UNCHANGED <<selectVars, rowFlags, m_sourceModelResetting, m_doubleResetting, m_pendingSelectionChanges>>
        /\ \/ phase' = "idle" /\ op' = NoOp /\ UNCHANGED <<resume, m_resetting, m_layoutChanging>>
           \/ /\ selection # {} /\ m_resetting' = TRUE /\ m_layoutChanging' = TRUE /\ op' = op
              /\ Processes(selection, {}, "layoutRebuilt")
    BY <1>24 DEF HandleLayoutChanged
  <2>2. \/ phase' = "idle" /\ op' = NoOp /\ UNCHANGED <<resume, m_resetting, m_layoutChanging>>
        \/ /\ ~emptied /\ m_resetting' = TRUE /\ m_layoutChanging' = TRUE /\ op' = op
           /\ phase' = "changing" /\ resume' = "layoutRebuilt"
    BY <2>1 DEF Processes, selectVars
  <2>3. CASE op' = NoOp /\ phase' = "idle" /\ UNCHANGED <<resume, m_resetting, m_layoutChanging>>
    BY <2>1, <2>3, <1>a DEF selectVars, rowFlags
  <2>4. CASE /\ ~emptied /\ m_resetting' = TRUE /\ m_layoutChanging' = TRUE /\ op' = op
             /\ phase' = "changing" /\ resume' = "layoutRebuilt"
    BY <2>1, <2>4 DEF selectVars, rowFlags
  <2> QED
    BY <2>2, <2>3, <2>4
<1>25. CASE FinishLayout
  BY <1>25, <1>a DEF FinishLayout, selectVars, rowFlags
<1>26. ASSUME NEW f \in Forests, SourceResets(f)
       PROVE  Flow'
  BY <1>26 DEF SourceResets, rowFlags, resetFlags
<1>27. CASE HandleModelReset
  BY <1>27 DEF HandleModelReset, selectVars, rowFlags
<1>28. CASE Rebuild
  <2>1. /\ phase = "cleared"
        /\ UNCHANGED <<selectVars, rowFlags, resetFlags, op, m_pendingSelectionChanges>>
        /\ \/ phase' = resume /\ resume' = "idle"
           \/ phase' = "changing" /\ resume' = resume
    BY <1>28 DEF Rebuild, Processes
  <2> QED
    BY <2>1 DEF selectVars, rowFlags, resetFlags
<1>29. CASE FinishReset
  BY <1>29, <1>a DEF FinishReset, selectVars, rowFlags
<1>30. ASSUME NEW S \in SUBSET Present, SelectInserting(S) \/ SelectRemoving(S) \/ SelectResetting(S)
       PROVE  Flow'
  <2>1. CASE SelectInserting(S)
    <3>1. /\ hasSource /\ ~emptied /\ Len(m_pendingSelectionChanges) < 1 /\ Selects(S, phase)
          /\ phase = "inserted" \/ (phase = "inserting" /\ m_rowsInserted)
      <4>1. Len(m_pendingSelectionChanges) < MaxPending /\ Len(m_pendingSelectionChanges) \in Nat
        BY <2>1 DEF SelectInserting
      <4>2. Len(m_pendingSelectionChanges) < 1
        BY <4>1, <1>c DEF CalmSelections
      <4> QED
        BY <2>1, <4>2 DEF SelectInserting
    <3> QED
      BY <1>2, <3>1
  <2>2. CASE SelectRemoving(S)
    BY <1>2, <2>2 DEF SelectRemoving, CalmSelections
  <2>3. CASE SelectResetting(S)
    BY <1>2, <2>3 DEF SelectResetting
  <2> QED
    BY <1>30, <2>1, <2>2, <2>3
<1>31. CASE UNCHANGED vars
  BY <1>31 DEF vars, selectVars, rowFlags, resetFlags, changeVars
<1>33. CASE ClearRelayouting
  BY <1>33 DEF ClearRelayouting, rowFlags, resetFlags, changeVars
<1> QED
  BY <1>1, <1>3, <1>4, <1>5, <1>6, <1>7, <1>8, <1>9, <1>10, <1>11, <1>12, <1>13, <1>14, <1>15,
     <1>16, <1>17, <1>18, <1>19, <1>20, <1>21, <1>22, <1>23, <1>24, <1>25, <1>26, <1>27, <1>28,
     <1>29, <1>30, <1>31, <1>32, <1>33 DEF Next, Begins, Continues, Interrupts

----------------------------------------------------------------------------
(* What the running call is about is there.                                *)

\* Nothing about the tree changes while its variables stay.
LEMMA SameTree ==
    ASSUME UNCHANGED srcVars
    PROVE  /\ Present' = Present /\ SelfAndAbove' = SelfAndAbove
           /\ \A n : Above(n)' = Above(n) /\ parent(n)' = parent(n)
           /\ \A p : rowCount(p)' = rowCount(p)
           /\ \A p, first, last : InRows(p, first, last)' = InRows(p, first, last)
           /\ \A p, first, last, q, dest :
                  CanMove(p, first, last, q, dest)' <=> CanMove(p, first, last, q, dest)
<1>1. srcParent' = srcParent /\ srcRow' = srcRow
  BY DEF srcVars
<1>2. Present' = Present /\ SelfAndAbove' = SelfAndAbove
  BY <1>1 DEF Present, SelfAndAbove
<1>3. \A n : Above(n)' = Above(n) /\ parent(n)' = parent(n)
  BY <1>1, <1>2 DEF Above, parent
<1>4. \A p : rowCount(p)' = rowCount(p)
  BY <1>1 DEF rowCount, Children
<1>5. \A p, first, last : InRows(p, first, last)' = InRows(p, first, last)
  BY <1>1, <1>2 DEF InRows
<1>6. \A p, first, last, q, dest :
          CanMove(p, first, last, q, dest)' <=> CanMove(p, first, last, q, dest)
  BY <1>5 DEF CanMove
<1> QED
  BY <1>2, <1>3, <1>4, <1>5, <1>6

\* The source is a tree whose rows are numbered from 0.
TreeOK == SourceTypeOK /\ IsTree(srcParent) /\ Numbered(srcParent, srcRow)

\* The selection is in the source, and so are the rows that the running call is about;
\* none of those that are about to go is selected.
Scope ==
    /\ TreeOK
    /\ selection \subseteq Present
    /\ \A p, first, last, q, dest :
          op = [parent |-> p, first |-> first, last |-> last, target |-> q, dest |-> dest] =>
          /\ phase = "inserting" => p \in Present \cup {Root} /\ first \in 0 .. rowCount(p)
          /\ Where \in {"toRemove", "removing"} =>
                /\ p \in Present \cup {Root} /\ first <= last /\ last < rowCount(p)
                /\ selection \cap InRows(p, first, last) = {}
          /\ phase = "relayouting" =>
                /\ p \in Present \cup {Root} /\ q \in Present \cup {Root}
                /\ last > 0 => /\ first <= last - 1 /\ last - 1 < rowCount(p)
                               /\ dest \in 0 .. rowCount(q)
                               /\ CanMove(p, first, last - 1, q, dest)
    /\ \A selected, deselected :
          m_pendingSelectionChanges = <<[selected |-> selected, deselected |-> deselected]>> =>
          selected \subseteq selection /\ deselected \subseteq Present \ selection

\* What Scope says of the call while the tree and the selection stay.
LEMMA ScopeKept ==
    ASSUME Scope, UNCHANGED <<srcVars, selection, op, m_pendingSelectionChanges>>,
           phase' = "inserting" => phase = "inserting",
           Where' \in {"toRemove", "removing"} => Where \in {"toRemove", "removing"},
           phase' = "relayouting" => phase = "relayouting"
    PROVE  Scope'
<1>1. TreeOK'
  BY DEF Scope, TreeOK, SourceTypeOK, IsTree, Numbered, srcVars, In
<1> QED
  BY <1>1, SameTree DEF Scope

\* Where the call asks nothing of its arguments any more.
LEMMA ScopeFree ==
    ASSUME TreeOK', selection' \subseteq Present',
           phase' \notin {"inserting", "relayouting"}, Where' \notin {"toRemove", "removing"},
           \A selected, deselected :
              m_pendingSelectionChanges' = <<[selected |-> selected, deselected |-> deselected]>> =>
              selected \subseteq selection' /\ deselected \subseteq Present' \ selection'
    PROVE  Scope'
BY DEF Scope

LEMMA TreeKept == TreeOK /\ UNCHANGED srcVars => TreeOK'
BY DEF TreeOK, SourceTypeOK, IsTree, Numbered, srcVars, In

LEMMA PresentIs == Present = In(srcParent) /\ Present' = In(srcParent')
BY DEF Present, In

LEMMA ScopeInit == Init => Scope
<1> SUFFICES ASSUME Init PROVE Scope
  OBVIOUS
<1>1. PICK f \in Forests :
         /\ srcParent = [n \in Nodes |-> IF n \in DOMAIN f THEN f[n].parent ELSE Absent]
         /\ srcRow = [n \in Nodes |-> IF n \in DOMAIN f THEN f[n].row ELSE 0]
         /\ selection \in SUBSET DOMAIN f
  BY DEF Init
<1>2. DOMAIN f \in SUBSET Nodes /\ \A n \in DOMAIN f : f[n].parent \in DOMAIN f \cup {Root}
  BY ForestFacts
<1>3. DOMAIN f \subseteq Present
  BY <1>1, <1>2, NodesAssumption DEF Present
<1>4. SourceTypeOK
  BY <1>1, ForestFacts DEF SourceTypeOK
<1>5. IsTree(srcParent)
  BY <1>1, ForestIsTree
<1>6. Numbered(srcParent, srcRow)
  BY <1>1, ForestIsNumbered
<1>7. phase = "idle" /\ m_pendingSelectionChanges = <<>>
  BY DEF Init
<1> QED
  BY <1>1, <1>3, <1>4, <1>5, <1>6, <1>7 DEF Scope, TreeOK, Where, ChangePhases

\* The arguments of a call stay about rows of the source until it has changed.
LEMMA ScopeStep ==
    ASSUME CalmSelections, Flow, Flow', Scope, [Next]_vars
    PROVE  Scope'
<1> USE DEF Enters, Finishes, ChangePhases, Where
<1>a. TreeOK /\ selection \subseteq Present
  BY DEF Scope
<1>b. \A p, first, last, q, dest :
        op = [parent |-> p, first |-> first, last |-> last, target |-> q, dest |-> dest] =>
          /\ phase = "inserting" => p \in Present \cup {Root} /\ first \in 0 .. rowCount(p)
          /\ Where \in {"toRemove", "removing"} =>
                /\ p \in Present \cup {Root} /\ first <= last /\ last < rowCount(p)
                /\ selection \cap InRows(p, first, last) = {}
          /\ phase = "relayouting" =>
                /\ p \in Present \cup {Root} /\ q \in Present \cup {Root}
                /\ last > 0 => /\ first <= last - 1 /\ last - 1 < rowCount(p)
                               /\ dest \in 0 .. rowCount(q)
                               /\ CanMove(p, first, last - 1, q, dest)
  BY DEF Scope
<1>c. \A selected, deselected :
          m_pendingSelectionChanges = <<[selected |-> selected, deselected |-> deselected]>> =>
          selected \subseteq selection /\ deselected \subseteq Present \ selection
  BY DEF Scope
<1>d. UNCHANGED srcVars => TreeOK' /\ Present' = Present
  BY <1>a, TreeKept, SameTree
<1>e. m_pendingSelectionChanges = <<>> \/ phase \in {"inserting", "inserted", "draining"}
  BY DEF Flow
\* What there is of the arguments.
<1> DEFINE p == op.parent
           first == op.first
           last == op.last
           q == op.target
           dest == op.dest
<1>f. /\ op = [parent |-> p, first |-> first, last |-> last, target |-> q, dest |-> dest]
      /\ p \in Nodes \cup {Root} /\ q \in Nodes \cup {Root}
      /\ first \in Nat /\ last \in Nat /\ dest \in Nat
  BY DEF Flow
<1>1. CASE SetSourceModel
  BY <1>1, <1>a, <1>c, <1>d, ScopeFree DEF SetSourceModel, StartsOver
<1>2. ASSUME NEW S \in SUBSET Present, NEW next,
             Selects(S, next), hasSource,
             next = phase, phase \in {"idle", "inserted", "inserting", "removed", "reset"},
             m_pendingSelectionChanges = <<>>,
             phase = "inserting" => m_rowsInserted
      PROVE  Scope'
  <2>0. UNCHANGED srcVars /\ selection' = S /\ UNCHANGED op
    BY <1>2 DEF Selects
  <2> DEFINE e == [selected |-> S \ selection, deselected |-> selection \ S]
  <2>1. CASE (m_rowsInserted \/ m_rowsRemoved) /\ ~m_sourceModelResetting
    <3>1. /\ m_pendingSelectionChanges' = Append(m_pendingSelectionChanges, e)
          /\ phase' = phase /\ UNCHANGED resume
      BY <1>2, <2>1 DEF Selects, selectionChanged
    <3>2. m_pendingSelectionChanges' = <<e>>
      BY <1>2, <3>1
    <3>3. \A selected, deselected :
            m_pendingSelectionChanges' = <<[selected |-> selected, deselected |-> deselected]>> =>
              selected \subseteq selection' /\ deselected \subseteq Present' \ selection'
      <4> SUFFICES ASSUME NEW sel, NEW des,
                          m_pendingSelectionChanges' = <<[selected |-> sel, deselected |-> des]>>
                   PROVE  sel \subseteq selection' /\ des \subseteq Present' \ selection'
        OBVIOUS
      <4>1. [selected |-> sel, deselected |-> des] = e
        BY <3>2
      <4>2. sel = S \ selection /\ des = selection \ S
        BY <4>1
      <4> QED
        BY <4>2, <2>0, <1>a, <1>d
    <3>4. CASE phase = "inserting"
      BY <1>2, <1>b, <1>d, <2>0, <3>1, <3>3, <3>4, SameTree DEF Scope
    <3>5. CASE phase # "inserting"
      BY <1>2, <1>d, <2>0, <3>1, <3>3, <3>5, ScopeFree
    <3> QED
      BY <3>4, <3>5
  <2>2. CASE ~((m_rowsInserted \/ m_rowsRemoved) /\ ~m_sourceModelResetting)
    <3>1. /\ m_pendingSelectionChanges' = <<>>
          /\ phase # "inserting"
          /\ \/ phase' = phase
             \/ phase' = "changing" /\ resume' = phase
      BY <1>2, <2>2 DEF Selects, selectionChanged, Processes, Flow
    <3> QED
      BY <1>2, <1>d, <2>0, <3>1, ScopeFree
  <2> QED
    BY <2>1, <2>2
<1>3. ASSUME NEW S \in SUBSET Present, Select(S)
      PROVE  Scope'
  BY <1>2, <1>3, <1>e DEF Select, Starts
<1>4. ASSUME NEW S \in SUBSET Present, SetSelectionModel(S)
      PROVE  Scope'
  BY <1>4, <1>d, <1>e, ScopeFree DEF SetSelectionModel, MaySetSelectionModel, Starts
<1>5. ASSUME NEW x \in Nodes \cup {Root}, NEW y \in 0 .. rowCount(x),
             NEW z \in y .. y + MaxForest - 1, AboutToInsert(x, y, z)
      PROVE  Scope'
  <2>1. /\ UNCHANGED <<srcVars, selection, m_pendingSelectionChanges>>
        /\ phase' = "inserting" /\ x \in Present \cup {Root}
        /\ op' = [parent |-> x, first |-> y, last |-> z, target |-> Root, dest |-> 0]
        /\ y \in 0 .. rowCount(x)
    BY <1>5 DEF AboutToInsert, NoOp, selectVars
  <2> QED
    BY <2>1, <1>a, <1>c, <1>d, SameTree DEF Scope
<1>6. ASSUME NEW x \in Nodes \cup {Root}, NEW z \in 0 .. rowCount(x) - 1,
             NEW y \in 0 .. z, AboutToRemove(x, y, z)
      PROVE  Scope'
  <2>1. /\ phase = "idle" /\ UNCHANGED <<srcVars, m_pendingSelectionChanges>>
        /\ selection' = selection \ InRows(x, y, z) /\ x \in Present \cup {Root}
        /\ op' = [parent |-> x, first |-> y, last |-> z, target |-> Root, dest |-> 0]
        /\ y <= z /\ z < rowCount(x)
        /\ phase' \in {"toRemove", "changing"}
    BY <1>6 DEF AboutToRemove, NoOp, Starts, selectionChanged, Processes, Flow
  <2> QED
    BY <2>1, <1>a, <1>d, <1>e, SameTree DEF Scope
<1>7. ASSUME NEW x \in Nodes \cup {Root}, NEW z \in 0 .. rowCount(x) - 1,
             NEW y \in 0 .. z, NEW w \in Nodes \cup {Root}, NEW d \in 0 .. rowCount(w),
             AboutToMove(x, y, z, w, d)
      PROVE  Scope'
  <2>1. /\ phase = "idle" /\ UNCHANGED <<srcVars, selection, m_pendingSelectionChanges>>
        /\ x \in Present \cup {Root} /\ w \in Present \cup {Root}
        /\ op' = [parent |-> x, first |-> y, last |-> z + 1, target |-> w, dest |-> d]
        /\ y <= z /\ z < rowCount(x) /\ d \in 0 .. rowCount(w) /\ CanMove(x, y, z, w, d)
        /\ phase' = "relayouting"
    BY <1>7 DEF AboutToMove, Starts, LayoutAboutToBeChanged, selectVars
  <2>2. y \in Nat /\ z \in Nat /\ (z + 1) - 1 = z
    BY RowCountType
  <2> HIDE DEF p, first, last, q, dest
  <2>3. Scope'
    <3> SUFFICES ASSUME NEW x2, NEW y2, NEW z2, NEW w2, NEW d2,
                        op' = [parent |-> x2, first |-> y2, last |-> z2, target |-> w2, dest |-> d2]
                 PROVE  /\ x2 \in Present' \cup {Root} /\ w2 \in Present' \cup {Root}
                        /\ z2 > 0 => /\ y2 <= z2 - 1 /\ z2 - 1 < rowCount(x2)'
                                     /\ d2 \in 0 .. rowCount(w2)'
                                     /\ CanMove(x2, y2, z2 - 1, w2, d2)'
      BY <2>1, <1>a, <1>d, <1>c, <1>e DEF Scope
    <3>1. x2 = x /\ y2 = y /\ z2 = z + 1 /\ w2 = w /\ d2 = d
      BY <2>1
    <3> QED
      BY <2>1, <2>2, <3>1, <1>d, SameTree
  <2> QED
    BY <2>3
<1>8. ASSUME NEW x \in Nodes \cup {Root}, AboutToRelayout(x)
      PROVE  Scope'
  <2>1. /\ phase = "idle" /\ UNCHANGED <<srcVars, selection, m_pendingSelectionChanges>>
        /\ x \in Present \cup {Root}
        /\ op' = [parent |-> x, first |-> 0, last |-> 0, target |-> x, dest |-> 0]
        /\ phase' = "relayouting"
    BY <1>8 DEF AboutToRelayout, Starts, LayoutAboutToBeChanged, selectVars, NoOp
  <2> QED
    BY <2>1, <1>a, <1>c, <1>d, <1>e, SameTree DEF Scope
<1>9. CASE AboutToReset
  BY <1>9, <1>a, <1>c, <1>d, <1>e, ScopeFree DEF AboutToReset, Starts, selectVars
<1>10. ASSUME NEW behavior \in Behaviors, SetFilterBehavior(behavior)
       PROVE  Scope'
  BY <1>10, <1>a, <1>c, <1>d, ScopeFree DEF SetFilterBehavior, Starts, StartsOver
<1>11. CASE AnnounceRootsLeaving
  BY <1>11, ScopeKept DEF AnnounceRootsLeaving, selectVars
<1>12. CASE RemoveRoots
  BY <1>12, ScopeKept DEF RemoveRoots, selectVars
<1>13. CASE AnnounceRoot
  BY <1>13, ScopeKept DEF AnnounceRoot, Inserting, RootsRemoved, selectVars
<1>14. CASE InsertRoot
  BY <1>14, ScopeKept DEF InsertRoot, selectVars
<1>32. CASE ListRoot
  BY <1>32, ScopeKept DEF ListRoot, Inserting, RootsRemoved, selectVars
<1>15. CASE FinishChange
  <2>1. /\ phase \in ChangePhases /\ phase' = resume /\ resume' = "idle"
        /\ UNCHANGED <<srcVars, selection, m_pendingSelectionChanges>>
        /\ op' = IF resume = "idle" THEN NoOp ELSE op
    BY <1>15 DEF FinishChange, RootsRemoved, selectVars
  <2>2. CASE resume = "idle"
    BY <2>1, <2>2, <1>a, <1>c, <1>d, ScopeFree
  <2>3. CASE resume # "idle"
    BY <2>1, <2>3, ScopeKept DEF Flow
  <2> QED
    BY <2>2, <2>3
<1>16. ASSUME NEW f \in Forests, SourceInserts(f)
       PROVE  Scope'
  <2>1. /\ phase = "inserting" /\ DOMAIN f \subseteq Nodes \ Present /\ InsertRows(f, p, first)
        /\ UNCHANGED <<selection, m_pendingSelectionChanges>> /\ phase' = "inserted"
    BY <1>16 DEF SourceInserts, Fresh, selectVars
  <2>2. p \in Present \cup {Root} /\ first \in 0 .. rowCount(p)
    BY <1>b, <1>f, <2>1
  <2> HIDE DEF p, first, last, q, dest
  <2>3. SourceTypeOK' /\ Numbered(srcParent', srcRow')
    BY <1>a, <1>f, <2>1, <2>2, InsertRowsType, InsertRowsNumbers DEF TreeOK
  <2>4. IsTree(srcParent') /\ Present \subseteq In(srcParent')
    BY <1>a, <2>1, <2>2, InsertRowsKeepsTree DEF TreeOK
  <2>5. TreeOK' /\ Present \subseteq Present'
    BY <2>3, <2>4, PresentIs DEF TreeOK
  <2> QED
    BY <1>a, <1>c, <2>1, <2>5, ScopeFree
<1>17. CASE HandleRowsInserted
  BY <1>17, <1>a, <1>c, <1>d, ScopeFree DEF HandleRowsInserted, selectVars
<1>18. CASE DrainPending
  <2>1. /\ phase = "draining" /\ m_pendingSelectionChanges # <<>>
        /\ UNCHANGED <<srcVars, selection>>
        /\ m_pendingSelectionChanges' = Tail(m_pendingSelectionChanges)
        /\ \/ phase' = "draining"
           \/ phase' = "changing" /\ resume' = "draining"
    BY <1>18 DEF DrainPending, Processes, selectVars
  <2>2. m_pendingSelectionChanges' = <<>>
    BY <2>1, WaitingType DEF Flow
  <2> QED
    BY <1>a, <1>d, <2>1, <2>2, ScopeFree
<1>19. CASE FinishInsert
  BY <1>19, <1>a, <1>c, <1>d, ScopeFree DEF FinishInsert, selectVars
<1>20. CASE HandleRowsAboutToBeRemoved
  BY <1>20, ScopeKept DEF HandleRowsAboutToBeRemoved, selectVars
<1>21. CASE SourceRemoves
  <2>1. /\ phase = "removing" /\ RemoveRows(p, first, last)
        /\ UNCHANGED <<selection, m_pendingSelectionChanges>> /\ phase' = "removed"
    BY <1>21 DEF SourceRemoves, selectVars
  <2>2. /\ p \in Present \cup {Root} /\ first <= last /\ last < rowCount(p)
        /\ selection \cap InRows(p, first, last) = {}
    BY <1>b, <1>f, <2>1
  <2> HIDE DEF p, first, last, q, dest
  <2>3. SourceTypeOK' /\ Numbered(srcParent', srcRow')
    BY <1>a, <1>f, <2>1, <2>2, RemoveRowsType, RemoveRowsNumbers DEF TreeOK
  <2>4. IsTree(srcParent') /\ In(srcParent') = Present \ InRows(p, first, last)
    BY <1>a, <2>1, <2>2, RemoveRowsKeepsTree DEF TreeOK
  <2>5. TreeOK' /\ Present' = Present \ InRows(p, first, last)
    BY <2>3, <2>4, PresentIs DEF TreeOK
  <2> QED
    BY <1>a, <1>e, <2>1, <2>2, <2>5, ScopeFree
<1>22. CASE HandleRowsRemoved
  BY <1>22, <1>a, <1>c, <1>d, ScopeFree DEF HandleRowsRemoved, selectVars
<1>23. CASE SourceRelayouts
  <2>1. /\ phase = "relayouting"
        /\ IF last > 0 THEN MoveRows(p, first, last - 1, q, dest) ELSE Reorder(p)
        /\ UNCHANGED <<selection, m_pendingSelectionChanges>> /\ phase' = "relayouted"
    BY <1>23 DEF SourceRelayouts, selectVars
  <2>2. /\ p \in Present \cup {Root} /\ q \in Present \cup {Root}
        /\ last > 0 => /\ first <= last - 1 /\ last - 1 < rowCount(p)
                       /\ dest \in 0 .. rowCount(q)
                       /\ CanMove(p, first, last - 1, q, dest)
    BY <1>b, <1>f, <2>1
  <2> HIDE DEF p, first, last, q, dest
  <2>3. CASE last > 0
    <3> DEFINE l == last - 1
    <3>1. l \in Nat /\ first <= l /\ l < rowCount(p) /\ dest \in 0 .. rowCount(q)
          /\ CanMove(p, first, l, q, dest) /\ MoveRows(p, first, l, q, dest)
      BY <1>f, <2>1, <2>2, <2>3
    <3> HIDE DEF l
    <3>2. SourceTypeOK' /\ Numbered(srcParent', srcRow')
      BY <1>a, <1>f, <2>2, <3>1, MoveRowsType, MoveRowsNumbers DEF TreeOK
    <3>3. IsTree(srcParent') /\ In(srcParent') = Present
      BY <1>a, <2>2, <3>1, MoveRowsKeepsTree DEF TreeOK
    <3> QED
      BY <1>a, <1>e, <2>1, <3>2, <3>3, PresentIs, ScopeFree DEF TreeOK
  <2>4. CASE ~(last > 0)
    <3>1. Reorder(p) /\ srcParent' = srcParent
      BY <2>1, <2>4 DEF Reorder
    <3>2. SourceTypeOK' /\ Numbered(srcParent', srcRow')
      BY <1>a, <3>1, ReorderType, ReorderNumbers DEF TreeOK
    <3>3. IsTree(srcParent') /\ Present' = Present
      BY <1>a, <3>1, PresentIs DEF TreeOK
    <3> QED
      BY <1>a, <1>e, <2>1, <3>2, <3>3, ScopeFree DEF TreeOK
  <2> QED
    BY <2>3, <2>4
<1>24. CASE HandleLayoutChanged
  <2>1. /\ UNCHANGED <<srcVars, selection, m_pendingSelectionChanges>>
        /\ phase' \in {"idle", "layoutRebuilt", "changing"}
        /\ phase' = "changing" => resume' = "layoutRebuilt"
    BY <1>24 DEF HandleLayoutChanged, selectVars, Processes
  <2> QED
    BY <1>a, <1>c, <1>d, <2>1, ScopeFree
<1>25. CASE FinishLayout
  BY <1>25, <1>a, <1>c, <1>d, ScopeFree DEF FinishLayout, selectVars
<1>26. ASSUME NEW f \in Forests, SourceResets(f)
       PROVE  Scope'
  <2>1. /\ phase = "resetting" /\ ReplaceAll(f) /\ selection' = {} /\ phase' = "reset"
        /\ UNCHANGED m_pendingSelectionChanges
    BY <1>26 DEF SourceResets
  <2>2. TreeOK'
    BY <2>1, ReplaceAllType, ReplaceAllMakesTree, ReplaceAllNumbers DEF TreeOK
  <2> QED
    BY <1>e, <2>1, <2>2, ScopeFree
<1>27. CASE HandleModelReset
  BY <1>27, <1>a, <1>c, <1>d, ScopeFree DEF HandleModelReset, selectVars
<1>28. CASE Rebuild
  <2>1. /\ phase = "cleared" /\ UNCHANGED <<srcVars, selection, m_pendingSelectionChanges>>
        /\ \/ phase' = resume
           \/ phase' = "changing" /\ resume' = resume
    BY <1>28 DEF Rebuild, Processes, selectVars
  <2> QED
    BY <1>a, <1>c, <1>d, <2>1, ScopeFree DEF Flow
<1>29. CASE FinishReset
  BY <1>29, <1>a, <1>c, <1>d, ScopeFree DEF FinishReset, selectVars
<1>30. ASSUME NEW S \in SUBSET Present, SelectInserting(S) \/ SelectRemoving(S) \/ SelectResetting(S)
       PROVE  Scope'
  <2>1. MaxPending \in Nat /\ MaxPending <= 1
    BY SelectionAssumption DEF CalmSelections
  <2>2. Len(m_pendingSelectionChanges) < MaxPending => m_pendingSelectionChanges = <<>>
    BY <2>1, WaitingType DEF Flow
  <2>3. CASE SelectInserting(S)
    BY <1>2, <2>2, <2>3 DEF SelectInserting, Flow
  <2>4. CASE SelectRemoving(S)
    BY <1>2, <1>e, <2>4 DEF SelectRemoving, CalmSelections, Flow
  <2>5. CASE SelectResetting(S)
    BY <1>2, <1>e, <2>5 DEF SelectResetting, Flow
  <2> QED
    BY <1>30, <2>3, <2>4, <2>5
<1>31. CASE UNCHANGED vars
  BY <1>31, ScopeKept DEF vars, selectVars, changeVars
<1>33. CASE ClearRelayouting
  <2>1. /\ phase' = phase /\ phase \in {"relayouting", "relayouted"} /\ resume' = resume
        /\ UNCHANGED <<srcVars, op, m_pendingSelectionChanges>> /\ selection' = {}
    BY <1>33 DEF ClearRelayouting, changeVars
  <2>2. m_pendingSelectionChanges' = <<>>
    BY <1>e, <2>1
  <2>3. TreeOK'
    BY <2>1, TreeKept DEF Scope
  <2>4. Where' \notin {"toRemove", "removing"}
    BY <2>1 DEF Where, ChangePhases
  <2> QED
    BY <2>1, <2>2, <2>3, <2>4, SameTree DEF Scope
<1> QED
  BY <1>1, <1>3, <1>4, <1>5, <1>6, <1>7, <1>8, <1>9, <1>10, <1>11, <1>12, <1>13, <1>14, <1>15,
     <1>16, <1>17, <1>18, <1>19, <1>20, <1>21, <1>22, <1>23, <1>24, <1>25, <1>26, <1>27, <1>28,
     <1>29, <1>30, <1>31, <1>32, <1>33 DEF Next, Begins, Continues, Interrupts

----------------------------------------------------------------------------
(* The search for the place of a new root.                                 *)

\* The closest ancestor of i that is on the path of a root is the parent of t, the
\* first index on the way down to i that no root lies below.
LEMMA CommonParentIs ==
    ASSUME IsTree(srcParent), NEW list \in Seq(Nodes), list # <<>>, RangeOf(list) \subseteq Present,
           NEW i \in Present
    PROVE  \E t \in SelfAndAbove[i] :
              /\ commonParent(list, i) = srcParent[t]
              /\ t = i \/ \A k \in DOMAIN list : t \notin SelfAndAbove[list[k]]
              /\ \E k \in DOMAIN list : OnPath(list, k, srcParent[t])
<1> DEFINE paths == {a \in Present : \E k \in DOMAIN list : a \in SelfAndAbove[list[k]]}
           D == Above(i) \ paths
           common == {a \in Above(i) \cup {Root} : \E k \in DOMAIN list : OnPath(list, k, a)}
<1>1. \A n \in Present : /\ SelfAndAbove[n] = {n} \cup Above(n)
                        /\ Above(n) \subseteq Present /\ n \notin Above(n)
                        /\ \A a \in Above(n) : Above(a) \subseteq Above(n)
  BY AboveFacts
<1>2. Root \notin Present
  BY NodesAssumption DEF Present
<1>3. \E k \in DOMAIN list : TRUE
  <2>1. Len(list) \in Nat \ {0} /\ DOMAIN list = 1 .. Len(list)
    BY EmptySeq
  <2>2. 1 \in DOMAIN list
    BY <2>1
  <2> QED
    BY <2>2
<1>4. \A a \in Present : (\E k \in DOMAIN list : OnPath(list, k, a)) <=> a \in paths
  BY <1>2 DEF OnPath
<1>5. \A k \in DOMAIN list : OnPath(list, k, Root)
  BY DEF OnPath
<1>6. \A k \in DOMAIN list : list[k] \in Present
  BY DEF RangeOf
<1>7. \A a \in paths : a \in Present /\ Above(a) \subseteq paths
  <2> SUFFICES ASSUME NEW a \in Present, NEW k \in DOMAIN list, a \in SelfAndAbove[list[k]],
                      NEW b \in Above(a)
               PROVE  b \in Present /\ b \in SelfAndAbove[list[k]]
    OBVIOUS
  <2> QED
    BY <1>1, <1>6
<1>8. \E t \in SelfAndAbove[i] : t \in {i} \cup D /\ Above(t) \cap D = {} /\ Above(t) \subseteq Above(i)
  <2>1. CASE D = {}
    BY <1>1, <2>1
  <2>2. CASE D # {}
    <3> HIDE DEF paths
    <3>1. D = Above(i) \cap D
      OBVIOUS
    <3>2. Above(i) \cap D # {}
      BY <2>2, <3>1
    <3> HIDE DEF D
    <3>3. PICK t \in Above(i) \cap D : Above(t) \cap D = {} /\ Above(t) \subseteq Above(i)
      BY <3>2, HighestSelected
    <3> QED
      BY <1>1, <3>3
  <2> QED
    BY <2>1, <2>2
<1>9. PICK t \in SelfAndAbove[i] : t \in {i} \cup D /\ Above(t) \cap D = {} /\ Above(t) \subseteq Above(i)
  BY <1>8
<1>10. t \in Present
  BY <1>1, <1>9
<1> HIDE DEF paths
<1>11. Above(t) \subseteq paths
  BY <1>9
<1>12. \A a \in paths \cap Above(i) : a \in Above(t)
  <2> SUFFICES ASSUME NEW a \in paths, a \in Above(i) PROVE a \in Above(t)
    OBVIOUS
  <2>1. CASE t = i
    BY <2>1
  <2>2. CASE t # i
    <3>1. t \in Above(i) /\ t \notin paths
      BY <1>9, <2>2
    <3>2. a \in SelfAndAbove[t] \/ t \in SelfAndAbove[a]
      <4>1. Above(i) = Ancestors(srcParent)[srcParent[i]] /\ srcParent[i] \in Present \cup {Root}
        BY AboveFacts, AncestorsOfOne, PresentIs
      <4> QED
        BY <3>1, <4>1, AncestorsChain, SelfAndAboveIsAncestors, PresentIs
    <3>3. t \notin SelfAndAbove[a]
      BY <1>1, <1>7, <3>1
    <3>4. a # t
      BY <3>1
    <3> QED
      BY <1>1, <1>10, <3>2, <3>3, <3>4
  <2> QED
    BY <2>1, <2>2
<1>13. common = Above(t) \cup {Root}
  BY <1>1, <1>3, <1>4, <1>5, <1>9, <1>11, <1>12
<1>14. parent(t) = srcParent[t] /\ srcParent[t] \in Present \cup {Root} /\ Above(t) = SelfAndAbove[srcParent[t]]
  BY <1>10, AncestorsOfOne, PresentIs, AboveFacts, SelfAndAboveIsAncestors DEF parent, Present
<1>15. SelfAndAbove[Root] = {}
  BY AncestorsOfOne, SelfAndAboveIsAncestors
<1>16. srcParent[t] \in common /\ common \subseteq SelfAndAbove[srcParent[t]] \cup {Root}
  BY <1>1, <1>13, <1>14
<1> HIDE DEF common, D
<1>17. \A a \in common : common \subseteq SelfAndAbove[a] \cup {Root} => a = srcParent[t]
  <2> SUFFICES ASSUME NEW a \in common, common \subseteq SelfAndAbove[a] \cup {Root}
               PROVE  a = srcParent[t]
    OBVIOUS
  <2>1. CASE srcParent[t] = Root
    BY <1>13, <1>14, <1>15, <2>1
  <2>2. CASE srcParent[t] # Root
    <3>1. srcParent[t] \in Present /\ srcParent[t] \in SelfAndAbove[a]
      BY <1>14, <1>16, <2>2
    <3>2. a # Root
      BY <1>15, <3>1
    <3>3. a \in Above(t) /\ a \in Present
      BY <1>1, <1>10, <1>13, <3>2
    <3> QED
      BY <1>14, <3>1, <3>3, AncestorsAntisymmetric, SelfAndAboveIsAncestors, PresentIs
  <2> QED
    BY <2>1, <2>2
<1>18. commonParent(list, i) = CHOOSE a \in common : common \subseteq SelfAndAbove[a] \cup {Root}
  BY DEF commonParent, common
<1>19. commonParent(list, i) = srcParent[t]
  BY <1>16, <1>17, <1>18
<1>20. \E k \in DOMAIN list : OnPath(list, k, srcParent[t])
  BY <1>16 DEF common
<1>21. t = i \/ \A k \in DOMAIN list : t \notin SelfAndAbove[list[k]]
  <2>1. t = i \/ t \notin paths
    BY <1>9 DEF D
  <2> QED
    BY <1>10, <2>1 DEF paths
<1> QED
  BY <1>19, <1>20, <1>21

\* The search stops in the list or right after it.
LEMMA SearchInRange ==
    ASSUME IsTree(srcParent), NEW list \in Seq(Nodes), list # <<>>, RangeOf(list) \subseteq Present,
           NEW i \in Present
    PROVE  SearchStop(list, i) \in 1 .. Len(list) + 1
<1> DEFINE a == commonParent(list, i)
           starts == {k \in DOMAIN list : OnPath(list, k, a)}
           first == Least(starts)
           stops == {k \in first + 1 .. Len(list) :
                        ~(OnPath(list, k, a) /\ 0 <= BranchRow(a, list[k])
                                            /\ BranchRow(a, list[k]) < BranchRow(a, i))}
<1>1. Len(list) \in Nat /\ DOMAIN list = 1 .. Len(list)
  OBVIOUS
<1>2. \E k \in DOMAIN list : OnPath(list, k, a)
  BY CommonParentIs
<1> HIDE DEF a
<1>3. starts \in SUBSET Nat /\ starts # {}
  BY <1>1, <1>2
<1> HIDE DEF starts
<1>4. first \in starts
  BY <1>3, LeastIs
<1>5. first \in 1 .. Len(list)
  BY <1>1, <1>4 DEF starts
<1>6. stops \in SUBSET Nat
  BY <1>1, <1>5
<1>7. stops # {} => Least(stops) \in stops
  <2> HIDE DEF stops
  <2> QED
    BY <1>6, LeastIs
<1>8. stops # {} => Least(stops) \in 1 .. Len(list)
  BY <1>1, <1>5, <1>7
<1>9. SearchStop(list, i) = IF BranchRow(a, list[first]) >= BranchRow(a, i) THEN first
                            ELSE IF stops # {} THEN Least(stops)
                            ELSE Len(list) + 1
  BY DEF SearchStop, a, starts
<1> HIDE DEF stops, first
<1> QED
  BY <1>1, <1>5, <1>8, <1>9

\* A list of the indexes of S, each of them once.
LEMMA ListsOfSet ==
    ASSUME NEW S \in SUBSET Nodes, NEW f \in Seqs!SetToSeqs(S)
    PROVE  f \in Seq(Nodes) /\ Injective(f) /\ RangeOf(f) = S /\ Len(f) = Cardinality(S)
<1> DEFINE D == 1 .. Cardinality(S)
<1>1. IsFiniteSet(S) /\ Cardinality(S) \in Nat
  BY CountType
<1>2. f \in [D -> S] /\ \A j, k \in D : j # k => f[j] # f[k]
  <2>1. f \in {g \in [D -> S] : \A i, j \in D : i # j => g[i] # g[j]}
    <3>1. Seqs!Cardinality(S) = Cardinality(S)
      BY DEF Seqs!Cardinality, Cardinality
    <3> QED
      BY <3>1 DEF Seqs!SetToSeqs
  <2> HIDE DEF D
  <2> QED
    BY <2>1
<1>3. f \in Seq(Nodes) /\ Len(f) = Cardinality(S)
  <2>1. f \in [D -> Nodes]
    BY <1>2
  <2> QED
    BY <1>1, <1>2, <2>1
<1>4. IsFiniteSet(D) /\ Cardinality(D) = Cardinality(S)
  BY <1>1, FS_Interval
<1> HIDE DEF D
<1>5. f \in Injection(D, S)
  BY <1>2 DEF Injection, IsInjective
<1>6. f \in Surjection(D, S)
  BY <1>1, <1>4, <1>5, FS_Injection
<1>7. Injective(f) /\ RangeOf(f) = S
  BY <1>2, <1>6 DEF Injective, RangeOf, Surjection
<1> QED
  BY <1>3, <1>7

\* The new roots are inserted in an order that has each of them once.
LEMMA OrdersAre ==
    ASSUME NEW S \in SUBSET Nodes, NEW order \in NormalizedOrders(S)
    PROVE  order \in Seq(Nodes) /\ Injective(order) /\ RangeOf(order) = S
<1>1. order \in Seqs!SetToSeqs(S)
  BY DEF NormalizedOrders
<1> QED
  BY <1>1, ListsOfSet

\* The loop over the roots after a removal erases none that are valid.
LEMMA ValidRootsAre ==
    ASSUME NEW list \in Seq(Nodes), RangeOf(list) \subseteq Present
    PROVE  ValidRoots(list) = list
<1> DEFINE n == Len(list)
           Loop(f) == [k \in 0 .. n |->
                          IF k = 0 THEN <<>>
                          ELSE IF list[k] \in Present THEN Append(f[k - 1], list[k])
                          ELSE f[k - 1]]
           valid == CHOOSE f : f = Loop(f)
           g == [k \in 0 .. n |-> SubSeq(list, 1, k)]
<1>1. n \in Nat /\ DOMAIN list = 1 .. n /\ \A k \in 1 .. n : list[k] \in Present
  BY DEF RangeOf
<1>2. \A k \in 1 .. n : SubSeq(list, 1, k) = Append(SubSeq(list, 1, k - 1), list[k])
  <2> SUFFICES ASSUME NEW k \in 1 .. n
               PROVE  SubSeq(list, 1, k) = Append(SubSeq(list, 1, k - 1), list[k])
    OBVIOUS
  <2> DEFINE one == SubSeq(list, 1, k - 1)
             two == SubSeq(list, 1, k)
  <2>1. /\ one \in Seq(Nodes) /\ Len(one) = k - 1
        /\ \A j \in 1 .. k - 1 : one[j] = list[j]
    <3>1. \A j \in 1 .. k - 1 : list[j] \in Nodes
      BY <1>1
    <3>2. /\ one \in Seq(Nodes) /\ Len(one) = IF 1 <= k - 1 THEN (k - 1) - 1 + 1 ELSE 0
          /\ \A j \in 1 .. (k - 1) - 1 + 1 : one[j] = list[1 + j - 1]
      BY <1>1, <3>1, SubSeqProperties
    <3> QED
      BY <1>1, <3>2
  <2>2. /\ two \in Seq(Nodes) /\ Len(two) = k
        /\ \A j \in 1 .. k : two[j] = list[j]
    <3>1. \A j \in 1 .. k : list[j] \in Nodes
      BY <1>1
    <3>2. /\ two \in Seq(Nodes) /\ Len(two) = IF 1 <= k THEN k - 1 + 1 ELSE 0
          /\ \A j \in 1 .. k - 1 + 1 : two[j] = list[1 + j - 1]
      BY <1>1, <3>1, SubSeqProperties
    <3> QED
      BY <1>1, <3>2
  <2> HIDE DEF one, two
  <2>3. list[k] \in Nodes
    BY <1>1
  <2>4. /\ Append(one, list[k]) \in Seq(Nodes) /\ Len(Append(one, list[k])) = Len(one) + 1
        /\ \A j \in 1 .. Len(one) : Append(one, list[k])[j] = one[j]
        /\ Append(one, list[k])[Len(one) + 1] = list[k]
    BY <2>1, <2>3, AppendProperties
  <2>5. \A j \in 1 .. k : Append(one, list[k])[j] = two[j]
    <3> SUFFICES ASSUME NEW j \in 1 .. k PROVE Append(one, list[k])[j] = two[j]
      OBVIOUS
    <3>1. CASE j = k
      BY <1>1, <2>1, <2>2, <2>4, <3>1
    <3>2. CASE j # k
      <4>1. j \in 1 .. k - 1
        BY <1>1, <3>2
      <4> QED
        BY <2>1, <2>2, <2>4, <4>1
    <3> QED
      BY <3>1, <3>2
  <2>6. Len(Append(one, list[k])) = Len(two)
    BY <1>1, <2>1, <2>2, <2>4
  <2>7. two = Append(one, list[k])
    BY <2>2, <2>4, <2>5, <2>6, SeqEqual
  <2> QED
    BY <2>7 DEF one, two
<1>3. SubSeq(list, 1, 0) = <<>>
  BY <1>1, SubSeqEmpty
<1>4. SubSeq(list, 1, n) = list
  BY SubSeqFull
<1>5. g = Loop(g)
  <2>1. \A k \in 0 .. n : g[k] = Loop(g)[k]
    <3> SUFFICES ASSUME NEW k \in 0 .. n PROVE g[k] = Loop(g)[k]
      OBVIOUS
    <3>1. CASE k = 0
      BY <1>3, <3>1
    <3>2. CASE k # 0
      <4>1. k \in 1 .. n /\ k - 1 \in 0 .. n
        BY <1>1, <3>2
      <4>2. g[k] = Append(g[k - 1], list[k])
        BY <1>2, <4>1
      <4> QED
        BY <1>1, <3>2, <4>1, <4>2
    <3> QED
      BY <3>1, <3>2
  <2> QED
    BY <2>1
<1>6. valid = Loop(valid)
  BY <1>5
<1>7. \A k \in 0 .. n : valid[k] = IF k = 0 THEN <<>>
                                  ELSE IF list[k] \in Present THEN Append(valid[k - 1], list[k])
                                  ELSE valid[k - 1]
  <2> DEFINE v == valid
  <2>1. v = Loop(v)
    BY <1>6
  <2> HIDE DEF v
  <2>2. \A k \in 0 .. n : Loop(v)[k] = IF k = 0 THEN <<>>
                                  ELSE IF list[k] \in Present THEN Append(v[k - 1], list[k])
                                  ELSE v[k - 1]
    OBVIOUS
  <2>3. \A k \in 0 .. n : v[k] = IF k = 0 THEN <<>>
                                  ELSE IF list[k] \in Present THEN Append(v[k - 1], list[k])
                                  ELSE v[k - 1]
    BY <2>1, <2>2
  <2> QED
    BY <2>3 DEF v
<1>8. ValidRoots(list) = valid[n]
  BY DEF ValidRoots
<1> DEFINE wrong == {k \in 0 .. n : valid[k] # SubSeq(list, 1, k)}
<1> HIDE DEF valid
<1>9. wrong = {}
  <2> SUFFICES ASSUME wrong # {} PROVE FALSE
    OBVIOUS
  <2>1. wrong \in SUBSET Nat
    BY <1>1
  <2>2. PICK m \in wrong : \A k \in wrong : m <= k
    <3> HIDE DEF wrong
    <3> QED
      BY <2>1, LeastExists
  <2>3. m \in 0 .. n /\ valid[m] # SubSeq(list, 1, m)
    BY <2>2
  <2>4. m # 0
    BY <1>1, <1>3, <1>7, <2>3
  <2>5. m \in 1 .. n /\ m - 1 \in 0 .. n /\ ~(m <= m - 1)
    BY <1>1, <2>3, <2>4
  <2>6. valid[m - 1] = SubSeq(list, 1, m - 1)
    BY <2>2, <2>5
  <2>7. valid[m] = Append(valid[m - 1], list[m])
    BY <1>1, <1>7, <2>3, <2>4, <2>5
  <2> QED
    BY <1>2, <2>3, <2>5, <2>6, <2>7
<1>10. n \in 0 .. n
  BY <1>1
<1> QED
  BY <1>4, <1>8, <1>9, <1>10

----------------------------------------------------------------------------
(* The roots are those that the selection calls for.                       *)

RootSet == RangeOf(m_rootIndexList)
Added == RangeOf(change.add)

\* What was selected before the change that waits for the rows to have come.
Earlier ==
    IF m_pendingSelectionChanges = <<>> THEN selection
    ELSE (selection \ m_pendingSelectionChanges[1].selected)
             \cup m_pendingSelectionChanges[1].deselected

DoomedRoots == {r \in RootSet : Doomed(change.remove, r)}

\* The roots that are not doomed stay, and the new ones are those that are missing.
Replacing ==
    /\ RootSet \cap Target(selection) = RootSet \ DoomedRoots
    /\ Target(selection) \subseteq RootSet \cup Added
    /\ Added \subseteq Target(selection) \ RootSet

RootTypes ==
    /\ m_rootIndexList \in Seq(Nodes) /\ Injective(m_rootIndexList)
    /\ change \in [remove : SUBSET Nodes, add : Seq(Nodes)] /\ Injective(change.add)

\* Where the list of roots is complete.
Settled == {"idle", "toRemove", "removing", "removed", "inserting", "inserted", "draining",
            "layoutRebuilt", "rebuilt"}

\* Which roots there are at each point of a call.
RootsInv ==
    /\ RootTypes
    /\ phase \in Settled /\ hasSource => RootSet = Target(Earlier)
    /\ phase \in {"relayouting", "relayouted", "cleared"} => m_rootIndexList = <<>>
    /\ phase \in {"changing", "rootsLeaving"} =>
          Replacing /\ (resume \in {"rebuilt", "layoutRebuilt"} => m_rootIndexList = <<>>)
    /\ phase \in {"adding", "rootComing"} =>
          Target(selection) = RootSet \cup Added /\ RootSet \cap Added = {}
    /\ phase = "rootsLeaving" => RemovalBlock # {}
    /\ phase = "rootComing" => change.add # <<>>
    /\ phase = "rootAdded" => /\ change.add # <<>>
                              /\ Target(selection) = RootSet \cup Added
                              /\ RootSet \cap Added = {NewRoot}

LEMMA NoRoots ==
    /\ <<>> \in Seq(Nodes) /\ Injective(<<>>) /\ RangeOf(<<>>) = {}
    /\ Target({}) = {}
<1>1. <<>> \in Seq(Nodes) /\ DOMAIN <<>> = {}
  OBVIOUS
<1> QED
  BY <1>1 DEF Injective, RangeOf, Target, getRootRanges

\* The selection and the tree say what is to be a root, in the next state as well.
LEMMA RootsAfter ==
    ASSUME UNCHANGED <<srcVars, m_filterBehavior>>
    PROVE  /\ RootSet' = RangeOf(m_rootIndexList') /\ Added' = RangeOf(change'.add)
           /\ Target(selection)' = Target(selection')
           /\ Target(Earlier)' = Target(Earlier')
           /\ DoomedRoots' = {r \in RangeOf(m_rootIndexList') : Doomed(change'.remove, r)}
<1>1. /\ SelfAndAbove' = SelfAndAbove /\ \A n : Above(n)' = Above(n)
      /\ m_includeAllSelected' = m_includeAllSelected
  BY SameTree DEF m_includeAllSelected
<1>2. RootSet' = RangeOf(m_rootIndexList') /\ Added' = RangeOf(change'.add)
  BY DEF RootSet, Added, RangeOf
<1>3. Target(selection)' = Target(selection')
  BY <1>1 DEF Target, getRootRanges
<1>4. Target(Earlier)' = Target(Earlier')
  BY <1>1 DEF Target, getRootRanges
<1>5. DoomedRoots' = {r \in RangeOf(m_rootIndexList') : Doomed(change'.remove, r)}
  BY <1>1, <1>2 DEF DoomedRoots, Doomed, LiesWithin
<1> QED
  BY <1>2, <1>3, <1>4, <1>5

LEMMA RemovalBlockIs == RemovalBlock = DoomedBlock(DoomedRoots)
BY DEF RemovalBlock, DoomedRoots, RootSet, RangeOf, Seqs!ToSet

\* What is to become of the roots stays the same while all it depends on does.
LEMMA RootsSame ==
    ASSUME UNCHANGED <<srcVars, m_filterBehavior, selection, m_rootIndexList, change,
                       m_pendingSelectionChanges>>
    PROVE  /\ RootSet' = RootSet /\ Added' = Added /\ Earlier' = Earlier
           /\ Target(selection)' = Target(selection) /\ Target(Earlier)' = Target(Earlier)
           /\ DoomedRoots' = DoomedRoots /\ RemovalBlock' = RemovalBlock
           /\ (Replacing' <=> Replacing) /\ (RootTypes' <=> RootTypes)
<1>1. /\ RootSet' = RootSet /\ Added' = Added
      /\ Target(selection)' = Target(selection)
      /\ DoomedRoots' = DoomedRoots
  BY RootsAfter DEF RootSet, Added, DoomedRoots
<1>2. Earlier' = Earlier
  BY DEF Earlier
<1>3. Target(Earlier)' = Target(Earlier)
  BY <1>2, RootsAfter
<1>4. RemovalBlock' = RemovalBlock
  <2>1. RemovalBlock' = DoomedBlock(DoomedRoots)'
    BY RemovalBlockIs, <1>1 DEF RemovalBlock, DoomedRoots, RootSet, RangeOf, Seqs!ToSet
  <2>2. DoomedBlock(DoomedRoots)' = DoomedBlock(DoomedRoots)
    BY <1>1 DEF DoomedBlock, Least
  <2> QED
    BY <2>1, <2>2, RemovalBlockIs
<1>5. (Replacing' <=> Replacing) /\ (RootTypes' <=> RootTypes)
  BY <1>1 DEF Replacing, RootTypes, Injective
<1> QED
  BY <1>1, <1>2, <1>3, <1>4, <1>5

LEMMA ChangesType ==
    ASSUME NEW S \in SUBSET Nodes, NEW a \in SUBSET Nodes, NEW b \in SUBSET Nodes
    PROVE  RemovedRoots(S, a, b) \in SUBSET Nodes /\ NewRoots(S, a, b) \in SUBSET Nodes
<1>1. \A X \in SUBSET Nodes : getRootRanges(X) \in SUBSET Nodes
  BY DEF getRootRanges
<1> DEFINE existing == getRootRanges(S \ a)
           new == {n \in getRootRanges(a) : ~isDescendantOf(existing, n)}
           uncovering == {n \in getRootRanges(b) : ~isDescendantOf(existing, n)}
           exposed == {n \in existing : Above(n) \cap uncovering # {} /\ ~isDescendantOf(new, n)}
           obscured == {n \in existing : isDescendantOf(new, n)}
<1>2. /\ existing \in SUBSET Nodes /\ new \in SUBSET Nodes /\ uncovering \in SUBSET Nodes
  BY <1>1
<1> HIDE DEF existing, new, uncovering
<1>3. exposed \in SUBSET Nodes /\ obscured \in SUBSET Nodes
  BY <1>2
<1>4. RemovedRoots(S, a, b) = IF m_includeAllSelected THEN b ELSE uncovering \cup getRootRanges(obscured)
  BY DEF RemovedRoots, existing, new, uncovering
<1>5. NewRoots(S, a, b) = IF m_includeAllSelected THEN a ELSE new \cup getRootRanges(exposed)
  BY DEF NewRoots, existing, new, uncovering
<1> HIDE DEF exposed, obscured
<1>6. getRootRanges(obscured) \in SUBSET Nodes /\ getRootRanges(exposed) \in SUBSET Nodes
  BY <1>1, <1>3
<1> QED
  BY <1>2, <1>4, <1>5, <1>6

\* selectionChanged() sets out to make the roots of O those of the new selection.
LEMMA ProcessesRoots ==
    ASSUME TreeOK, UNCHANGED <<srcVars, m_filterBehavior>>, hasSource', ~m_sourceModelResetting,
           NEW O \in SUBSET Present, NEW S \in SUBSET Present, selection' = S,
           RangeOf(m_rootIndexList') = Target(O),
           m_rootIndexList' \in Seq(Nodes), Injective(m_rootIndexList'), RootTypes,
           NEW sel, NEW des, sel = S \ O, des = O \ S,
           NEW next, Processes(sel, des, next)
    PROVE  /\ RootTypes'
           /\ \/ phase' = next /\ resume' = "idle" /\ S = O /\ RootSet' = Target(selection)'
              \/ phase' = "changing" /\ resume' = next /\ Replacing'
<1>0. S \subseteq Nodes /\ O \subseteq Nodes
  BY DEF Present
<1>1. CASE sel \cup des = {}
  <2>1. phase' = next /\ resume' = "idle" /\ change' = change /\ S = O
    BY <1>1 DEF Processes
  <2> QED
    BY <2>1, RootsAfter DEF RootTypes, Injective
<1>2. CASE sel \cup des # {}
  <2>1. PICK order \in NormalizedOrders(NewRoots(S, sel, des)) :
           change' = [remove |-> RemovedRoots(S, sel, des), add |-> order]
    BY <1>2 DEF Processes
  <2>2. phase' = "changing" /\ resume' = next
    BY <1>2 DEF Processes
  <2>3. RemovedRoots(S, sel, des) \in SUBSET Nodes /\ NewRoots(S, sel, des) \in SUBSET Nodes
    BY <1>0, ChangesType
  <2>4. order \in Seq(Nodes) /\ Injective(order) /\ RangeOf(order) = NewRoots(S, sel, des)
    BY <2>1, <2>3, OrdersAre
  <2>5. change'.remove = RemovedRoots(S, sel, des) /\ change'.add = order
    BY <2>1
  <2>6. RootTypes'
    BY <2>1, <2>3, <2>4, <2>5 DEF RootTypes, Injective
  <2>7. /\ \A r \in Target(O) : r \in Target(S) <=> ~Doomed(RemovedRoots(S, sel, des), r)
        /\ Target(S) \subseteq Target(O) \cup NewRoots(S, sel, des)
        /\ NewRoots(S, sel, des) \subseteq Target(S) \ Target(O)
    BY RootsChange DEF TreeOK
  <2>8. /\ RootSet' = Target(O) /\ Added' = NewRoots(S, sel, des)
        /\ Target(selection)' = Target(S)
        /\ DoomedRoots' = {r \in Target(O) : Doomed(RemovedRoots(S, sel, des), r)}
    BY <2>4, <2>5, RootsAfter
  <2>9. Replacing'
    BY <2>7, <2>8 DEF Replacing
  <2> QED
    BY <2>2, <2>6, <2>9
<1> QED
  BY <1>1, <1>2

\* What is to be shown of the roots, by where a step leads.
LEMMA RootsWhenSettled ==
    ASSUME RootTypes', phase' \in Settled, hasSource' => RootSet' = Target(Earlier)'
    PROVE  RootsInv'
BY DEF RootsInv, Settled

LEMMA RootsWhenNone ==
    ASSUME RootTypes, UNCHANGED change, m_rootIndexList' = <<>>,
           phase' \in {"relayouting", "relayouted", "cleared"}
    PROVE  RootsInv'
<1>1. RootTypes'
  BY NoRoots DEF RootTypes, Injective
<1> QED
  BY <1>1 DEF RootsInv, Settled

LEMMA RootsWhenChanging ==
    ASSUME RootTypes', phase' = "changing", Replacing',
           resume' \in {"rebuilt", "layoutRebuilt"} => m_rootIndexList' = <<>>
    PROVE  RootsInv'
BY DEF RootsInv, Settled

LEMMA RootsAside ==
    ASSUME RootTypes', phase' \in {"resetting", "reset"}
    PROVE  RootsInv'
BY DEF RootsInv, Settled

\* The steps of selectionChanged().

\* A step that removes roots takes a block of doomed ones out of the list.
LEMMA RemoveRootsRoots ==
    ASSUME RootTypes, RemovalBlock # {}, RemoveRoots
    PROVE  /\ RootTypes'
           /\ RangeOf(m_rootIndexList') = RootSet \ NodesAt(RemovalBlock)
           /\ NodesAt(RemovalBlock) \subseteq DoomedRoots
           /\ \E lo, hi \in DOMAIN m_rootIndexList :
                 /\ lo <= hi
                 /\ m_rootIndexList' = SubSeq(m_rootIndexList, 1, lo - 1)
                                       \o SubSeq(m_rootIndexList, hi + 1, Len(m_rootIndexList))
<1> DEFINE lo == Least(RemovalBlock)
           hi == Greatest(RemovalBlock)
           cut == SubSeq(m_rootIndexList, 1, lo - 1)
                  \o SubSeq(m_rootIndexList, hi + 1, Len(m_rootIndexList))
           count == RemovalPair[2] - RemovalPair[1] + 1
           kept == [Tables EXCEPT !.roots = cut]
           unmapped == removeParentMappings(kept, RemovalPair[1], RemovalPair[2])
           cleared == IF m_startWithChildTrees
                      THEN removeFirstChildMappings(unmapped, RemovalPair[1], RemovalPair[2])
                      ELSE unmapped
           moved == updateInternalTopIndexes(cleared, RemovalPair[2] + 1, -count)
<1>0. m_rootIndexList \in Seq(Nodes) /\ Injective(m_rootIndexList)
  BY DEF RootTypes
<1>1. IsTables(kept) /\ kept.roots = cut
  BY TablesAre
<1>2. /\ SetTables(moved) \/ SetTables(kept)
      /\ change' = change
  <2>1. Tables.roots = m_rootIndexList
    BY DEF Tables
  <2>2. kept = [Tables EXCEPT !.roots = SubSeq(@, 1, Least(RemovalBlock) - 1)
                                        \o SubSeq(@, Greatest(RemovalBlock) + 1, Len(@))]
    BY <2>1
  <2> QED
    BY <2>2 DEF RemoveRoots, Enters
<1> HIDE DEF kept, cut, lo, hi, count
<1>3. SameRoots(kept, unmapped)
  BY <1>1, RepairsKeepRoots
<1> HIDE DEF unmapped
<1>4. SameRoots(unmapped, removeFirstChildMappings(unmapped, RemovalPair[1], RemovalPair[2]))
  <2>1. \A f, l : SameRoots(unmapped, removeFirstChildMappings(unmapped, f, l))
    BY <1>3, RepairsKeepRoots DEF SameRoots
  <2> QED
    BY <2>1
<1>5. SameRoots(kept, cleared)
  BY <1>3, <1>4 DEF SameRoots
<1> HIDE DEF cleared
<1>6. SameRoots(cleared, moved)
  <2>1. \A s, o : SameRoots(cleared, updateInternalTopIndexes(cleared, s, o))
    BY <1>5, RepairsKeepRoots DEF SameRoots
  <2> QED
    BY <2>1
<1> HIDE DEF moved
<1>7. m_rootIndexList' = cut
  BY <1>1, <1>2, <1>5, <1>6 DEF SetTables, SameRoots
<1>8. /\ lo \in DOMAIN m_rootIndexList /\ hi \in DOMAIN m_rootIndexList /\ lo <= hi
      /\ RemovalBlock = lo .. hi
      /\ \A k \in RemovalBlock : m_rootIndexList[k] \in DoomedRoots
  BY <1>0, DoomedBlockIs, RemovalBlockIs DEF lo, hi
<1>20. lo \in Int /\ hi \in Int /\ 1 <= lo /\ lo <= hi /\ hi <= Len(m_rootIndexList)
  BY <1>0, <1>8
<1>9. RangeOf(cut) = RootSet \ {m_rootIndexList[k] : k \in lo .. hi} /\ Injective(cut)
  BY <1>0, <1>20, CutOutSet DEF cut, RootSet
<1>10. cut \in Seq(Nodes)
  BY <1>0, <1>20, CutOut DEF cut
<1>11. \E x, y \in DOMAIN m_rootIndexList :
          /\ x <= y
          /\ m_rootIndexList' = SubSeq(m_rootIndexList, 1, x - 1)
                                \o SubSeq(m_rootIndexList, y + 1, Len(m_rootIndexList))
  BY <1>7, <1>8 DEF cut
<1>12. /\ RootTypes'
       /\ RangeOf(m_rootIndexList') = RootSet \ NodesAt(RemovalBlock)
       /\ NodesAt(RemovalBlock) \subseteq DoomedRoots
  BY <1>2, <1>7, <1>8, <1>9, <1>10 DEF RootTypes, NodesAt, Injective
<1> QED
  BY <1>11, <1>12

\* A new root is one that was missing.
LEMMA ListRootRoots ==
    ASSUME RootTypes, TreeOK, selection \subseteq Present,
           change.add # <<>>, Target(selection) = RootSet \cup Added, RootSet \cap Added = {},
           ListRoot
    PROVE  /\ RootTypes'
           /\ RangeOf(m_rootIndexList') = RootSet \cup {NewRoot}
           /\ NewRoot \in Added
           /\ NewRootRow + 1 \in 1 .. Len(m_rootIndexList) + 1
           /\ m_rootIndexList' = Seqs!InsertAt(m_rootIndexList, NewRootRow + 1, NewRoot)
<1>0. /\ m_rootIndexList \in Seq(Nodes) /\ Injective(m_rootIndexList)
      /\ change.add \in Seq(Nodes)
  BY DEF RootTypes
<1>1. Target(selection) \subseteq Present
  BY DEF Target, getRootRanges
<1>2. /\ Len(change.add) \in Nat \ {0} /\ DOMAIN change.add = 1 .. Len(change.add)
  BY <1>0, EmptySeq
<1>3. NewRoot = change.add[1] /\ NewRoot \in Added /\ NewRoot \in Nodes
  BY <1>0, <1>2 DEF NewRoot, Added, RangeOf
<1>4. NewRoot \in Present /\ RootSet \subseteq Present /\ NewRoot \notin RootSet
  BY <1>1, <1>3
<1>5. NewRootRow + 1 \in 1 .. Len(m_rootIndexList) + 1
  <2>1. CASE m_rootIndexList = <<>>
    BY <2>1 DEF NewRootRow, getRootListRow
  <2>2. CASE m_rootIndexList # <<>>
    <3>1. SearchStop(m_rootIndexList, NewRoot) \in 1 .. Len(m_rootIndexList) + 1
      BY <1>0, <1>4, <2>2, SearchInRange DEF TreeOK, RootSet
    <3>2. NewRootRow = SearchStop(m_rootIndexList, NewRoot) - 1
      BY <2>2 DEF NewRootRow, getRootListRow
    <3>3. Len(m_rootIndexList) \in Nat
      BY <1>0
    <3> QED
      BY <3>1, <3>2, <3>3
  <2> QED
    BY <2>1, <2>2
<1>6. m_rootIndexList' = Seqs!InsertAt(m_rootIndexList, NewRootRow + 1, NewRoot) /\ change' = change
  BY DEF ListRoot, Enters
<1>7. /\ RangeOf(m_rootIndexList') = RootSet \cup {NewRoot} /\ Injective(m_rootIndexList')
      /\ m_rootIndexList' \in Seq(Nodes)
  BY <1>0, <1>3, <1>4, <1>5, <1>6, Inserted, InsertedSet DEF RootSet
<1> QED
  BY <1>3, <1>5, <1>6, <1>7 DEF RootTypes, Injective

\* With its rows inserted, it is no longer to be added.
LEMMA InsertRootRoots ==
    ASSUME RootTypes, change.add # <<>>, InsertRoot
    PROVE  /\ RootTypes' /\ m_rootIndexList' = m_rootIndexList
           /\ NewRoot \in Added /\ RangeOf(change'.add) = Added \ {NewRoot}
<1>0. /\ m_rootIndexList \in Seq(Nodes) /\ Injective(m_rootIndexList)
      /\ change.add \in Seq(Nodes) /\ change.remove \in SUBSET Nodes /\ Injective(change.add)
  BY DEF RootTypes
<1>2. /\ Len(change.add) \in Nat \ {0} /\ DOMAIN change.add = 1 .. Len(change.add)
  BY <1>0, EmptySeq
<1>3. NewRoot = change.add[1] /\ NewRoot \in Added /\ NewRoot \in Nodes
  BY <1>0, <1>2 DEF NewRoot, Added, RangeOf
<1>6. m_rootIndexList' = m_rootIndexList
  <2>1. SameRoots(Tables, WithRoot(NewRoot))
    BY WithRootRoots
  <2>2. SameRoots(WithRoot(NewRoot), Fetched(WithRoot(NewRoot)))
    BY <2>1, RepairsKeepRoots DEF SameRoots
  <2>3. SetTables(Fetched(WithRoot(NewRoot))) \/ SetTables(WithRoot(NewRoot))
    BY DEF InsertRoot
  <2> QED
    BY <2>1, <2>2, <2>3, TablesAre DEF SetTables, SameRoots
<1>8. change' = [change EXCEPT !.add = Tail(@)]
  BY DEF InsertRoot
<1>9. /\ Tail(change.add) \in Seq(Nodes) /\ Len(Tail(change.add)) = Len(change.add) - 1
      /\ \A k \in 1 .. Len(Tail(change.add)) : Tail(change.add)[k] = change.add[k + 1]
  BY <1>0, <1>2, HeadTailProperties
<1>10. change' \in [remove : SUBSET Nodes, add : Seq(Nodes)] /\ change'.add = Tail(change.add)
  BY <1>8, <1>9 DEF RootTypes
<1> DEFINE s == change.add
           t == Tail(change.add)
<1>11. DOMAIN t = 1 .. Len(s) - 1
  BY <1>9
<1>12. \A k \in DOMAIN t : t[k] = s[k + 1] /\ k + 1 \in DOMAIN s /\ k + 1 # 1
  BY <1>2, <1>9, <1>11
<1>13. \A j \in DOMAIN s : j # 1 => j - 1 \in DOMAIN t /\ t[j - 1] = s[j]
  <2> SUFFICES ASSUME NEW j \in DOMAIN s, j # 1 PROVE j - 1 \in DOMAIN t /\ t[j - 1] = s[j]
    OBVIOUS
  <2>1. j - 1 \in DOMAIN t /\ (j - 1) + 1 = j
    BY <1>2, <1>11
  <2> QED
    BY <1>12, <2>1
<1>14. \A j, k \in DOMAIN s : s[j] = s[k] => j = k
  BY <1>0 DEF Injective
<1>15. NewRoot = s[1] /\ 1 \in DOMAIN s /\ DOMAIN t \subseteq Int
  BY <1>2, <1>3, <1>11
<1> HIDE DEF s, t
<1>16. RangeOf(t) = RangeOf(s) \ {NewRoot}
  BY <1>12, <1>13, <1>14, <1>15 DEF RangeOf
<1>17. Injective(t)
  <2> SUFFICES ASSUME NEW j \in DOMAIN t, NEW k \in DOMAIN t, t[j] = t[k] PROVE j = k
    BY DEF Injective
  <2>1. j + 1 = k + 1 /\ j \in Int /\ k \in Int
    BY <1>12, <1>14, <1>15
  <2> QED
    BY <2>1
<1>18. RangeOf(change'.add) = Added \ {NewRoot} /\ Injective(change'.add)
  BY <1>10, <1>16, <1>17 DEF s, t, Added
<1> QED
  BY <1>0, <1>3, <1>6, <1>10, <1>18 DEF RootTypes, Injective

\* The changes of the source leave the roots roots.

\* Rows that come leave everything above the other indexes as it was.
LEMMA RootsInGrownTree ==
    ASSUME TreeOK, NEW f \in Forests, DOMAIN f \subseteq Nodes \ Present,
           NEW p \in Present \cup {Root}, NEW start, InsertRows(f, p, start),
           NEW S \in SUBSET Present, m_filterBehavior' = m_filterBehavior, TreeOK'
    PROVE  (\A n \in S : Above(n)' = Above(n)) /\ Present \subseteq Present'
<1>1. /\ IsTree(srcParent') /\ Present \subseteq In(srcParent')
      /\ \A i \in Present \cup {Root} : Ancestors(srcParent')[i] = Ancestors(srcParent)[i]
  BY InsertRowsKeepsTree DEF TreeOK
<1>2. \A n \in Present : srcParent'[n] = srcParent[n] /\ srcParent[n] \in Present \cup {Root}
  <2>1. \A n \in Present : n \in Nodes /\ n \notin DOMAIN f /\ n \notin Tops(f)
    BY ForestFacts DEF Present
  <2> QED
    BY <2>1 DEF InsertRows, TreeOK, IsTree, Present, In
<1>3. SelfAndAbove' = Ancestors(srcParent')
  BY DEF SelfAndAbove, Ancestors, Climb, Indexes
<1>4. \A n \in Present : Above(n)' = SelfAndAbove'[srcParent'[n]] /\ Above(n) = SelfAndAbove[srcParent[n]]
  BY DEF Above, parent, Present
<1> QED
  BY <1>1, <1>2, <1>3, <1>4, SelfAndAboveIsAncestors, PresentIs

\* Rows that go leave everything above the indexes that stay as it was.
LEMMA RootsInCutTree ==
    ASSUME TreeOK, NEW p \in Present \cup {Root}, NEW first, NEW last, RemoveRows(p, first, last),
           NEW S \in SUBSET Present, S \cap InRows(p, first, last) = {}
    PROVE  \A n \in S : Above(n)' = Above(n)
<1> DEFINE rest == Present \ InRows(p, first, last)
<1>1. \A i \in rest \cup {Root} : Ancestors(srcParent')[i] = Ancestors(srcParent)[i]
  BY RemoveRowsKeepsTree DEF TreeOK
<1>2. \A n \in rest : srcParent[n] \in rest \cup {Root}
  BY RestOfTree DEF TreeOK
<1>3. \A n \in rest : srcParent'[n] = srcParent[n]
  BY DEF RemoveRows, Present
<1>4. SelfAndAbove' = Ancestors(srcParent')
  BY DEF SelfAndAbove, Ancestors, Climb, Indexes
<1>5. \A n \in Present : Above(n)' = SelfAndAbove'[srcParent'[n]] /\ Above(n) = SelfAndAbove[srcParent[n]]
  BY DEF Above, parent, Present
<1> QED
  BY <1>1, <1>2, <1>3, <1>4, <1>5, SelfAndAboveIsAncestors

\* While nothing above them changes, the same selected indexes are roots.
LEMMA TargetWhereAboveKept ==
    ASSUME NEW S, \A n \in S : Above(n)' = Above(n), m_filterBehavior' = m_filterBehavior,
           Earlier = S, Earlier' = S
    PROVE  Target(Earlier)' = Target(Earlier)
BY DEF Target, getRootRanges, m_includeAllSelected

LEMMA OneWaits ==
    ASSUME NEW T, NEW s \in Seq(T), Len(s) <= 1, s # <<>>
    PROVE  s = <<Head(s)>>
<1>1. Len(s) \in Nat /\ Len(s) # 0
  BY EmptySeq
<1>2. Len(s) = 1
  <2> DEFINE n == Len(s)
  <2>1. n \in Nat /\ n # 0 /\ n <= 1
    BY <1>1
  <2> HIDE DEF n
  <2>2. n = 1
    BY <2>1
  <2> QED
    BY <2>2 DEF n
<1> QED
  BY <1>2

LEMMA RootsInit == Init => RootsInv
<1> SUFFICES ASSUME Init PROVE RootsInv
  OBVIOUS
<1>1. /\ m_rootIndexList = <<>> /\ change = NoChange /\ phase = "idle" /\ ~hasSource
  BY DEF Init
<1>2. RootTypes
  BY <1>1, NoRoots DEF RootTypes, NoChange
<1> QED
  BY <1>1, <1>2 DEF RootsInv

\* selectionChanged() keeps the invariant when it is told of what has changed since O.
LEMMA ProcessesKeepsRoots ==
    ASSUME TreeOK, UNCHANGED <<srcVars, m_filterBehavior>>, hasSource', ~m_sourceModelResetting,
           NEW O \in SUBSET Present, NEW S \in SUBSET Present, selection' = S,
           RangeOf(m_rootIndexList') = Target(O),
           m_rootIndexList' \in Seq(Nodes), Injective(m_rootIndexList'), RootTypes,
           NEW sel, NEW des, sel = S \ O, des = O \ S,
           NEW next \in Settled, Processes(sel, des, next),
           m_pendingSelectionChanges' = <<>>,
           next \in {"rebuilt", "layoutRebuilt"} => m_rootIndexList' = <<>>
    PROVE  RootsInv'
<1>1. /\ RootTypes'
      /\ \/ phase' = next /\ resume' = "idle" /\ S = O /\ RootSet' = Target(selection)'
         \/ phase' = "changing" /\ resume' = next /\ Replacing'
  BY ProcessesRoots
<1>2. Earlier' = selection'
  BY DEF Earlier
<1>3. Target(Earlier)' = Target(selection)'
  BY <1>2 DEF Target, getRootRanges
<1> QED
  BY <1>1, <1>3, RootsWhenSettled, RootsWhenChanging

\* While neither the roots nor the selection change, the call may go on.
LEMMA RootsKept ==
    ASSUME RootsInv, UNCHANGED <<srcVars, m_filterBehavior, selection, change,
                                 m_pendingSelectionChanges>>,
           m_rootIndexList' = m_rootIndexList, hasSource,
           phase \in Settled, phase' \in Settled
    PROVE  RootsInv'
BY RootsSame, RootsWhenSettled DEF RootsInv

\* Rows that have come are repaired without a change of the roots.
LEMMA InsertionKeepsRoots == HandleRowsInserted => m_rootIndexList' = m_rootIndexList
<1> SUFFICES ASSUME HandleRowsInserted PROVE m_rootIndexList' = m_rootIndexList
  OBVIOUS
<1>1. CASE UNCHANGED tableVars
  BY <1>1 DEF tableVars
<1>2. CASE SetTables(Fetched(endInsertRows(op.parent, op.first, op.last)))
  <2>1. SameRoots(Tables, Fetched(endInsertRows(op.parent, op.first, op.last)))
    BY EndInsertRowsKeepsRoots
  <2> QED
    BY <1>2, <2>1, TablesAre DEF SetTables, SameRoots
<1> QED
  BY <1>1, <1>2 DEF HandleRowsInserted

\* No root is below rows that have gone, since the selection model deselects first.
LEMMA RemovalKeepsRoots ==
    ASSUME Flow, Scope, RootsInv, HandleRowsRemoved
    PROVE  m_rootIndexList' = m_rootIndexList
<1>1. CASE UNCHANGED tableVars
  BY <1>1 DEF tableVars
<1>2. CASE SetTables(recreated(endRemoveRows(op.parent, m_proxyRemoveRows)))
  <2>1. m_rootIndexList' = ValidRoots(m_rootIndexList)
    BY <1>2, EndRemoveRowsRoots DEF SetTables
  <2>2. phase = "removed" /\ hasSource /\ Earlier = selection
    BY DEF HandleRowsRemoved, Flow, Earlier
  <2>3. RangeOf(m_rootIndexList) = Target(selection)
    BY <2>2 DEF RootsInv, Settled, RootSet
  <2>4. RangeOf(m_rootIndexList) \subseteq Present
    BY <2>3 DEF Target, getRootRanges, Scope
  <2> QED
    BY <2>1, <2>4, ValidRootsAre DEF RootsInv, RootTypes
<1> QED
  BY <1>1, <1>2 DEF HandleRowsRemoved

LEMMA ReadingKeepsRoots == ReadsAll => m_rootIndexList' = m_rootIndexList
BY TablesAre, RepairsKeepRoots DEF ReadsAll, SetTables, SameRoots

LEMMA DoomedAreRoots == RootTypes /\ RemovalBlock # {} => m_rootIndexList # <<>>
<1> SUFFICES ASSUME RootTypes, RemovalBlock # {} PROVE m_rootIndexList # <<>>
  OBVIOUS
<1>1. RemovalBlock = DoomedBlock(DoomedRoots)
  BY RemovalBlockIs
<1>2. Least(RemovalBlock) \in DOMAIN m_rootIndexList
  BY <1>1, DoomedBlockIs DEF RootTypes
<1> QED
  BY <1>2

\* With no doomed roots left, what is missing is what is to be added.
LEMMA RootsRemain ==
    ASSUME RootsInv, RootsRemoved
    PROVE  Target(selection) = RootSet \cup Added /\ RootSet \cap Added = {}
<1>1. CASE phase = "adding"
  BY <1>1 DEF RootsInv
<1>2. CASE phase = "changing" /\ RemovalBlock = {}
  <2>1. DoomedBlock(DoomedRoots) = {}
    BY <1>2, RemovalBlockIs
  <2>2. \A k \in DOMAIN m_rootIndexList : m_rootIndexList[k] \notin DoomedRoots
    BY <2>1, DoomedBlockIs DEF RootsInv, RootTypes
  <2>3. DoomedRoots = {}
    BY <2>2 DEF DoomedRoots, RootSet, RangeOf
  <2>4. Replacing
    BY <1>2 DEF RootsInv
  <2> QED
    BY <2>3, <2>4 DEF Replacing
<1> QED
  BY <1>1, <1>2 DEF RootsRemoved

\* Every step leaves the roots that the selection, or the change under way, calls for.
LEMMA RootsStep ==
    ASSUME CalmSelections, Flow, Flow', Scope, Scope', RootsInv, [Next]_vars
    PROVE  RootsInv'
<1> USE DEF Enters, Finishes
<1>a. TreeOK /\ selection \subseteq Present /\ RootTypes
  BY DEF Scope, RootsInv
<1>b. /\ phase # "idle" => hasSource
      /\ m_sourceModelResetting <=> phase \in {"resetting", "reset"}
      /\ m_pendingSelectionChanges # <<>> => phase \in {"inserting", "inserted", "draining"}
      /\ phase \in {"inserting", "inserted"} /\ m_pendingSelectionChanges # <<>> => m_rowsInserted
  BY DEF Flow
<1>c. m_pendingSelectionChanges = <<>> => Earlier = selection
  BY DEF Earlier
<1>d. /\ m_rootIndexList \in Seq(Nodes) /\ Injective(m_rootIndexList)
      /\ RootSet = RangeOf(m_rootIndexList)
  BY <1>a DEF RootTypes, RootSet
<1>e. phase \in Settled /\ hasSource => RangeOf(m_rootIndexList) = Target(Earlier)
  BY <1>d DEF RootsInv
<1>1. CASE SetSourceModel
  BY <1>1, <1>a, RootsWhenNone DEF SetSourceModel, StartsOver, SetTables, EmptyTables
<1>2. ASSUME NEW S \in SUBSET Present, NEW next,
             Selects(S, next), hasSource,
             next = phase, phase \in {"idle", "inserted", "inserting", "removed", "reset"},
             m_pendingSelectionChanges = <<>>, ~m_rowsRemoved,
             phase = "inserting" => m_rowsInserted
      PROVE  RootsInv'
  <2>0. /\ UNCHANGED <<srcVars, m_filterBehavior, hasSource, m_rootIndexList>> /\ selection' = S
    BY <1>2 DEF Selects, tableVars
  <2> DEFINE e == [selected |-> S \ selection, deselected |-> selection \ S]
  <2>1. CASE m_rowsInserted /\ ~m_sourceModelResetting
    <3>1. /\ m_pendingSelectionChanges' = Append(m_pendingSelectionChanges, e)
          /\ phase' = phase /\ UNCHANGED change
      BY <1>2, <2>1 DEF Selects, selectionChanged
    <3>2. m_pendingSelectionChanges' = <<e>>
      BY <1>2, <3>1
    <3>3. phase \in {"inserting", "inserted"}
      BY <2>1 DEF Flow
    <3>4. Earlier' = (S \ (S \ selection)) \cup (selection \ S)
      BY <2>0, <3>2 DEF Earlier
    <3>5. Earlier' = selection
      BY <3>4
    <3>6. Target(Earlier)' = Target(selection) /\ RootSet' = RootSet /\ RootTypes'
      <4>1. Target(Earlier)' = Target(Earlier')
        BY <2>0, RootsAfter
      <4> QED
        BY <1>a, <2>0, <3>1, <3>5, <4>1 DEF RootSet, RangeOf, RootTypes, Injective
    <3>7. RootSet = Target(selection)
      BY <1>2, <1>c, <1>d, <1>e, <3>3 DEF Settled
    <3> QED
      BY <3>1, <3>3, <3>6, <3>7, RootsWhenSettled DEF Settled
  <2>2. CASE ~(m_rowsInserted /\ ~m_sourceModelResetting)
    <3>1. /\ m_pendingSelectionChanges' = <<>> /\ Processes(S \ selection, selection \ S, phase)
          /\ phase # "inserting"
      BY <1>2, <2>2, <1>b DEF Selects, selectionChanged
    <3>2. CASE phase = "reset"
      <4>1. phase' = "reset" /\ UNCHANGED change
        BY <3>1, <3>2, <1>b DEF Processes
      <4> QED
        BY <1>a, <2>0, <3>2, <4>1, RootsAside DEF RootTypes, Injective
    <3>3. CASE phase # "reset"
      <4>1. phase \in Settled /\ phase \notin {"rebuilt", "layoutRebuilt"} /\ ~m_sourceModelResetting
        BY <1>2, <1>b, <3>3 DEF Settled
      <4>2. RangeOf(m_rootIndexList') = Target(selection)
        BY <1>2, <1>c, <1>e, <2>0, <4>1
      <4> QED
        BY <1>2, <1>a, <1>d, <2>0, <3>1, <4>1, <4>2, ProcessesKeepsRoots
    <3> QED
      BY <3>2, <3>3
  <2> QED
    BY <2>1, <2>2
<1>3. ASSUME NEW S \in SUBSET Present, Select(S)
      PROVE  RootsInv'
  BY <1>2, <1>3, <1>b DEF Select, Starts, Flow
<1>4. ASSUME NEW S \in SUBSET Present, SetSelectionModel(S)
      PROVE  RootsInv'
  BY <1>4, <1>a, RootsWhenNone DEF SetSelectionModel
<1>5. ASSUME NEW x \in Nodes \cup {Root}, NEW y \in 0 .. rowCount(x),
             NEW z \in y .. y + MaxForest - 1, AboutToInsert(x, y, z)
      PROVE  RootsInv'
  BY <1>5, RootsKept DEF AboutToInsert, MayInsert, Starts, selectVars, tableVars, Settled
<1>6. ASSUME NEW x \in Nodes \cup {Root}, NEW z \in 0 .. rowCount(x) - 1,
             NEW y \in 0 .. z, AboutToRemove(x, y, z)
      PROVE  RootsInv'
  <2> DEFINE gone == InRows(x, y, z)
             S == selection \ gone
  <2>1. /\ phase = "idle" /\ hasSource /\ UNCHANGED <<srcVars, m_filterBehavior, hasSource, m_rootIndexList>>
        /\ selection' = S /\ selectionChanged({}, selection \cap gone, "toRemove")
    BY <1>6 DEF AboutToRemove, Starts, tableVars
  <2>2. ~m_rowsInserted /\ ~m_rowsRemoved /\ ~m_sourceModelResetting /\ m_pendingSelectionChanges = <<>>
    BY <2>1, <1>b DEF Flow
  <2>3. Processes({}, selection \cap gone, "toRemove") /\ m_pendingSelectionChanges' = <<>>
    BY <2>1, <2>2 DEF selectionChanged
  <2>4. {} = S \ selection /\ selection \cap gone = selection \ S /\ S \in SUBSET Present
    BY <1>a
  <2> HIDE DEF S, gone
  <2>5. RangeOf(m_rootIndexList') = Target(selection)
    BY <1>c, <1>e, <2>1, <2>2 DEF Settled
  <2> QED
    BY <1>a, <1>d, <2>1, <2>2, <2>3, <2>4, <2>5, ProcessesKeepsRoots DEF Settled
<1>7. ASSUME NEW x \in Nodes \cup {Root}, NEW z \in 0 .. rowCount(x) - 1,
             NEW y \in 0 .. z, NEW w \in Nodes \cup {Root}, NEW d \in 0 .. rowCount(w),
             AboutToMove(x, y, z, w, d)
      PROVE  RootsInv'
  BY <1>7, <1>a, RootsWhenNone DEF AboutToMove, LayoutAboutToBeChanged
<1>8. ASSUME NEW x \in Nodes \cup {Root}, AboutToRelayout(x)
      PROVE  RootsInv'
  BY <1>8, <1>a, RootsWhenNone DEF AboutToRelayout, LayoutAboutToBeChanged
<1>9. CASE AboutToReset
  <2>1. RootTypes'
    BY <1>9, <1>a DEF AboutToReset, tableVars, RootTypes, Injective
  <2> QED
    BY <1>9, <2>1, RootsAside DEF AboutToReset
<1>10. ASSUME NEW behavior \in Behaviors, SetFilterBehavior(behavior)
       PROVE  RootsInv'
  BY <1>10, <1>a, RootsWhenNone DEF SetFilterBehavior, StartsOver, SetTables, EmptyTables
<1>11. CASE AnnounceRootsLeaving
  <2>1. /\ phase = "changing" /\ phase' = "rootsLeaving" /\ RemovalBlock # {}
        /\ UNCHANGED <<srcVars, m_filterBehavior, selection, m_rootIndexList, change,
                       m_pendingSelectionChanges, resume>>
    BY <1>11 DEF AnnounceRootsLeaving, selectVars, tableVars
  <2>2. (Replacing' <=> Replacing) /\ (RootTypes' <=> RootTypes) /\ RemovalBlock' = RemovalBlock
    BY <2>1, RootsSame
  <2> QED
    BY <2>1, <2>2 DEF RootsInv, Settled
<1>12. CASE RemoveRoots
  <2>1. /\ phase \in {"changing", "rootsLeaving"} /\ phase' = "changing"
        /\ UNCHANGED <<srcVars, m_filterBehavior, selection, change, resume>>
    BY <1>12 DEF RemoveRoots, selectVars
  <2>2. RemovalBlock # {}
    BY <1>12, <2>1 DEF RemoveRoots, RootsInv
  <2>3. /\ RootTypes'
        /\ RangeOf(m_rootIndexList') = RootSet \ NodesAt(RemovalBlock)
        /\ NodesAt(RemovalBlock) \subseteq DoomedRoots
    BY <1>12, <1>a, <2>2, RemoveRootsRoots
  <2>4. m_rootIndexList # <<>>
    BY <1>a, <2>2, DoomedAreRoots
  <2>5. Replacing
    BY <2>1 DEF RootsInv
  <2>6. /\ RootSet' = RootSet \ NodesAt(RemovalBlock) /\ Added' = Added
        /\ Target(selection)' = Target(selection)
        /\ DoomedRoots' = {r \in RootSet \ NodesAt(RemovalBlock) : Doomed(change.remove, r)}
    <3>1. Added' = RangeOf(change.add) /\ RootSet' = RangeOf(m_rootIndexList')
          /\ Target(selection)' = Target(selection)
          /\ DoomedRoots' = {r \in RangeOf(m_rootIndexList') : Doomed(change.remove, r)}
      BY <2>1, RootsAfter
    <3> QED
      BY <2>3, <3>1 DEF Added
  <2>7. Replacing'
    BY <2>3, <2>5, <2>6 DEF Replacing, DoomedRoots
  <2> QED
    BY <2>1, <2>3, <2>4, <2>7, RootsWhenChanging DEF RootsInv
<1>13. CASE AnnounceRoot
  <2>1. /\ RootsRemoved /\ change.add # <<>> /\ phase' = "rootComing"
        /\ UNCHANGED <<srcVars, m_filterBehavior, selection, m_rootIndexList, change,
                       m_pendingSelectionChanges>>
    BY <1>13 DEF AnnounceRoot, Inserting, selectVars, tableVars
  <2>2. Target(selection) = RootSet \cup Added /\ RootSet \cap Added = {}
    BY RootsRemain, <2>1
  <2>3. Target(selection)' = Target(selection) /\ RootSet' = RootSet /\ Added' = Added /\ RootTypes'
    BY <1>a, <2>1, RootsSame
  <2> QED
    BY <2>1, <2>2, <2>3 DEF RootsInv, Settled
<1>14. CASE InsertRoot
  <2>1. /\ phase' = "adding" /\ UNCHANGED <<srcVars, m_filterBehavior, selection>>
    BY <1>14 DEF InsertRoot, selectVars
  <2>2. /\ change.add # <<>>
        /\ Target(selection) = RootSet \cup Added /\ RootSet \cap Added = {NewRoot}
    BY <1>14 DEF InsertRoot, RootsInv
  <2>3. /\ RootTypes' /\ m_rootIndexList' = m_rootIndexList
        /\ NewRoot \in Added /\ RangeOf(change'.add) = Added \ {NewRoot}
    BY <1>14, <1>a, <2>2, InsertRootRoots
  <2>4. /\ RootSet' = RootSet /\ Added' = Added \ {NewRoot}
        /\ Target(selection)' = Target(selection)
    <3>1. RootSet' = RangeOf(m_rootIndexList') /\ Added' = RangeOf(change'.add)
          /\ Target(selection)' = Target(selection)
      BY <2>1, RootsAfter
    <3> QED
      BY <2>3, <3>1 DEF RootSet
  <2> QED
    BY <2>1, <2>2, <2>3, <2>4 DEF RootsInv, Settled
<1>32. CASE ListRoot
  <2>1. /\ phase' = "rootAdded" /\ UNCHANGED <<srcVars, m_filterBehavior, selection, change>>
    BY <1>32 DEF ListRoot, selectVars
  <2>2. /\ change.add # <<>>
        /\ Target(selection) = RootSet \cup Added /\ RootSet \cap Added = {}
    BY <1>32, RootsRemain DEF ListRoot, Inserting, RootsInv
  <2>3. /\ RootTypes' /\ NewRoot \in Added
        /\ RangeOf(m_rootIndexList') = RootSet \cup {NewRoot}
    BY <1>32, <1>a, <2>2, ListRootRoots
  <2>4. /\ RootSet' = RootSet \cup {NewRoot} /\ Added' = Added
        /\ Target(selection)' = Target(selection) /\ NewRoot' = NewRoot
    <3>1. RootSet' = RangeOf(m_rootIndexList') /\ Added' = RangeOf(change'.add)
          /\ Target(selection)' = Target(selection)
      BY <2>1, RootsAfter
    <3> QED
      BY <2>1, <2>3, <3>1 DEF Added, NewRoot
  <2> QED
    BY <2>1, <2>2, <2>3, <2>4 DEF RootsInv, Settled
<1>15. CASE FinishChange
  <2>1. /\ RootsRemoved /\ change.add = <<>> /\ phase' = resume /\ resume' = "idle"
        /\ change' = NoChange
        /\ UNCHANGED <<srcVars, m_filterBehavior, selection, hasSource, m_rootIndexList,
                       m_pendingSelectionChanges>>
    BY <1>15 DEF FinishChange, selectVars, tableVars
  <2>2. resume \in Settled /\ m_pendingSelectionChanges = <<>>
    BY <2>1, <1>b DEF RootsRemoved, Flow, ChangePhases, Settled
  <2>3. Target(selection) = RootSet
    BY <2>1, RootsRemain, NoRoots DEF Added
  <2>4. RootSet' = RootSet /\ Target(Earlier)' = Target(selection)
    <3>1. RootSet' = RangeOf(m_rootIndexList') /\ Target(Earlier)' = Target(Earlier')
      BY <2>1, RootsAfter
    <3>2. Earlier' = selection
      BY <2>1, <2>2 DEF Earlier
    <3> QED
      BY <1>d, <2>1, <3>1, <3>2
  <2>5. RootTypes'
    BY <1>a, <2>1, NoRoots DEF RootTypes, NoChange, Injective
  <2> QED
    BY <2>1, <2>2, <2>3, <2>4, <2>5, RootsWhenSettled
\* The arguments of the call.
<1> DEFINE p == op.parent
           first == op.first
           last == op.last
           q == op.target
           dest == op.dest
<1>g. op = [parent |-> p, first |-> first, last |-> last, target |-> q, dest |-> dest]
  BY DEF Flow
<1>h. Earlier \subseteq Present
  <2>1. CASE m_pendingSelectionChanges = <<>>
    BY <2>1, <1>a, <1>c
  <2>2. CASE m_pendingSelectionChanges # <<>>
    <3>1. PICK sel, des : m_pendingSelectionChanges = <<[selected |-> sel, deselected |-> des]>>
      <4>1. Head(m_pendingSelectionChanges) \in [selected : SUBSET Nodes, deselected : SUBSET Nodes]
        BY <2>2, WaitingType DEF Flow
      <4>2. m_pendingSelectionChanges = <<Head(m_pendingSelectionChanges)>>
        BY <2>2, OneWaits DEF Flow
      <4> QED
        BY <4>1, <4>2
    <3>2. sel \subseteq selection /\ des \subseteq Present \ selection
      BY <3>1 DEF Scope
    <3>3. m_pendingSelectionChanges[1].selected = sel /\ m_pendingSelectionChanges[1].deselected = des
      BY <3>1
    <3>4. Earlier = (selection \ sel) \cup des
      BY <2>2, <3>3 DEF Earlier
    <3> QED
      BY <1>a, <3>2, <3>4
  <2> QED
    BY <2>1, <2>2
<1>16. ASSUME NEW f \in Forests, SourceInserts(f)
       PROVE  RootsInv'
  <2>1. /\ phase = "inserting" /\ phase' = "inserted" /\ hasSource
        /\ DOMAIN f \subseteq Nodes \ Present /\ InsertRows(f, p, first)
        /\ UNCHANGED <<selection, m_filterBehavior, m_rootIndexList, change,
                       m_pendingSelectionChanges>>
    BY <1>16, <1>b DEF SourceInserts, Fresh, selectVars, tableVars
  <2>2. p \in Present \cup {Root}
    BY <1>g, <2>1 DEF Scope
  <2> HIDE DEF p, first, last, q, dest
  <2>3. TreeOK'
    BY DEF Scope
  <2>4. \A n \in Earlier : Above(n)' = Above(n)
    BY <1>a, <1>h, <2>1, <2>2, <2>3, RootsInGrownTree
  <2>5. Target(Earlier)' = Target(Earlier)
    <3>1. Earlier' = Earlier
      BY <2>1 DEF Earlier
    <3> QED
      BY <2>1, <2>4, <3>1, TargetWhereAboveKept
  <2>6. RootSet' = RootSet /\ RootTypes'
    BY <1>a, <2>1 DEF RootSet, RangeOf, RootTypes, Injective
  <2> QED
    BY <1>d, <1>e, <2>1, <2>5, <2>6, RootsWhenSettled DEF Settled
<1>17. CASE HandleRowsInserted
  <2>1. m_rootIndexList' = m_rootIndexList
    BY <1>17, InsertionKeepsRoots
  <2>2. /\ phase = "inserted" /\ hasSource /\ phase' \in {"idle", "draining"}
        /\ UNCHANGED <<srcVars, m_filterBehavior, selection, change, m_pendingSelectionChanges>>
    BY <1>17, <1>b DEF HandleRowsInserted, selectVars
  <2> QED
    BY <2>1, <2>2, RootsKept DEF Settled
<1>18. CASE DrainPending
  <2> DEFINE w == Head(m_pendingSelectionChanges)
  <2>1. /\ phase = "draining" /\ m_pendingSelectionChanges # <<>>
        /\ UNCHANGED <<srcVars, selection, m_filterBehavior, hasSource, m_rootIndexList>>
        /\ Processes(w.selected, w.deselected, "draining")
        /\ m_pendingSelectionChanges' = Tail(m_pendingSelectionChanges)
    BY <1>18 DEF DrainPending, selectVars, tableVars
  <2>2. /\ m_pendingSelectionChanges' = <<>> /\ w = m_pendingSelectionChanges[1]
        /\ w \in [selected : SUBSET Nodes, deselected : SUBSET Nodes]
    BY <2>1, WaitingType DEF Flow
  <2>3. m_pendingSelectionChanges = <<w>>
    BY <2>1, OneWaits DEF Flow
  <2> HIDE DEF w
  <2>4. m_pendingSelectionChanges = <<[selected |-> w.selected, deselected |-> w.deselected]>>
    BY <2>2, <2>3
  <2>5. w.selected \subseteq selection /\ w.deselected \subseteq Present \ selection
    BY <2>4 DEF Scope
  <2>6. Earlier = (selection \ w.selected) \cup w.deselected
    BY <2>1, <2>2 DEF Earlier
  <2>7. w.selected = selection \ Earlier /\ w.deselected = Earlier \ selection
    BY <2>5, <2>6
  <2>8. RangeOf(m_rootIndexList') = Target(Earlier) /\ hasSource' /\ ~m_sourceModelResetting
    BY <1>b, <1>e, <2>1 DEF Settled
  <2> QED
    BY <1>a, <1>d, <1>h, <2>1, <2>2, <2>7, <2>8, ProcessesKeepsRoots DEF Settled
<1>19. CASE FinishInsert
  BY <1>19, <1>b, RootsKept DEF FinishInsert, selectVars, tableVars, Settled
<1>20. CASE HandleRowsAboutToBeRemoved
  BY <1>20, <1>b, RootsKept DEF HandleRowsAboutToBeRemoved, selectVars, tableVars, Settled
<1>21. CASE SourceRemoves
  <2>1. /\ phase = "removing" /\ phase' = "removed" /\ hasSource /\ RemoveRows(p, first, last)
        /\ UNCHANGED <<selection, m_filterBehavior, m_rootIndexList, change,
                       m_pendingSelectionChanges>>
    BY <1>21, <1>b DEF SourceRemoves, selectVars, tableVars
  <2>2. p \in Present \cup {Root} /\ selection \cap InRows(p, first, last) = {}
    BY <1>g, <2>1 DEF Scope, Where, ChangePhases
  <2> HIDE DEF p, first, last, q, dest
  <2>3. Earlier = selection /\ Earlier' = selection
    BY <1>b, <1>c, <2>1 DEF Earlier
  <2>4. \A n \in selection : Above(n)' = Above(n)
    BY <1>a, <2>1, <2>2, RootsInCutTree
  <2>5. Target(Earlier)' = Target(Earlier)
    BY <2>1, <2>3, <2>4, TargetWhereAboveKept
  <2>6. RootSet' = RootSet /\ RootTypes'
    BY <1>a, <2>1 DEF RootSet, RangeOf, RootTypes, Injective
  <2> QED
    BY <1>d, <1>e, <2>1, <2>5, <2>6, RootsWhenSettled DEF Settled
<1>22. CASE HandleRowsRemoved
  <2>1. /\ phase = "removed" /\ hasSource /\ phase' = "idle"
        /\ UNCHANGED <<srcVars, m_filterBehavior, selection, change, m_pendingSelectionChanges>>
    BY <1>22, <1>b DEF HandleRowsRemoved, selectVars
  <2>2. m_rootIndexList' = m_rootIndexList
    BY <1>22, RemovalKeepsRoots
  <2> QED
    BY <2>1, <2>2, RootsKept DEF Settled
<1>23. CASE SourceRelayouts
  <2>1. /\ phase = "relayouting" /\ phase' = "relayouted"
        /\ UNCHANGED <<m_rootIndexList, change>>
    BY <1>23 DEF SourceRelayouts, tableVars
  <2>2. m_rootIndexList = <<>>
    BY <2>1 DEF RootsInv
  <2> QED
    BY <1>a, <2>1, <2>2, RootsWhenNone
<1>24. CASE HandleLayoutChanged
  <2>1. /\ phase = "relayouted" /\ hasSource /\ m_rootIndexList = <<>>
        /\ m_pendingSelectionChanges = <<>> /\ ~m_sourceModelResetting
    BY <1>24, <1>b DEF HandleLayoutChanged, RootsInv
  <2>2. UNCHANGED <<srcVars, m_filterBehavior, selection, hasSource, m_pendingSelectionChanges>>
    BY <1>24 DEF HandleLayoutChanged, selectVars
  <2>3. CASE selection = {} /\ phase' = "idle" /\ UNCHANGED <<tableVars, change>>
    <3>1. RootSet' = {} /\ Target(Earlier)' = {} /\ RootTypes'
      <4>1. RootSet' = RangeOf(m_rootIndexList') /\ Target(Earlier)' = Target(Earlier')
        BY <2>2, RootsAfter
      <4>2. Earlier' = {} /\ m_rootIndexList' = <<>>
        BY <2>1, <2>2, <2>3 DEF Earlier, tableVars
      <4> QED
        BY <1>a, <2>3, <4>1, <4>2, NoRoots DEF RootTypes, Injective
    <3> QED
      BY <2>3, <3>1, RootsWhenSettled DEF Settled
  <2>4. CASE SetTables(EmptyTables) /\ Processes(selection, {}, "layoutRebuilt")
    <3>1. m_rootIndexList' = <<>>
      BY <2>4 DEF SetTables, EmptyTables
    <3>2. RangeOf(m_rootIndexList') = Target({})
      BY <3>1, NoRoots
    <3>3. selection = selection \ {} /\ {} = {} \ selection /\ {} \in SUBSET Present
      OBVIOUS
    <3>4. m_rootIndexList' \in Seq(Nodes) /\ Injective(m_rootIndexList')
      BY <3>1, NoRoots
    <3> QED
      BY <1>a, <2>1, <2>2, <2>4, <3>1, <3>2, <3>3, <3>4, ProcessesKeepsRoots DEF Settled
  <2> QED
    BY <1>24, <2>3, <2>4 DEF HandleLayoutChanged
<1>25. CASE FinishLayout
  BY <1>25, <1>b, ReadingKeepsRoots, RootsKept DEF FinishLayout, selectVars, Settled
<1>26. ASSUME NEW f \in Forests, SourceResets(f)
       PROVE  RootsInv'
  <2>1. RootTypes'
    BY <1>26, <1>a DEF SourceResets, tableVars, RootTypes, Injective
  <2> QED
    BY <1>26, <2>1, RootsAside DEF SourceResets
<1>27. CASE HandleModelReset
  <2>1. CASE m_doubleResetting
    <3>1. RootTypes'
      BY <1>27, <2>1, <1>a DEF HandleModelReset, tableVars, RootTypes, Injective
    <3> QED
      BY <1>27, <2>1, <3>1, RootsAside DEF HandleModelReset
  <2>2. CASE ~m_doubleResetting
    BY <1>27, <2>2, <1>a, RootsWhenNone DEF HandleModelReset, SetTables, EmptyTables
  <2> QED
    BY <2>1, <2>2
<1>28. CASE Rebuild
  <2>1. /\ phase = "cleared" /\ hasSource /\ m_rootIndexList = <<>>
        /\ m_pendingSelectionChanges = <<>> /\ ~m_sourceModelResetting
        /\ resume \in {"idle", "rebuilt"}
    BY <1>28, <1>b DEF Rebuild, RootsInv, Flow
  <2>2. /\ UNCHANGED <<srcVars, m_filterBehavior, selection, hasSource, m_rootIndexList,
                       m_pendingSelectionChanges>>
        /\ Processes(selection, {}, resume)
    BY <1>28 DEF Rebuild, selectVars, tableVars
  <2>3. RangeOf(m_rootIndexList') = Target({})
    BY <2>1, <2>2, NoRoots
  <2>4. selection = selection \ {} /\ {} = {} \ selection /\ {} \in SUBSET Present
    OBVIOUS
  <2> QED
    BY <1>a, <1>d, <2>1, <2>2, <2>3, <2>4, ProcessesKeepsRoots DEF Settled
<1>29. CASE FinishReset
  BY <1>29, <1>b, ReadingKeepsRoots, RootsKept DEF FinishReset, selectVars, Settled
<1>30. ASSUME NEW S \in SUBSET Present, SelectInserting(S) \/ SelectRemoving(S) \/ SelectResetting(S)
       PROVE  RootsInv'
  <2>1. MaxPending \in Nat /\ MaxPending <= 1
    BY SelectionAssumption DEF CalmSelections
  <2>2. Len(m_pendingSelectionChanges) < MaxPending => m_pendingSelectionChanges = <<>>
    BY <2>1, WaitingType DEF Flow
  <2>3. CASE SelectInserting(S)
    BY <1>2, <1>b, <2>2, <2>3 DEF SelectInserting, Flow
  <2>4. CASE SelectRemoving(S)
    BY <1>2, <1>b, <2>4 DEF SelectRemoving, CalmSelections, Flow
  <2>5. CASE SelectResetting(S)
    BY <1>2, <1>b, <2>5 DEF SelectResetting, Flow
  <2> QED
    BY <1>30, <2>3, <2>4, <2>5
<1>31. CASE UNCHANGED vars
  <2>1. UNCHANGED <<srcVars, m_filterBehavior, selection, m_rootIndexList, change,
                    m_pendingSelectionChanges, phase, resume, hasSource>>
    BY <1>31 DEF vars, selectVars, changeVars, tableVars
  <2>2. /\ RootSet' = RootSet /\ Added' = Added
        /\ Target(selection)' = Target(selection) /\ Target(Earlier)' = Target(Earlier)
        /\ RemovalBlock' = RemovalBlock
        /\ (Replacing' <=> Replacing) /\ (RootTypes' <=> RootTypes) /\ NewRoot' = NewRoot
    BY <2>1, RootsSame DEF NewRoot
  <2> QED
    BY <2>1, <2>2 DEF RootsInv, Settled
<1>33. CASE ClearRelayouting
  BY <1>33, <1>a, RootsWhenNone DEF ClearRelayouting, tableVars, changeVars, RootsInv
<1> QED
  BY <1>1, <1>3, <1>4, <1>5, <1>6, <1>7, <1>8, <1>9, <1>10, <1>11, <1>12, <1>13, <1>14, <1>15,
     <1>16, <1>17, <1>18, <1>19, <1>20, <1>21, <1>22, <1>23, <1>24, <1>25, <1>26, <1>27, <1>28,
     <1>29, <1>30, <1>31, <1>32, <1>33 DEF Next, Begins, Continues, Interrupts

----------------------------------------------------------------------------
(* The begin... and end... calls nest.                                     *)

One(kind) == \E a : announced = <<a>> /\ a.kind = kind
InReset(kind) == \E a, b : announced = <<a, b>> /\ a.kind = "reset" /\ b.kind = kind

\* What the call has announced before selectionChanged(), or in place of it.
Outer ==
    /\ Where = "idle" => IF emptied THEN One("layout") ELSE announced = <<>>
    /\ Where \in {"toRemove", "draining"} \/ (phase = "cleared" /\ resume = "idle") =>
          announced = <<>>
    /\ Where \in {"inserting", "inserted"} =>
          IF m_rowsInserted THEN One("insert") ELSE announced = <<>>
    /\ Where \in {"removing", "removed"} =>
          IF m_rowsRemoved THEN One("remove") ELSE announced = <<>>
    /\ Where \in {"relayouting", "relayouted"} =>
          IF selection = {} /\ ~emptied THEN announced = <<>> ELSE One("layout")
    /\ Where = "layoutRebuilt" => One("layout")
    /\ Where \in {"resetting", "reset", "rebuilt"} \/ (phase = "cleared" /\ resume = "rebuilt") =>
          One("reset")

\* The rows of the new root have been announced.
RootAnnounced ==
    \/ phase = "rootComing"
    \/ phase = "rootAdded" /\ RowsOfRoot(NewRoot) # 0 /\ ~m_resetting

\* What is announced at each point of a call.
SignalInv ==
    /\ phase = "rootsLeaving" => One("remove") /\ resume \notin {"rebuilt", "layoutRebuilt"}
    /\ RootAnnounced => /\ resume # "layoutRebuilt"
                        /\ IF resume = "rebuilt" THEN InReset("insert") ELSE One("insert")
    /\ phase = "rootComing" => RowsOfRoot(NewRoot) # 0 /\ ~m_resetting
    /\ phase # "rootsLeaving" /\ ~RootAnnounced => Outer

LEMMA AppendedIs ==
    ASSUME NEW T, NEW s \in Seq(T), NEW b \in T
    PROVE  /\ Append(s, b) \in Seq(T) /\ Len(Append(s, b)) = Len(s) + 1
           /\ \A i \in 1 .. Len(s) : Append(s, b)[i] = s[i]
           /\ Append(s, b)[Len(s) + 1] = b
BY AppendProperties

LEMMA AppendToOne == \A a, b : Append(<<a>>, b) = <<a, b>>
<1> SUFFICES ASSUME NEW a, NEW b PROVE Append(<<a>>, b) = <<a, b>>
  OBVIOUS
<1> DEFINE T == {a, b}
           s == <<a>>
           t == <<a, b>>
<1>1. s \in Seq(T) /\ Len(s) = 1 /\ s[1] = a /\ b \in T
  OBVIOUS
<1>2. t \in Seq(T) /\ Len(t) = 2 /\ t[1] = a /\ t[2] = b
  OBVIOUS
<1> HIDE DEF s, t, T
<1>3. PICK x : /\ x = Append(s, b) /\ x \in Seq(T) /\ Len(x) = Len(s) + 1
               /\ \A i \in 1 .. Len(s) : x[i] = s[i]
               /\ x[Len(s) + 1] = b
  BY <1>1, AppendedIs
<1>4. Len(x) = 2 /\ x[1] = a /\ x[2] = b
  BY <1>1, <1>3
<1>5. \A i \in 1 .. Len(x) : x[i] = t[i]
  BY <1>2, <1>4
<1>6. x = t
  BY <1>2, <1>3, <1>4, <1>5, SeqEqual
<1> QED
  BY <1>3, <1>6 DEF s, t

\* A begin... call opens one announcement.
LEMMA BeginOpens ==
    ASSUME NEW kind, NEW p, NEW first, NEW last, Begin(kind, p, first, last)
    PROVE  /\ announced = <<>> => One(kind)'
           /\ One("reset") => InReset(kind)'
<1> DEFINE a == [kind |-> kind, parent |-> p, first |-> first, last |-> last]
<1>1. announced' = Append(announced, a) /\ a.kind = kind
  BY DEF Begin
<1> HIDE DEF a
<1>2. announced = <<>> => One(kind)'
  BY <1>1 DEF One
<1>3. ASSUME One("reset") PROVE InReset(kind)'
  <2>1. PICK b : announced = <<b>> /\ b.kind = "reset"
    BY <1>3 DEF One
  <2>2. announced' = <<b, a>>
    BY <1>1, <2>1, AppendToOne
  <2> QED
    BY <1>1, <2>1, <2>2 DEF InReset
<1> QED
  BY <1>2, <1>3

LEMMA FirstOf ==
    ASSUME NEW T, NEW s \in Seq(T), NEW n \in Nat, n = 1, Len(s) >= n
    PROVE  SubSeq(s, 1, n) = <<s[1]>>
<1> DEFINE t == SubSeq(s, 1, n)
<1>1. \A k \in 1 .. n : s[k] \in T
  OBVIOUS
<1>2. /\ t \in Seq(T) /\ Len(t) = IF 1 <= n THEN n - 1 + 1 ELSE 0
      /\ \A k \in 1 .. n - 1 + 1 : t[k] = s[1 + k - 1]
  BY <1>1, SubSeqProperties
<1> HIDE DEF t
<1>3. Len(t) = n /\ t[n] = s[n]
  BY <1>2
<1>4. t = <<Head(t)>>
  BY <1>2, <1>3, OneWaits, EmptySeq
<1>5. Head(t) = t[1]
  BY <1>2, <1>3
<1> QED
  BY <1>3, <1>4, <1>5 DEF t

LEMMA FirstOfTwo == \A a, b : SubSeq(<<a, b>>, 1, 1) = <<a>>
<1> SUFFICES ASSUME NEW a, NEW b PROVE SubSeq(<<a, b>>, 1, 1) = <<a>>
  OBVIOUS
<1> DEFINE s == <<a, b>>
<1>1. s \in Seq({a, b}) /\ Len(s) >= 1 /\ s[1] = a
  OBVIOUS
<1> HIDE DEF s
<1>2. SubSeq(s, 1, 1) = <<s[1]>>
  BY <1>1, FirstOf
<1> QED
  BY <1>1, <1>2 DEF s

\* An end... call closes the one that is open.
LEMMA EndCloses ==
    ASSUME NEW kind, End(kind)
    PROVE  /\ One(kind) => announced' = <<>>
           /\ InReset(kind) => One("reset")'
<1>1. ASSUME One(kind) PROVE announced' = <<>>
  <2>1. PICK a : announced = <<a>> /\ a.kind = kind
    BY <1>1 DEF One
  <2>2. Closes(kind) /\ Len(announced) = 1
    BY <2>1 DEF Closes, Latest
  <2>3. announced' = SubSeq(announced, 1, 0)
    BY <2>2 DEF End
  <2> QED
    BY <2>1, <2>3
<1>2. ASSUME InReset(kind) PROVE One("reset")'
  <2>1. PICK a, b : announced = <<a, b>> /\ a.kind = "reset" /\ b.kind = kind
    BY <1>2 DEF InReset
  <2>2. Closes(kind) /\ Len(announced) = 2
    BY <2>1 DEF Closes, Latest
  <2>3. announced' = SubSeq(announced, 1, 1)
    BY <2>2 DEF End
  <2>4. announced' = <<a>>
    BY <2>1, <2>3, FirstOfTwo
  <2> QED
    BY <2>1, <2>4 DEF One
<1> QED
  BY <1>1, <1>2

LEMMA SignalInit == Init => SignalInv
BY DEF Init, SignalInv, RootAnnounced, Outer, Where, ChangePhases

LEMMA RowsOfNewRoot ==
    ASSUME UNCHANGED <<srcVars, m_filterBehavior, change>>
    PROVE  NewRoot' = NewRoot /\ RowsOfRoot(NewRoot)' = RowsOfRoot(NewRoot)
BY SameTree DEF RowsOfRoot, NewRoot, m_startWithChildTrees

LEMMA BeginsReset == BeginReset => One("reset")'
BY DEF BeginReset, One


\* Every step opens and closes what the point of the call it leads to has open.
LEMMA SignalStep ==
    ASSUME CalmSelections, Flow, Flow', Scope, RootsInv, SignalInv, [Next]_vars
    PROVE  SignalInv'
<1> USE DEF Enters, Finishes, ChangePhases, Where, Phases, RootAnnounced
<1>a. announced' = announced => \A kind : One(kind)' <=> One(kind)
  BY DEF One
<1>1. CASE SetSourceModel
  <2>1. BeginReset /\ phase' = "cleared" /\ resume' = "rebuilt"
    BY <1>1 DEF SetSourceModel, StartsOver
  <2> QED
    BY <2>1, BeginsReset DEF SignalInv, RootAnnounced, Outer
<1>2. ASSUME NEW S \in SUBSET Present, NEW next, Selects(S, next),
             next = phase, phase \in {"idle", "inserted", "inserting", "removed", "reset"}
      PROVE  SignalInv'
  <2>1. /\ UNCHANGED <<announced, emptied, m_rowsInserted, m_rowsRemoved>>
        /\ \/ phase' = phase
           \/ phase' = "changing" /\ resume' = phase
    BY <1>2 DEF Selects, selectionChanged, Processes, viewVars, rowFlags
  <2> QED
    BY <1>2, <2>1, <1>a DEF SignalInv, RootAnnounced, Outer
<1>3. ASSUME NEW S \in SUBSET Present, Select(S)
      PROVE  SignalInv'
  BY <1>2, <1>3 DEF Select, Starts
<1>4. ASSUME NEW S \in SUBSET Present, SetSelectionModel(S)
      PROVE  SignalInv'
  BY <1>4 DEF SetSelectionModel, MaySetSelectionModel, Starts, SignalInv, RootAnnounced, Outer
<1>5. ASSUME NEW x \in Nodes \cup {Root}, NEW y \in 0 .. rowCount(x),
             NEW z \in y .. y + MaxForest - 1, AboutToInsert(x, y, z)
      PROVE  SignalInv'
  <2>1. phase = "idle" /\ phase' = "inserting" /\ announced = <<>> /\ ~m_rowsInserted
    BY <1>5 DEF AboutToInsert, MayInsert, Starts, SignalInv, RootAnnounced, Outer, Flow
  <2>2. CASE UNCHANGED <<m_rowsInserted, announced>>
    BY <2>1, <2>2 DEF SignalInv, RootAnnounced, Outer
  <2>3. ASSUME NEW kp, NEW a, NEW b, m_rowsInserted', Begin("insert", kp, a, b)
        PROVE  SignalInv'
    <3>1. One("insert")'
      BY <2>1, <2>3, BeginOpens
    <3> QED
      BY <2>1, <2>3, <3>1 DEF SignalInv, RootAnnounced, Outer
  <2> QED
    BY <1>5, <2>2, <2>3 DEF AboutToInsert
<1>6. ASSUME NEW x \in Nodes \cup {Root}, NEW z \in 0 .. rowCount(x) - 1,
             NEW y \in 0 .. z, AboutToRemove(x, y, z)
      PROVE  SignalInv'
  <2>1. /\ phase = "idle" /\ announced = <<>> /\ announced' = announced
        /\ \/ phase' = "toRemove"
           \/ phase' = "changing" /\ resume' = "toRemove"
    BY <1>6 DEF AboutToRemove, Starts, selectionChanged, Processes, viewVars, SignalInv,
                  RootAnnounced, Outer
  <2> QED
    BY <2>1 DEF SignalInv, RootAnnounced, Outer
<1>7. ASSUME LayoutAboutToBeChanged, phase = "idle", hasSource, ~emptied
      PROVE  SignalInv'
  <2>1. /\ announced = <<>> /\ phase' = "relayouting"
        /\ UNCHANGED <<selection, emptied>>
    BY <1>7 DEF LayoutAboutToBeChanged, selectVars, SignalInv, RootAnnounced, Outer
  <2>2. m_rootIndexList = <<>> <=> selection = {}
    <3>1. RootSet = Target(selection)
      BY <1>7 DEF RootsInv, Settled, Flow, Earlier
    <3>2. RootSet = {} <=> m_rootIndexList = <<>>
      <4>1. m_rootIndexList \in Seq(Nodes)
        BY DEF RootsInv, RootTypes
      <4>2. CASE m_rootIndexList # <<>>
        <5>1. m_rootIndexList[1] \in RootSet
          <6>1. Len(m_rootIndexList) \in Nat \ {0} /\ DOMAIN m_rootIndexList = 1 .. Len(m_rootIndexList)
            BY <4>1, <4>2, EmptySeq
          <6>2. 1 \in DOMAIN m_rootIndexList
            BY <6>1
          <6> QED
            BY <6>2 DEF RootSet, RangeOf
        <5> QED
          BY <4>2, <5>1
      <4> QED
        BY <4>2, NoRoots DEF RootSet
    <3> QED
      BY <3>1, <3>2, NothingSelected DEF Scope, TreeOK
  <2>3. CASE selection = {}
    BY <1>7, <2>1, <2>2, <2>3 DEF LayoutAboutToBeChanged, SignalInv, RootAnnounced, Outer
  <2>4. CASE selection # {}
    <3>1. One("layout")'
      BY <1>7, <2>1, <2>2, <2>4, BeginOpens DEF LayoutAboutToBeChanged
    <3> QED
      BY <2>1, <2>4, <3>1 DEF SignalInv, RootAnnounced, Outer
  <2> QED
    BY <2>3, <2>4
<1>8. ASSUME NEW x \in Nodes \cup {Root}, NEW z \in 0 .. rowCount(x) - 1,
             NEW y \in 0 .. z, NEW w \in Nodes \cup {Root}, NEW d \in 0 .. rowCount(w),
             AboutToMove(x, y, z, w, d) \/ AboutToRelayout(x)
      PROVE  SignalInv'
  BY <1>7, <1>8 DEF AboutToMove, AboutToRelayout, Starts
<1>81. ASSUME NEW x \in Nodes \cup {Root}, AboutToRelayout(x)
       PROVE  SignalInv'
  BY <1>7, <1>81 DEF AboutToRelayout, Starts
<1>9. CASE AboutToReset
  <2>1. BeginReset /\ phase' = "resetting"
    BY <1>9 DEF AboutToReset
  <2> QED
    BY <2>1, BeginsReset DEF SignalInv, RootAnnounced, Outer
<1>10. ASSUME NEW behavior \in Behaviors, SetFilterBehavior(behavior)
       PROVE  SignalInv'
  <2>1. BeginReset /\ phase' = "cleared" /\ resume' = "rebuilt"
    BY <1>10 DEF SetFilterBehavior, StartsOver
  <2> QED
    BY <2>1, BeginsReset DEF SignalInv, RootAnnounced, Outer
\* In selectionChanged() the rows of the source are not announced.
<1>b. ASSUME phase \in ChangePhases
      PROVE  ~m_rowsInserted /\ ~m_rowsRemoved
  BY <1>b DEF Flow
<1>c. phase \in ChangePhases =>
         resume \in {"idle", "toRemove", "inserted", "removed", "draining", "layoutRebuilt", "rebuilt"}
  BY DEF Flow
<1>d. /\ phase \notin {"relayouting", "relayouted", "idle"} => ~emptied
      /\ phase \notin {"relayouting", "relayouted", "idle"} /\ UNCHANGED selectVars => ~emptied'
  BY DEF Flow, selectVars
<1>11. CASE AnnounceRootsLeaving
  <2>1. /\ phase = "changing" /\ phase' = "rootsLeaving" /\ resume' = resume /\ RemovalBlock # {}
        /\ Begin("remove", Root, RemovalPair[1], RemovalPair[2])
    BY <1>11 DEF AnnounceRootsLeaving
  <2>2. m_rootIndexList # <<>>
    BY <2>1, DoomedAreRoots DEF RootsInv
  <2>3. resume \notin {"rebuilt", "layoutRebuilt"}
    BY <2>1, <2>2 DEF RootsInv
  <2>4. announced = <<>>
    BY <2>1, <2>3, <1>b, <1>c, <1>d DEF SignalInv, RootAnnounced, Outer
  <2>5. One("remove")'
    BY <2>1, <2>4, BeginOpens
  <2> QED
    BY <2>1, <2>3, <2>5 DEF SignalInv
<1>12. CASE RemoveRoots
  <2>1. /\ phase' = "changing" /\ resume' = resume /\ UNCHANGED <<m_rowsInserted, m_rowsRemoved>>
        /\ UNCHANGED selectVars
    BY <1>12 DEF RemoveRoots, rowFlags
  <2>2. CASE phase = "rootsLeaving" /\ EndRemoveRows
    <3>1. announced' = <<>>
      BY <2>2, EndCloses DEF EndRemoveRows, SignalInv
    <3> QED
      BY <2>1, <2>2, <3>1, <1>b, <1>c, <1>d DEF SignalInv, RootAnnounced, Outer
  <2>3. CASE phase = "changing" /\ UNCHANGED <<announced, view>>
    BY <2>1, <2>3, <1>a, <1>b, <1>c, <1>d DEF SignalInv, RootAnnounced, Outer
  <2> QED
    BY <1>12, <2>2, <2>3 DEF RemoveRoots
<1>13. CASE AnnounceRoot
  <2>1. /\ phase \in {"changing", "adding"} /\ phase' = "rootComing" /\ resume' = resume
        /\ ~m_resetting' /\ RowsOfRoot(NewRoot)' # 0
    <3>1. /\ phase \in {"changing", "adding"} /\ phase' = "rootComing" /\ resume' = resume
          /\ ~m_resetting' /\ RowsOfRoot(NewRoot) > 0
          /\ UNCHANGED <<srcVars, m_filterBehavior, change>>
      BY <1>13 DEF AnnounceRoot, Inserting, RootsRemoved, resetFlags, selectVars
    <3>2. RowsOfRoot(NewRoot) # 0
      BY <3>1
    <3> QED
      BY <3>1, <3>2, RowsOfNewRoot
  <2>2. resume # "layoutRebuilt"
    BY <2>1 DEF Flow
  <2>3. PICK start, end : Begin("insert", Root, start, end)
    BY <1>13 DEF AnnounceRoot
  <2>4. CASE resume = "rebuilt"
    <3>1. One("reset")
      BY <2>1, <2>4 DEF SignalInv, RootAnnounced, Outer
    <3>2. InReset("insert")'
      BY <2>3, <3>1, BeginOpens
    <3> QED
      BY <2>1, <2>4, <3>2 DEF SignalInv
  <2>5. CASE resume # "rebuilt"
    <3>1. announced = <<>>
      BY <2>1, <2>2, <2>5, <1>b, <1>c, <1>d DEF SignalInv, RootAnnounced, Outer
    <3>2. One("insert")'
      BY <2>3, <3>1, BeginOpens
    <3> QED
      BY <2>1, <2>2, <2>5, <3>2 DEF SignalInv
  <2> QED
    BY <2>4, <2>5
<1>14. CASE InsertRoot
  <2>1. /\ phase' = "adding" /\ resume' = resume /\ UNCHANGED <<m_rowsInserted, m_rowsRemoved>>
        /\ phase = "rootAdded" /\ UNCHANGED selectVars
    BY <1>14 DEF InsertRoot, rowFlags
  <2>2. CASE RootAnnounced /\ End("insert")
    <3>1. CASE resume = "rebuilt"
      <4>1. One("reset")'
        BY <2>2, <3>1, EndCloses DEF SignalInv
      <4> QED
        BY <2>1, <3>1, <4>1 DEF SignalInv, RootAnnounced, Outer
    <3>2. CASE resume # "rebuilt"
      <4>1. announced' = <<>> /\ resume # "layoutRebuilt"
        BY <2>2, <3>2, EndCloses DEF SignalInv
      <4> QED
        BY <2>1, <2>2, <3>2, <4>1, <1>b, <1>c, <1>d DEF SignalInv, RootAnnounced, Outer
    <3> QED
      BY <3>1, <3>2
  <2>3. CASE phase = "rootAdded" /\ ~RootAnnounced /\ announced' = announced
    BY <2>1, <2>3, <1>a, <1>b, <1>c, <1>d DEF SignalInv, RootAnnounced, Outer
  <2> QED
    BY <1>14, <2>2, <2>3 DEF InsertRoot, EndInsertRows
<1>32. CASE ListRoot
  <2>1. /\ phase' = "rootAdded" /\ UNCHANGED <<resume, m_rowsInserted, m_rowsRemoved, announced>>
        /\ UNCHANGED <<srcVars, m_filterBehavior, change, m_resetting, selectVars>>
        /\ \/ phase = "rootComing"
           \/ phase \in {"changing", "adding"} /\ (RowsOfRoot(NewRoot) = 0 \/ m_resetting)
    BY <1>32 DEF ListRoot, Inserting, RootsRemoved, rowFlags, resetFlags, selectVars
  <2>2. RootAnnounced' <=> phase = "rootComing"
    BY <2>1, RowsOfNewRoot DEF SignalInv
  <2>3. CASE phase = "rootComing"
    <3>1. InReset("insert")' <=> InReset("insert")
      BY <2>1 DEF InReset
    <3> QED
      BY <2>1, <2>2, <2>3, <3>1, <1>a DEF SignalInv
  <2>4. CASE phase # "rootComing"
    BY <2>1, <2>2, <2>4, <1>a, <1>b, <1>c, <1>d DEF SignalInv, RootAnnounced, Outer
  <2> QED
    BY <2>3, <2>4
<1>15. CASE FinishChange
  <2>1. /\ phase \in {"changing", "adding"} /\ phase' = resume /\ resume' = "idle"
        /\ UNCHANGED <<announced, m_rowsInserted, m_rowsRemoved, selectVars>>
    BY <1>15 DEF FinishChange, RootsRemoved, rowFlags, viewVars
  <2> QED
    BY <2>1, <1>a, <1>c, <1>d DEF SignalInv, RootAnnounced, Outer
<1>16. ASSUME NEW f \in Forests, SourceInserts(f)
       PROVE  SignalInv'
  BY <1>16, <1>a DEF SourceInserts, rowFlags, viewVars, SignalInv, RootAnnounced, Outer
<1>17. CASE HandleRowsInserted
  <2>1. CASE ~m_rowsInserted /\ phase' = "idle" /\ announced' = announced
    BY <1>17, <2>1, <1>d DEF HandleRowsInserted, SignalInv, RootAnnounced, Outer
  <2>2. CASE m_rowsInserted /\ End("insert") /\ phase' = "draining"
    <3>1. announced' = <<>>
      BY <1>17, <2>2, EndCloses DEF HandleRowsInserted, SignalInv, RootAnnounced, Outer
    <3> QED
      BY <2>2, <3>1 DEF SignalInv, RootAnnounced, Outer
  <2> QED
    BY <1>17, <2>1, <2>2 DEF HandleRowsInserted, viewVars, EndInsertRows
<1>18. CASE DrainPending
  <2>1. /\ phase = "draining" /\ announced' = announced
        /\ \/ phase' = "draining"
           \/ phase' = "changing" /\ resume' = "draining"
    BY <1>18 DEF DrainPending, Processes, viewVars
  <2> QED
    BY <2>1 DEF SignalInv, RootAnnounced, Outer
<1>19. CASE FinishInsert
  BY <1>19, <1>d DEF FinishInsert, viewVars, SignalInv, RootAnnounced, Outer
<1>20. CASE HandleRowsAboutToBeRemoved
  <2>1. /\ phase = "toRemove" /\ phase' = "removing" /\ announced = <<>> /\ ~m_rowsRemoved
    BY <1>20 DEF HandleRowsAboutToBeRemoved, SignalInv, RootAnnounced, Outer, Flow
  <2>2. CASE UNCHANGED <<rowFlags, announced>>
    BY <2>1, <2>2 DEF rowFlags, SignalInv, RootAnnounced, Outer
  <2>3. ASSUME NEW kp, NEW a, NEW b, m_rowsRemoved', Begin("remove", kp, a, b)
        PROVE  SignalInv'
    <3>1. One("remove")'
      BY <2>1, <2>3, BeginOpens
    <3> QED
      BY <2>1, <2>3, <3>1 DEF SignalInv, RootAnnounced, Outer
  <2> QED
    BY <1>20, <2>2, <2>3 DEF HandleRowsAboutToBeRemoved
<1>21. CASE SourceRemoves
  BY <1>21, <1>a DEF SourceRemoves, rowFlags, viewVars, SignalInv, RootAnnounced, Outer
<1>22. CASE HandleRowsRemoved
  <2>1. phase = "removed" /\ phase' = "idle" /\ UNCHANGED selectVars
    BY <1>22 DEF HandleRowsRemoved
  <2>2. CASE ~m_rowsRemoved /\ announced' = announced
    BY <2>1, <2>2, <1>d DEF SignalInv, RootAnnounced, Outer
  <2>3. CASE m_rowsRemoved /\ EndRemoveRows
    <3>1. announced' = <<>>
      BY <2>1, <2>3, EndCloses DEF EndRemoveRows, SignalInv, RootAnnounced, Outer
    <3> QED
      BY <2>1, <3>1, <1>d DEF SignalInv, RootAnnounced, Outer
  <2> QED
    BY <1>22, <2>2, <2>3 DEF HandleRowsRemoved, viewVars
<1>23. CASE SourceRelayouts
  BY <1>23, <1>a DEF SourceRelayouts, viewVars, selectVars, SignalInv, RootAnnounced, Outer
<1>24. CASE HandleLayoutChanged
  <2>1. /\ phase = "relayouted" /\ announced' = announced
        /\ emptied' = emptied /\ (emptied => selection = {})
        /\ \/ selection = {} /\ phase' = "idle"
           \/ selection # {} /\ phase' = "layoutRebuilt"
           \/ selection # {} /\ phase' = "changing" /\ resume' = "layoutRebuilt"
    BY <1>24 DEF HandleLayoutChanged, viewVars, Processes, selectVars, Flow
  <2> QED
    BY <2>1, <1>a DEF SignalInv, RootAnnounced, Outer
<1>25. CASE FinishLayout
  <2>1. phase = "layoutRebuilt" /\ phase' = "idle" /\ UNCHANGED selectVars /\ End("layout") /\ One("layout")
    BY <1>25 DEF FinishLayout, SignalInv, RootAnnounced, Outer
  <2> QED
    BY <2>1, EndCloses, <1>d DEF SignalInv, RootAnnounced, Outer
<1>26. ASSUME NEW f \in Forests, SourceResets(f)
       PROVE  SignalInv'
  BY <1>26, <1>a DEF SourceResets, viewVars, SignalInv, RootAnnounced, Outer
<1>27. CASE HandleModelReset
  BY <1>27, <1>a DEF HandleModelReset, viewVars, SignalInv, RootAnnounced, Outer
<1>28. CASE Rebuild
  <2>1. /\ phase = "cleared" /\ announced' = announced /\ UNCHANGED selectVars
        /\ resume \in {"idle", "rebuilt"}
        /\ \/ phase' = resume /\ resume' = "idle"
           \/ phase' = "changing" /\ resume' = resume
    BY <1>28 DEF Rebuild, Processes, viewVars, Flow
  <2> QED
    BY <2>1, <1>a, <1>d DEF SignalInv, RootAnnounced, Outer
<1>29. CASE FinishReset
  <2>1. phase = "rebuilt" /\ phase' = "idle" /\ UNCHANGED selectVars /\ End("reset") /\ One("reset")
    BY <1>29 DEF FinishReset, SignalInv, RootAnnounced, Outer
  <2> QED
    BY <2>1, EndCloses, <1>d DEF SignalInv, RootAnnounced, Outer
<1>30. ASSUME NEW S \in SUBSET Present, SelectInserting(S) \/ SelectRemoving(S) \/ SelectResetting(S)
       PROVE  SignalInv'
  <2>1. CASE SelectInserting(S)
    BY <1>2, <2>1 DEF SelectInserting
  <2>2. CASE SelectRemoving(S)
    BY <1>2, <2>2 DEF SelectRemoving, CalmSelections
  <2>3. CASE SelectResetting(S)
    BY <1>2, <2>3 DEF SelectResetting
  <2> QED
    BY <1>30, <2>1, <2>2, <2>3
<1>31. CASE UNCHANGED vars
  <2>1. /\ UNCHANGED <<announced, phase, resume, m_rowsInserted, m_rowsRemoved, selection, emptied>>
        /\ UNCHANGED <<srcVars, m_filterBehavior, change, m_resetting>>
    BY <1>31 DEF vars, selectVars, changeVars, rowFlags, resetFlags, viewVars
  <2>2. /\ Outer' <=> Outer
        /\ RootAnnounced' <=> RootAnnounced
        /\ RowsOfRoot(NewRoot)' = RowsOfRoot(NewRoot)
    BY <2>1, <1>a, RowsOfNewRoot DEF Outer
  <2>3. InReset("insert")' <=> InReset("insert")
    BY <2>1 DEF InReset
  <2> QED
    BY <2>1, <2>2, <2>3, <1>a DEF SignalInv
<1>33. CASE ClearRelayouting
  BY <1>33, <1>a DEF ClearRelayouting, changeVars, viewVars, SignalInv, Outer, Flow
<1> QED
  BY <1>1, <1>3, <1>4, <1>5, <1>6, <1>8, <1>81, <1>9, <1>10, <1>11, <1>12, <1>13, <1>14, <1>15,
     <1>16, <1>17, <1>18, <1>19, <1>20, <1>21, <1>22, <1>23, <1>24, <1>25, <1>26, <1>27, <1>28,
     <1>29, <1>30, <1>31, <1>32, <1>33 DEF Next, Begins, Continues, Interrupts

LEMMA SignalsAre ==
    ASSUME Flow, SignalInv
    PROVE  SignalsNest
<1>1. \/ announced = <<>>
      \/ \E kind \in {"insert", "remove", "reset", "layout"} : One(kind)
      \/ InReset("insert")
  BY DEF SignalInv, RootAnnounced, Outer, Flow, Phases, Where, ChangePhases
<1>2. phase = "idle" => IF emptied THEN One("layout") ELSE announced = <<>>
  BY DEF SignalInv, RootAnnounced, Outer, Where, ChangePhases
<1>6. One("layout") => Len(announced) = 1 /\ announced[1].kind = "layout"
  <2>1. ASSUME NEW a, announced = <<a>>, a.kind = "layout"
        PROVE  Len(announced) = 1 /\ announced[1].kind = "layout"
    BY <2>1
  <2> QED
    BY <2>1 DEF One
<1>7. One("layout") => OnlyOpen /\ Latest.kind = "layout"
  BY <1>6 DEF OnlyOpen, Latest
<1>3. CASE announced = <<>>
  <2>1. Len(announced) = 0
    BY <1>3
  <2> QED
    BY <1>2, <1>3, <1>7, <2>1 DEF SignalsNest
<1>4. ASSUME NEW kind \in {"insert", "remove", "reset", "layout"}, One(kind)
      PROVE  SignalsNest
  <2>1. PICK a : announced = <<a>> /\ a.kind = kind
    BY <1>4 DEF One
  <2>2. Len(announced) = 1 /\ announced[1].kind = kind
    BY <2>1
  <2> QED
    BY <1>2, <1>7, <2>2 DEF SignalsNest
<1>5. CASE InReset("insert")
  <2>1. PICK a, b : announced = <<a, b>> /\ a.kind = "reset" /\ b.kind = "insert"
    BY <1>5 DEF InReset
  <2>2. Len(announced) = 2 /\ announced[1].kind = "reset" /\ announced[2].kind = "insert"
    BY <2>1
  <2> QED
    BY <1>2, <1>6, <2>1, <2>2 DEF SignalsNest
<1> QED
  BY <1>1, <1>3, <1>4, <1>5

----------------------------------------------------------------------------
(* Who listens to the roots has them.                                      *)

\* Which roots a listener knows; it is behind only while a reset is open.
HeardInv ==
    ~m_sourceModelResetting /\ Where # "rebuilt" /\ ~(phase = "cleared" /\ resume = "rebuilt") =>
        heardRoots = IF phase = "rootsLeaving" THEN RootSet \ NodesAt(RemovalBlock) ELSE RootSet

LEMMA RootSetIs == NodesAt(DOMAIN m_rootIndexList) = RootSet
BY DEF NodesAt, RootSet, RangeOf

LEMMA HeardInit == Init => HeardInv
BY NoRoots DEF Init, HeardInv, RootSet

\* Every step that changes the roots tells of it, or ends in a reset that does.
LEMMA HeardStep ==
    ASSUME CalmSelections, Flow, Flow', Scope, RootsInv, HeardInv, [Next]_vars
    PROVE  HeardInv'
<1> USE DEF Enters, Finishes, ChangePhases, Where, Phases
<1>a. m_rootIndexList' = m_rootIndexList => RootSet' = RootSet
  BY DEF RootSet, RangeOf
<1>b. m_rootIndexList' = <<>> => RootSet' = {}
  BY NoRoots DEF RootSet
\* What is the same in all that follows.
<1>c. ASSUME m_rootIndexList' = m_rootIndexList, heardRoots' = heardRoots,
             phase # "rootsLeaving", phase' # "rootsLeaving",
             m_sourceModelResetting => m_sourceModelResetting',
             Where' # "rebuilt" /\ ~(phase' = "cleared" /\ resume' = "rebuilt") =>
                Where # "rebuilt" /\ ~(phase = "cleared" /\ resume = "rebuilt")
      PROVE  HeardInv'
  BY <1>a, <1>c DEF HeardInv
<1>1. CASE SetSourceModel
  BY <1>1 DEF SetSourceModel, StartsOver, HeardInv
<1>2. ASSUME NEW S \in SUBSET Present, NEW next, Selects(S, next),
             next = phase, phase \in {"idle", "inserted", "inserting", "removed", "reset"}
      PROVE  HeardInv'
  <2>1. /\ UNCHANGED <<m_rootIndexList, heardRoots, m_sourceModelResetting>>
        /\ \/ phase' = phase
           \/ phase' = "changing" /\ resume' = phase
    BY <1>2 DEF Selects, selectionChanged, Processes, viewVars, tableVars, resetFlags
  <2> QED
    BY <1>2, <2>1, <1>c
<1>3. ASSUME NEW S \in SUBSET Present, Select(S)
      PROVE  HeardInv'
  BY <1>2, <1>3 DEF Select, Starts
<1>4. ASSUME NEW S \in SUBSET Present, SetSelectionModel(S)
      PROVE  HeardInv'
  BY <1>4, <1>b DEF SetSelectionModel, HeardInv
<1>5. ASSUME NEW x \in Nodes \cup {Root}, NEW y \in 0 .. rowCount(x),
             NEW z \in y .. y + MaxForest - 1, AboutToInsert(x, y, z)
      PROVE  HeardInv'
  BY <1>5, <1>c DEF AboutToInsert, MayInsert, Starts, tableVars, resetFlags
<1>6. ASSUME NEW x \in Nodes \cup {Root}, NEW z \in 0 .. rowCount(x) - 1,
             NEW y \in 0 .. z, AboutToRemove(x, y, z)
      PROVE  HeardInv'
  <2>1. /\ phase = "idle" /\ UNCHANGED <<m_rootIndexList, heardRoots, m_sourceModelResetting>>
        /\ \/ phase' = "toRemove"
           \/ phase' = "changing" /\ resume' = "toRemove"
    BY <1>6 DEF AboutToRemove, Starts, selectionChanged, Processes, viewVars, tableVars,
                resetFlags
  <2> QED
    BY <2>1, <1>c
<1>7. ASSUME LayoutAboutToBeChanged, phase = "idle"
      PROVE  HeardInv'
  <2>1. heardRoots = RootSet
    BY <1>7 DEF HeardInv, Flow
  <2>2. heardRoots' = {}
    BY <1>7, <2>1, RootSetIs, NoRoots DEF LayoutAboutToBeChanged, RootSet
  <2>3. m_rootIndexList' = <<>> /\ phase' = "relayouting"
    BY <1>7 DEF LayoutAboutToBeChanged
  <2> QED
    BY <2>2, <2>3, <1>b DEF HeardInv
<1>8. ASSUME NEW x \in Nodes \cup {Root}, NEW z \in 0 .. rowCount(x) - 1,
             NEW y \in 0 .. z, NEW w \in Nodes \cup {Root}, NEW d \in 0 .. rowCount(w),
             AboutToMove(x, y, z, w, d)
      PROVE  HeardInv'
  BY <1>7, <1>8 DEF AboutToMove, Starts
<1>81. ASSUME NEW x \in Nodes \cup {Root}, AboutToRelayout(x)
       PROVE  HeardInv'
  BY <1>7, <1>81 DEF AboutToRelayout, Starts
<1>9. CASE AboutToReset
  BY <1>9 DEF AboutToReset, HeardInv
<1>10. ASSUME NEW behavior \in Behaviors, SetFilterBehavior(behavior)
       PROVE  HeardInv'
  BY <1>10 DEF SetFilterBehavior, StartsOver, HeardInv
<1>11. CASE AnnounceRootsLeaving
  <2>1. /\ phase = "changing" /\ phase' = "rootsLeaving" /\ resume' = resume
        /\ heardRoots' = heardRoots \ NodesAt(RemovalBlock)
        /\ UNCHANGED <<srcVars, m_filterBehavior, selection, m_rootIndexList, change,
                       m_pendingSelectionChanges, m_sourceModelResetting>>
    BY <1>11 DEF AnnounceRootsLeaving, selectVars, tableVars, resetFlags
  <2>2. RootSet' = RootSet /\ RemovalBlock' = RemovalBlock
    BY <2>1, RootsSame
  <2>3. NodesAt(RemovalBlock)' = NodesAt(RemovalBlock)
    BY <2>1, <2>2 DEF NodesAt
  <2> QED
    BY <2>1, <2>2, <2>3 DEF HeardInv
<1>12. CASE RemoveRoots
  <2>1. /\ phase \in {"changing", "rootsLeaving"} /\ phase' = "changing" /\ resume' = resume
        /\ m_sourceModelResetting' = m_sourceModelResetting
        /\ heardRoots' = IF phase = "rootsLeaving" THEN heardRoots
                         ELSE heardRoots \ NodesAt(RemovalBlock)
    BY <1>12 DEF RemoveRoots, resetFlags
  <2>2. RemovalBlock # {}
    BY <1>12, <2>1 DEF RemoveRoots, RootsInv
  <2>3. RootSet' = RootSet \ NodesAt(RemovalBlock)
    <3>1. RangeOf(m_rootIndexList') = RootSet \ NodesAt(RemovalBlock)
      BY <1>12, <2>2, RemoveRootsRoots DEF RootsInv
    <3>2. RootSet' = RangeOf(m_rootIndexList')
      BY DEF RootSet, RangeOf
    <3> QED
      BY <3>1, <3>2
  <2> QED
    BY <2>1, <2>3 DEF HeardInv
<1>13. CASE AnnounceRoot
  BY <1>13, <1>c DEF AnnounceRoot, Inserting, RootsRemoved, tableVars, resetFlags
<1>14. CASE InsertRoot
  <2>1. m_rootIndexList' = m_rootIndexList
    BY <1>14, InsertRootRoots DEF InsertRoot, RootsInv
  <2> QED
    BY <1>14, <2>1, <1>c DEF InsertRoot, resetFlags
<1>32. CASE ListRoot
  <2>1. /\ phase \in {"changing", "adding", "rootComing"} /\ phase' = "rootAdded" /\ resume' = resume
        /\ m_sourceModelResetting' = m_sourceModelResetting
        /\ heardRoots' = IF RootIsAnnounced THEN heardRoots \cup {NewRoot} ELSE heardRoots
    BY <1>32 DEF ListRoot, Inserting, RootsRemoved, resetFlags
  <2>2. resume # "rebuilt" => RootIsAnnounced
    BY <2>1 DEF Flow, RootIsAnnounced
  <2>3. RootSet' = RootSet \cup {NewRoot}
    <3>1. /\ change.add # <<>>
          /\ Target(selection) = RootSet \cup Added /\ RootSet \cap Added = {}
      BY <1>32, RootsRemain DEF ListRoot, Inserting, RootsInv
    <3>2. RangeOf(m_rootIndexList') = RootSet \cup {NewRoot}
      BY <1>32, <3>1, ListRootRoots DEF Scope, RootsInv
    <3>3. RootSet' = RangeOf(m_rootIndexList')
      BY DEF RootSet, RangeOf
    <3> QED
      BY <3>2, <3>3
  <2> QED
    BY <2>1, <2>2, <2>3 DEF HeardInv
<1>15. CASE FinishChange
  BY <1>15, <1>c DEF FinishChange, RootsRemoved, tableVars, resetFlags, viewVars, Flow
<1>16. ASSUME NEW f \in Forests, SourceInserts(f)
       PROVE  HeardInv'
  BY <1>16, <1>c DEF SourceInserts, tableVars, resetFlags, viewVars
<1>17. CASE HandleRowsInserted
  <2>1. m_rootIndexList' = m_rootIndexList
    BY <1>17, InsertionKeepsRoots
  <2> QED
    BY <1>17, <2>1, <1>c DEF HandleRowsInserted, resetFlags, viewVars
<1>18. CASE DrainPending
  <2>1. /\ phase = "draining" /\ UNCHANGED <<m_rootIndexList, heardRoots, m_sourceModelResetting>>
        /\ \/ phase' = "draining"
           \/ phase' = "changing" /\ resume' = "draining"
    BY <1>18 DEF DrainPending, Processes, viewVars, tableVars, resetFlags
  <2> QED
    BY <2>1, <1>c
<1>19. CASE FinishInsert
  BY <1>19, <1>c DEF FinishInsert, tableVars, resetFlags, viewVars
<1>20. CASE HandleRowsAboutToBeRemoved
  BY <1>20, <1>c DEF HandleRowsAboutToBeRemoved, tableVars, resetFlags
<1>21. CASE SourceRemoves
  BY <1>21, <1>c DEF SourceRemoves, tableVars, resetFlags, viewVars
<1>22. CASE HandleRowsRemoved
  <2>1. m_rootIndexList' = m_rootIndexList
    BY <1>22, RemovalKeepsRoots
  <2> QED
    BY <1>22, <2>1, <1>c DEF HandleRowsRemoved, resetFlags, viewVars
<1>23. CASE SourceRelayouts
  BY <1>23, <1>c DEF SourceRelayouts, tableVars, resetFlags, viewVars
<1>24. CASE HandleLayoutChanged
  <2>1. /\ phase = "relayouted" /\ UNCHANGED <<heardRoots, m_sourceModelResetting>>
        /\ \/ phase' = "idle"
           \/ phase' = "layoutRebuilt"
           \/ phase' = "changing" /\ resume' = "layoutRebuilt"
    BY <1>24 DEF HandleLayoutChanged, viewVars, Processes
  <2>2. m_rootIndexList = <<>> /\ m_rootIndexList' = <<>>
    BY <1>24, <2>1 DEF HandleLayoutChanged, RootsInv, SetTables, EmptyTables, tableVars
  <2> QED
    BY <2>1, <2>2, <1>c
<1>25. CASE FinishLayout
  <2>1. m_rootIndexList' = m_rootIndexList
    BY <1>25, ReadingKeepsRoots DEF FinishLayout
  <2> QED
    BY <1>25, <2>1, <1>c DEF FinishLayout
<1>26. ASSUME NEW f \in Forests, SourceResets(f)
       PROVE  HeardInv'
  BY <1>26, <1>c DEF SourceResets, tableVars, resetFlags, viewVars
<1>27. CASE HandleModelReset
  <2>1. CASE m_doubleResetting
    BY <1>27, <2>1, <1>c DEF HandleModelReset, tableVars, viewVars
  <2>2. CASE ~m_doubleResetting
    BY <1>27, <2>2 DEF HandleModelReset, HeardInv
  <2> QED
    BY <2>1, <2>2
<1>28. CASE Rebuild
  <2>1. /\ phase = "cleared" /\ UNCHANGED <<m_rootIndexList, heardRoots, m_sourceModelResetting>>
        /\ resume \in {"idle", "rebuilt"}
        /\ \/ phase' = resume /\ resume' = "idle"
           \/ phase' = "changing" /\ resume' = resume
    BY <1>28 DEF Rebuild, Processes, viewVars, tableVars, resetFlags, Flow
  <2> QED
    BY <2>1, <1>c
<1>29. CASE FinishReset
  <2>1. m_rootIndexList' = m_rootIndexList
    BY <1>29, ReadingKeepsRoots DEF FinishReset
  <2>2. heardRoots' = RootSet /\ phase' = "idle"
    BY <1>29, RootSetIs DEF FinishReset
  <2> QED
    BY <2>1, <2>2, <1>a DEF HeardInv
<1>30. ASSUME NEW S \in SUBSET Present, SelectInserting(S) \/ SelectRemoving(S) \/ SelectResetting(S)
       PROVE  HeardInv'
  <2>1. CASE SelectInserting(S)
    BY <1>2, <2>1 DEF SelectInserting
  <2>2. CASE SelectRemoving(S)
    BY <1>2, <2>2 DEF SelectRemoving, CalmSelections
  <2>3. CASE SelectResetting(S)
    BY <1>2, <2>3 DEF SelectResetting
  <2> QED
    BY <1>30, <2>1, <2>2, <2>3
<1>31. CASE UNCHANGED vars
  <2>1. UNCHANGED <<srcVars, m_filterBehavior, selection, m_rootIndexList, change, phase, resume,
                    m_pendingSelectionChanges, m_sourceModelResetting, heardRoots>>
    BY <1>31 DEF vars, selectVars, changeVars, tableVars, resetFlags, viewVars
  <2>2. RootSet' = RootSet /\ RemovalBlock' = RemovalBlock
    BY <2>1, RootsSame
  <2>3. NodesAt(RemovalBlock)' = NodesAt(RemovalBlock)
    BY <2>1, <2>2 DEF NodesAt
  <2> QED
    BY <2>1, <2>2, <2>3 DEF HeardInv
<1>33. CASE ClearRelayouting
  BY <1>33, <1>c DEF ClearRelayouting, tableVars, changeVars, resetFlags, viewVars
<1> QED
  BY <1>1, <1>3, <1>4, <1>5, <1>6, <1>8, <1>81, <1>9, <1>10, <1>11, <1>12, <1>13, <1>14, <1>15,
     <1>16, <1>17, <1>18, <1>19, <1>20, <1>21, <1>22, <1>23, <1>24, <1>25, <1>26, <1>27, <1>28,
     <1>29, <1>30, <1>31, <1>32, <1>33 DEF Next, Begins, Continues, Interrupts

LEMMA HeardAre ==
    ASSUME Flow, HeardInv
    PROVE  RootsHeard
BY RootSetIs DEF Flow, HeardInv, RootsHeard, Where, ChangePhases

----------------------------------------------------------------------------
(* The roots are in depth-first order.                                     *)

\* Before is a strict total order of the indexes that are in the model.
LEMMA BeforeOrders ==
    ASSUME TreeOK
    PROVE  /\ \A x, y \in Present : Before(x, y) => ~Before(y, x) /\ x # y
           /\ \A x, y \in Present : x # y => Before(x, y) \/ Before(y, x)
           /\ \A x, y, z \in Present : Before(x, y) /\ Before(y, z) => Before(x, z)
           /\ \A x, y : x \in Above(y) => Before(x, y)
<1>1. Present = In(srcParent)
  BY PresentIs
<1>2. \A x, y \in Present : Before(x, y) <=> Precedes(srcParent, srcRow, x, y)
  BY BeforeIsPrecedes
<1>3. \A x, y \in Present : Before(x, y) => ~Before(y, x) /\ x # y
  BY <1>1, <1>2, PrecedesAntisymmetric DEF TreeOK
<1>4. \A x, y \in Present : x # y => Before(x, y) \/ Before(y, x)
  BY <1>1, <1>2, PrecedesTotal DEF TreeOK
<1>5. \A x, y, z \in Present : Before(x, y) /\ Before(y, z) => Before(x, z)
  BY <1>1, <1>2, PrecedesTransitive DEF TreeOK
<1> QED
  BY <1>3, <1>4, <1>5 DEF Before

\* What is not below a is before or after all of a alike.
LEMMA OutsideAgrees ==
    ASSUME TreeOK, NEW r \in Present, NEW a \in Present, a \notin SelfAndAbove[r],
           NEW x \in Present, a \in SelfAndAbove[x], NEW y \in Present, a \in SelfAndAbove[y]
    PROVE  (Before(r, x) <=> Before(r, y)) /\ r # x
<1>1. \A n \in Present : SelfAndAbove[n] = {n} \cup Above(n)
  BY AboveFacts DEF TreeOK
<1>2. r # a /\ a \notin Above(r) /\ r # x /\ r # y
  BY <1>1
<1>3. \A z \in Present : a \in SelfAndAbove[z] /\ Before(r, a) => Before(r, z)
  <2> SUFFICES ASSUME NEW z \in Present, a \in SelfAndAbove[z], Before(r, a) PROVE Before(r, z)
    OBVIOUS
  <2>1. z = a \/ Before(a, z)
    BY <1>1, BeforeOrders
  <2> QED
    BY <2>1, BeforeOrders
<1>4. \A z \in Present : a \in SelfAndAbove[z] /\ Before(a, r) => Before(z, r)
  <2> SUFFICES ASSUME NEW z \in Present, a \in SelfAndAbove[z], Before(a, r) PROVE Before(z, r)
    OBVIOUS
  <2>1. PICK c \in SelfAndAbove[a], d \in SelfAndAbove[r] :
           srcParent[c] = srcParent[d] /\ srcRow[c] < srcRow[d]
    BY <1>2 DEF Before
  <2>2. c \in SelfAndAbove[z]
    BY <2>1, AncestorsTransitive, SelfAndAboveIsAncestors, PresentIs DEF TreeOK
  <2> QED
    BY <2>1, <2>2 DEF Before
<1> QED
  BY <1>2, <1>3, <1>4, BeforeOrders

\* Below a, the branch of n is the row of a child of a.
LEMMA BranchIs ==
    ASSUME TreeOK, NEW a, NEW n \in Present, a \in Above(n) \cup {Root}
    PROVE  /\ \E b \in SelfAndAbove[n] : srcParent[b] = a
           /\ \A b \in SelfAndAbove[n] : srcParent[b] = a => BranchRow(a, n) = srcRow[b]
<1> DEFINE S == {c \in SelfAndAbove[n] : a = Root \/ a \in Above(c)}
<1>1. /\ SelfAndAbove[n] = {n} \cup Above(n) /\ n \notin Above(n)
      /\ Above(n) \subseteq Present /\ SelfAndAbove[n] \subseteq Present
  BY AboveFacts DEF TreeOK
<1>2. n # a
  BY <1>1, NodesAssumption DEF Present
<1>3. \E b \in SelfAndAbove[n] : srcParent[b] = a
  <2>1. S \in SUBSET In(srcParent) /\ n \in S
    BY <1>1, PresentIs
  <2>2. PICK b \in S : srcParent[b] \notin S
    BY <2>1 DEF TreeOK, IsTree
  <2>3. b \in SelfAndAbove[n] /\ b \in Present
    BY <1>1
  <2>4. srcParent[b] \in SelfAndAbove[n] \cup {Root}
    BY <2>3, AncestorsClosed, SelfAndAboveIsAncestors, PresentIs DEF TreeOK
  <2>5. CASE a = Root
    BY <2>2, <2>3, <2>4, <2>5
  <2>6. CASE a # Root
    <3>1. a \in Above(b) /\ Above(b) = SelfAndAbove[srcParent[b]]
      BY <2>3, <2>6, AboveFacts, SelfAndAboveIsAncestors DEF TreeOK
    <3>2. SelfAndAbove[Root] = {}
      BY AncestorsOfOne, SelfAndAboveIsAncestors DEF TreeOK
    <3>3. srcParent[b] \in SelfAndAbove[n] /\ srcParent[b] \in Present
      BY <1>1, <2>4, <3>1, <3>2
    <3>4. SelfAndAbove[srcParent[b]] = {srcParent[b]} \cup Above(srcParent[b])
      BY <3>3, AboveFacts DEF TreeOK
    <3>5. a \notin Above(srcParent[b])
      BY <2>2, <3>3
    <3> QED
      BY <2>3, <3>1, <3>4, <3>5
  <2> QED
    BY <2>5, <2>6
<1>4. \A b, c \in SelfAndAbove[n] : srcParent[b] = a /\ srcParent[c] = a => b = c
  BY SiblingsApart, SelfAndAboveIsAncestors, PresentIs DEF TreeOK
<1>5. BranchRow(a, n) = srcRow[CHOOSE b \in SelfAndAbove[n] : srcParent[b] = a]
  BY <1>2 DEF BranchRow
<1>6. \A b \in SelfAndAbove[n] : srcParent[b] = a => BranchRow(a, n) = srcRow[b]
  BY <1>4, <1>5
<1> QED
  BY <1>3, <1>6

\* The list is in depth-first order, and so has each index once.
IsSorted(list) == \A j, k \in DOMAIN list : j < k => Before(list[j], list[k])

\* Of the roots that share the common parent, those in an earlier branch are before i.
LEMMA BranchesOrder ==
    ASSUME TreeOK, NEW list \in Seq(Nodes), list # <<>>, RangeOf(list) \subseteq Present,
           NEW i \in Present, i \notin RangeOf(list),
           NEW a, a = commonParent(list, i)
    PROVE  /\ a \in Above(i) \cup {Root}
           /\ \A k \in DOMAIN list : OnPath(list, k, a) =>
                 /\ BranchRow(a, list[k]) \in Int
                 /\ BranchRow(a, list[k]) < BranchRow(a, i) => Before(list[k], i)
                 /\ ~(BranchRow(a, list[k]) < BranchRow(a, i)) => Before(i, list[k])
                 /\ list[k] # a => BranchRow(a, list[k]) >= 0
           /\ BranchRow(a, i) \in Nat
           /\ \E k \in DOMAIN list : OnPath(list, k, a)
<1>1. PICK t \in SelfAndAbove[i] :
         /\ a = srcParent[t]
         /\ t = i \/ \A k \in DOMAIN list : t \notin SelfAndAbove[list[k]]
         /\ \E k \in DOMAIN list : OnPath(list, k, a)
  BY CommonParentIs DEF TreeOK
<1>2. \A n \in Present : /\ SelfAndAbove[n] = {n} \cup Above(n) /\ n \notin Above(n)
                        /\ Above(n) \subseteq Present /\ SelfAndAbove[n] \subseteq Present
  BY AboveFacts DEF TreeOK
<1>3. a \in Above(i) \cup {Root}
  <2>1. Ancestors(srcParent)[srcParent[t]] \subseteq Ancestors(srcParent)[srcParent[i]]
    BY AboveAncestor, SelfAndAboveIsAncestors, PresentIs DEF TreeOK
  <2>2. srcParent[t] \in Present \cup {Root} /\ t \in Present
    BY <1>2, AncestorsOfOne, PresentIs DEF TreeOK
  <2>3. srcParent[t] \in Present => srcParent[t] \in Ancestors(srcParent)[srcParent[t]]
    BY <1>2, SelfAndAboveIsAncestors
  <2> QED
    BY <1>1, <2>1, <2>2, <2>3, AboveFacts DEF TreeOK
<1>4. BranchRow(a, i) = srcRow[t]
  BY <1>1, <1>3, BranchIs
<1>5. /\ \A n \in Present : srcRow[n] \in Nat
      /\ \A m, n \in Present : srcParent[m] = srcParent[n] /\ srcRow[m] = srcRow[n] => m = n
  BY RowsType, PresentIs DEF TreeOK
<1>6. t \in Present /\ srcRow[t] \in Nat
  BY <1>2, <1>5
<1>7. ASSUME NEW k \in DOMAIN list, OnPath(list, k, a)
      PROVE  /\ BranchRow(a, list[k]) \in Int
             /\ BranchRow(a, list[k]) < BranchRow(a, i) => Before(list[k], i)
             /\ ~(BranchRow(a, list[k]) < BranchRow(a, i)) => Before(i, list[k])
             /\ list[k] # a => BranchRow(a, list[k]) >= 0
  <2> DEFINE r == list[k]
  <2>1. r \in Present /\ r # i
    BY DEF RangeOf
  <2>2. CASE r = a
    <3>1. BranchRow(a, r) = -1
      BY <2>2 DEF BranchRow, NoRow
    <3>2. r \in Above(i)
      BY <1>3, <2>1, <2>2, NodesAssumption DEF Present
    <3>3. Before(r, i)
      BY <3>2, BeforeOrders
    <3>4. -1 < BranchRow(a, i)
      BY <1>4, <1>6
    <3> QED
      BY <2>2, <3>1, <3>3, <3>4
  <2>3. CASE r # a
    <3>1. a \in Above(r) \cup {Root}
      BY <1>2, <1>7, <2>1, <2>3 DEF OnPath
    <3>2. PICK b \in SelfAndAbove[r] : srcParent[b] = a
      BY <2>1, <3>1, BranchIs
    <3>3. BranchRow(a, r) = srcRow[b] /\ b \in Present /\ srcRow[b] \in Nat
      BY <1>2, <1>5, <2>1, <3>1, <3>2, BranchIs
    <3>4. CASE srcRow[b] < srcRow[t]
      <4>1. Before(r, i)
        BY <1>1, <3>2, <3>4 DEF Before
      <4> QED
        BY <1>4, <3>3, <3>4, <4>1
    <3>5. CASE srcRow[t] < srcRow[b]
      <4>1. Before(i, r)
        BY <1>1, <3>2, <3>5 DEF Before
      <4> QED
        BY <1>4, <1>6, <3>3, <3>5, <4>1
    <3>6. CASE srcRow[b] = srcRow[t]
      <4>1. b = t
        BY <1>1, <1>5, <1>6, <3>2, <3>3, <3>6
      <4>2. i \in SelfAndAbove[r]
        BY <1>1, <3>2, <4>1
      <4>3. i \in Above(r)
        BY <1>2, <2>1, <4>2
      <4>4. Before(i, r)
        BY <4>3, BeforeOrders
      <4> QED
        BY <1>4, <1>6, <3>3, <3>6, <4>4
    <3> QED
      BY <1>6, <3>3, <3>4, <3>5, <3>6
  <2> QED
    BY <2>2, <2>3
<1> QED
  BY <1>1, <1>3, <1>4, <1>6, <1>7

\* The search stops at the first root that i comes before, if there is one.
LEMMA SearchFinds ==
    ASSUME TreeOK, NEW list \in Seq(Nodes), list # <<>>, RangeOf(list) \subseteq Present,
           IsSorted(list), NEW i \in Present, i \notin RangeOf(list)
    PROVE  /\ SearchStop(list, i) \in 1 .. Len(list) + 1
           /\ \A k \in DOMAIN list : IF k < SearchStop(list, i) THEN Before(list[k], i)
                                     ELSE Before(i, list[k])
<1> DEFINE n == Len(list)
           a == commonParent(list, i)
           starts == {k \in DOMAIN list : OnPath(list, k, a)}
           first == Least(starts)
           stops == {k \in first + 1 .. n :
                        ~(OnPath(list, k, a) /\ 0 <= BranchRow(a, list[k])
                                            /\ BranchRow(a, list[k]) < BranchRow(a, i))}
           stop == SearchStop(list, i)
<1>0. SearchStop(list, i) \in 1 .. Len(list) + 1
  BY SearchInRange DEF TreeOK
<1>1. n \in Nat /\ DOMAIN list = 1 .. n /\ \A k \in 1 .. n : list[k] \in Present /\ list[k] # i
  BY DEF RangeOf
<1>2. stop = IF BranchRow(a, list[first]) >= BranchRow(a, i) THEN first
             ELSE IF stops # {} THEN Least(stops) ELSE n + 1
  BY DEF SearchStop
<1> HIDE DEF n, stop
<1>3. /\ a \in Above(i) \cup {Root}
      /\ \A k \in 1 .. n : OnPath(list, k, a) =>
            /\ BranchRow(a, list[k]) \in Int
            /\ BranchRow(a, list[k]) < BranchRow(a, i) => Before(list[k], i)
            /\ ~(BranchRow(a, list[k]) < BranchRow(a, i)) => Before(i, list[k])
            /\ list[k] # a => BranchRow(a, list[k]) >= 0
      /\ BranchRow(a, i) \in Nat
      /\ \E k \in 1 .. n : OnPath(list, k, a)
  BY <1>1, BranchesOrder
<1> HIDE DEF a
<1>4. starts \in SUBSET Nat /\ starts # {}
  BY <1>1, <1>3
<1>5. first \in starts /\ \A k \in starts : first <= k
  <2> HIDE DEF starts
  <2> QED
    BY <1>4, LeastIs
<1> HIDE DEF first
<1>6. /\ first \in 1 .. n /\ OnPath(list, first, a)
      /\ \A k \in 1 .. n : OnPath(list, k, a) => first <= k
  BY <1>1, <1>5
<1>7. \A j, k \in 1 .. n : j < k => Before(list[j], list[k])
  BY <1>1 DEF IsSorted
\* Roots elsewhere are before all that is below a, or after.
<1>8. \A j, k \in 1 .. n : ~OnPath(list, j, a) /\ OnPath(list, k, a) =>
         (Before(list[j], list[k]) <=> Before(list[j], i))
  <2> SUFFICES ASSUME NEW j \in 1 .. n, NEW k \in 1 .. n, ~OnPath(list, j, a), OnPath(list, k, a)
               PROVE  Before(list[j], list[k]) <=> Before(list[j], i)
    OBVIOUS
  <2>1. a # Root /\ a \notin SelfAndAbove[list[j]] /\ a \in SelfAndAbove[list[k]]
    BY DEF OnPath
  <2>2. SelfAndAbove[i] = {i} \cup Above(i) /\ Above(i) \subseteq Present
    BY AboveFacts DEF TreeOK
  <2>3. a \in SelfAndAbove[i] /\ a \in Present
    BY <1>3, <2>1, <2>2
  <2> QED
    BY <1>1, <2>1, <2>3, OutsideAgrees
\* Only the first of them can be a itself.
<1>9. \A k \in 1 .. n : first < k => list[k] # a
  <2> SUFFICES ASSUME NEW k \in 1 .. n, first < k, list[k] = a PROVE FALSE
    OBVIOUS
  <2>1. Before(list[first], a) /\ a \in Present /\ list[first] \in Present
    BY <1>1, <1>6, <1>7
  <2>2. a \in SelfAndAbove[list[first]]
    BY <1>6, <2>1, NodesAssumption DEF OnPath, Present
  <2>3. SelfAndAbove[list[first]] = {list[first]} \cup Above(list[first])
    BY <2>1, AboveFacts DEF TreeOK
  <2>4. a = list[first] \/ Before(a, list[first])
    BY <2>2, <2>3, BeforeOrders
  <2> QED
    BY <2>1, <2>4, BeforeOrders
\* What comes before one that is before i is before i, and what comes after one that is after i.
<1>10. /\ \A j, k \in 1 .. n : j < k /\ Before(list[k], i) => Before(list[j], i)
       /\ \A j, k \in 1 .. n : j < k /\ Before(i, list[j]) => Before(i, list[k])
  BY <1>1, <1>7, BeforeOrders
<1>11. CASE BranchRow(a, list[first]) >= BranchRow(a, i)
  <2>1. stop = first
    BY <1>2, <1>11
  <2>2. Before(i, list[first])
    BY <1>3, <1>6, <1>11
  <2>3. \A k \in 1 .. n : k < first => Before(list[k], i)
    BY <1>6, <1>7, <1>8
  <2>4. \A k \in 1 .. n : ~(k < first) => Before(i, list[k])
    BY <1>6, <1>10, <2>2
  <2> QED
    BY <1>0, <1>1, <2>1, <2>3, <2>4 DEF stop
<1>12. CASE ~(BranchRow(a, list[first]) >= BranchRow(a, i))
  <2>1. Before(list[first], i)
    BY <1>3, <1>6, <1>12
  <2>2. \A k \in 1 .. n : k <= first => Before(list[k], i)
    BY <1>6, <1>10, <2>1
  <2>3. stops \in SUBSET Nat
    BY <1>1, <1>6
  <2>4. \A k \in first + 1 .. n : k \notin stops => Before(list[k], i)
    BY <1>1, <1>3, <1>6
  <2>5. \A k \in stops : Before(i, list[k]) /\ k \in first + 1 .. n
    <3> SUFFICES ASSUME NEW k \in stops PROVE Before(i, list[k])
      OBVIOUS
    <3>1. k \in 1 .. n /\ first < k
      BY <1>1, <1>6
    <3>2. CASE OnPath(list, k, a)
      <4>1. BranchRow(a, list[k]) \in Int /\ BranchRow(a, list[k]) >= 0
        BY <1>3, <1>9, <3>1, <3>2
      <4>2. ~(BranchRow(a, list[k]) < BranchRow(a, i))
        BY <3>2, <4>1
      <4> QED
        BY <1>3, <3>1, <3>2, <4>2
    <3>3. CASE ~OnPath(list, k, a)
      <4>1. Before(list[first], list[k])
        BY <1>6, <1>7, <3>1
      <4>2. ~Before(list[k], list[first])
        BY <1>1, <1>6, <3>1, <4>1, BeforeOrders
      <4>3. ~Before(list[k], i)
        BY <1>6, <1>8, <3>1, <3>3, <4>2
      <4> QED
        BY <1>1, <3>1, <4>3, BeforeOrders
    <3> QED
      BY <3>2, <3>3
  <2> HIDE DEF stops
  <2>6. CASE stops = {}
    <3>1. stop = n + 1
      BY <1>2, <1>12, <2>6
    <3>2. \A k \in 1 .. n : k < stop /\ Before(list[k], i)
      <4> SUFFICES ASSUME NEW k \in 1 .. n PROVE k < stop /\ Before(list[k], i)
        OBVIOUS
      <4>1. CASE k <= first
        BY <1>1, <2>2, <3>1, <4>1
      <4>2. CASE ~(k <= first)
        BY <1>1, <1>6, <2>4, <2>6, <3>1, <4>2
      <4> QED
        BY <4>1, <4>2
    <3> QED
      BY <1>0, <1>1, <3>2 DEF stop
  <2>7. CASE stops # {}
    <3>1. stop = Least(stops)
      BY <1>2, <1>12, <2>7
    <3>2. stop \in stops /\ \A k \in stops : stop <= k
      BY <2>3, <2>7, <3>1, LeastIs
    <3>3. stop \in first + 1 .. n /\ Before(i, list[stop])
      BY <2>5, <3>2
    <3>4. \A k \in 1 .. n : k < stop => Before(list[k], i)
      <4> SUFFICES ASSUME NEW k \in 1 .. n, k < stop PROVE Before(list[k], i)
        OBVIOUS
      <4>1. CASE k <= first
        BY <2>2, <4>1
      <4>2. CASE ~(k <= first)
        <5>1. k \in first + 1 .. n
          BY <1>1, <1>6, <4>2
        <5>2. k \notin stops
          BY <2>3, <3>2, <3>3, <1>6
        <5> QED
          BY <2>4, <5>1, <5>2
      <4> QED
        BY <4>1, <4>2
    <3>5. \A k \in 1 .. n : ~(k < stop) => Before(i, list[k])
      <4> SUFFICES ASSUME NEW k \in 1 .. n, ~(k < stop) PROVE Before(i, list[k])
        OBVIOUS
      <4>1. stop \in 1 .. n
        BY <1>1, <1>6, <3>3
      <4>2. k = stop \/ stop < k
        BY <1>1, <4>1
      <4> QED
        BY <1>10, <3>3, <4>1, <4>2
    <3> QED
      BY <1>0, <1>1, <3>4, <3>5 DEF stop
  <2> QED
    BY <2>6, <2>7
<1> QED
  BY <1>11, <1>12

\* So it does not stop at the common parent, round which it would go for ever.
LEMMA SearchEnds ==
    ASSUME TreeOK, NEW list \in Seq(Nodes), RangeOf(list) \subseteq Present,
           IsSorted(list), NEW i \in Present, i \notin RangeOf(list)
    PROVE  SearchReturns(list, i)
<1> SUFFICES ASSUME list # <<>>, NEW k \in DOMAIN list, k = SearchStop(list, i),
                    list[k] = commonParent(list, i)
             PROVE  FALSE
  BY DEF SearchReturns
<1>1. list[k] \in Present /\ DOMAIN list \subseteq Int
  BY DEF RangeOf
<1>2. Before(i, list[k])
  BY <1>1, SearchFinds
<1>3. list[k] \in Above(i) \cup {Root}
  BY BranchesOrder
<1>4. Before(list[k], i)
  BY <1>1, <1>3, BeforeOrders, NodesAssumption DEF Present
<1> QED
  BY <1>1, <1>2, <1>4, BeforeOrders

\* The roots are in the source and in depth-first order, except while the source has
\* been replaced and the proxy has not yet heard of it.
OrderInv ==
    phase # "reset" => RootSet \subseteq Present /\ IsSorted(m_rootIndexList)

LEMMA OrderWhenEmpty == m_rootIndexList' = <<>> => OrderInv'
<1> SUFFICES ASSUME m_rootIndexList' = <<>> PROVE OrderInv'
  OBVIOUS
<1>1. DOMAIN m_rootIndexList' = {}
  OBVIOUS
<1> QED
  BY <1>1 DEF OrderInv, RootSet, RangeOf, IsSorted

LEMMA OrderInit == Init => OrderInv
<1> SUFFICES ASSUME Init PROVE OrderInv
  OBVIOUS
<1>1. m_rootIndexList = <<>>
  BY DEF Init
<1>2. DOMAIN m_rootIndexList = {}
  BY <1>1
<1> QED
  BY <1>2 DEF OrderInv, RootSet, RangeOf, IsSorted

LEMMA SameOrder ==
    ASSUME UNCHANGED srcVars
    PROVE  \A x, y : Before(x, y)' <=> Before(x, y)
BY SameTree DEF Before, srcVars

LEMMA OrderSame ==
    ASSUME OrderInv, phase # "reset", UNCHANGED <<srcVars, m_rootIndexList>>
    PROVE  OrderInv'
BY SameTree, SameOrder DEF OrderInv, RootSet, RangeOf, IsSorted

\* A part of a list that is in order, with what is between cut out, is in order.
LEMMA CutStaysSorted ==
    ASSUME NEW s \in Seq(Nodes), NEW lo \in Int, NEW hi \in Int,
           1 <= lo, lo <= hi, hi <= Len(s), IsSorted(s)
    PROVE  IsSorted(SubSeq(s, 1, lo - 1) \o SubSeq(s, hi + 1, Len(s)))
<1> DEFINE cut == SubSeq(s, 1, lo - 1) \o SubSeq(s, hi + 1, Len(s))
           count == hi - lo + 1
           from(k) == IF k < lo THEN k ELSE k + count
           n == Len(s)
<1>1. n \in Nat /\ DOMAIN s = 1 .. n /\ lo \in 1 .. n /\ hi \in 1 .. n
  OBVIOUS
<1>2. /\ cut \in Seq(Nodes) /\ Len(cut) = n - count
      /\ \A k \in 1 .. n - count : cut[k] = IF k < lo THEN s[k] ELSE s[k + count]
  BY CutOut
<1> HIDE DEF cut, n
<1>3. DOMAIN cut = 1 .. n - count
  BY <1>2
<1>4. \A k \in DOMAIN cut : from(k) \in DOMAIN s /\ cut[k] = s[from(k)]
  <2> SUFFICES ASSUME NEW k \in 1 .. n - count
               PROVE  from(k) \in 1 .. n /\ cut[k] = s[from(k)]
    BY <1>1, <1>3
  <2>1. cut[k] = s[from(k)]
    BY <1>2
  <2>2. from(k) \in 1 .. n
    BY <1>1
  <2> QED
    BY <2>1, <2>2
<1>5. \A j, k \in DOMAIN cut : j < k => from(j) < from(k)
  BY <1>1, <1>3
<1> HIDE DEF from, count
<1> SUFFICES ASSUME NEW j \in DOMAIN cut, NEW k \in DOMAIN cut, j < k
             PROVE  Before(cut[j], cut[k])
  BY DEF IsSorted, cut
<1>6. from(j) \in DOMAIN s /\ from(k) \in DOMAIN s /\ from(j) < from(k)
  BY <1>4, <1>5
<1>7. cut[j] = s[from(j)] /\ cut[k] = s[from(k)]
  BY <1>4
<1> QED
  BY <1>6, <1>7 DEF IsSorted

\* A list in order, with n where all before it is before n and all after it is after n.
LEMMA InsertionStaysSorted ==
    ASSUME NEW s \in Seq(Nodes), NEW n \in Nodes, NEW at \in 1 .. Len(s) + 1, IsSorted(s),
           \A k \in DOMAIN s : IF k < at THEN Before(s[k], n) ELSE Before(n, s[k])
    PROVE  IsSorted(Seqs!InsertAt(s, at, n))
<1> DEFINE new == Seqs!InsertAt(s, at, n)
           len == Len(s)
<1>1. len \in Nat /\ at \in 1 .. len + 1 /\ DOMAIN s = 1 .. len
  OBVIOUS
<1>2. /\ new \in Seq(Nodes) /\ Len(new) = len + 1
      /\ \A k \in 1 .. len + 1 :
            new[k] = IF k < at THEN s[k] ELSE IF k = at THEN n ELSE s[k - 1]
  BY ONLY Inserted
<1> HIDE DEF new, len
<1>3. DOMAIN new = 1 .. len + 1
  BY <1>2
<1> SUFFICES ASSUME NEW j \in 1 .. len + 1, NEW k \in 1 .. len + 1, j < k
             PROVE  Before(new[j], new[k])
  BY <1>3 DEF IsSorted, new
<1>4. /\ \A i \in 1 .. len : IF i < at THEN Before(s[i], n) ELSE Before(n, s[i])
      /\ \A i, l \in 1 .. len : i < l => Before(s[i], s[l])
  BY <1>1 DEF IsSorted
<1>5. CASE k < at
  <2>1. new[j] = s[j] /\ new[k] = s[k] /\ j \in 1 .. len /\ k \in 1 .. len
    BY <1>1, <1>2, <1>5
  <2> QED
    BY <1>4, <2>1
<1>6. CASE k = at
  <2>1. new[j] = s[j] /\ new[k] = n /\ j \in 1 .. len /\ j < at
    BY <1>1, <1>2, <1>6
  <2> QED
    BY <1>4, <2>1
<1>7. CASE k > at
  <2>1. new[k] = s[k - 1] /\ k - 1 \in 1 .. len /\ ~(k - 1 < at)
    BY <1>1, <1>2, <1>7
  <2>2. CASE j < at
    <3>1. new[j] = s[j] /\ j \in 1 .. len /\ j < k - 1
      BY <1>1, <1>2, <1>7, <2>2
    <3> QED
      BY <1>4, <2>1, <3>1
  <2>3. CASE j = at
    <3>1. new[j] = n
      BY <1>2, <2>3
    <3> QED
      BY <1>4, <2>1, <3>1
  <2>4. CASE j > at
    <3>1. new[j] = s[j - 1] /\ j - 1 \in 1 .. len /\ j - 1 < k - 1
      BY <1>1, <1>2, <2>4
    <3> QED
      BY <1>4, <2>1, <3>1
  <2> QED
    BY <1>1, <2>2, <2>3, <2>4
<1> QED
  BY <1>1, <1>5, <1>6, <1>7

LEMMA BeforeNextIsPrecedes ==
    ASSUME NEW x \in Present', NEW y \in Present'
    PROVE  Before(x, y)' <=> Precedes(srcParent', srcRow', x, y)
<1>1. parent(y)' = srcParent'[y]
  BY DEF parent, Present
<1>2. SelfAndAbove' = Ancestors(srcParent')
  BY DEF SelfAndAbove, Ancestors, Climb, Indexes
<1> QED
  BY <1>1, <1>2 DEF Before, Precedes, Above

\* Rows that come or go leave the order of the others as it is.
LEMMA InsertRowsKeepsOrder ==
    ASSUME TreeOK, TreeOK', NEW f \in Forests, DOMAIN f \subseteq Nodes \ Present,
           NEW p \in Present \cup {Root}, NEW start \in Nat, InsertRows(f, p, start)
    PROVE  \A x, y \in Present : Before(x, y)' <=> Before(x, y)
<1> DEFINE count == Cardinality(Tops(f))
<1>1. Present \subseteq Present' /\ Present = In(srcParent) /\ Present' = In(srcParent')
  BY InsertRowsKeepsTree, PresentIs DEF TreeOK
<1>2. count \in Nat
  BY CountType, ForestFacts
<1>3. \A n \in Present :
         /\ srcParent'[n] = srcParent[n] /\ srcParent[n] \in Present \cup {Root}
         /\ srcRow'[n] = IF srcParent[n] = p /\ srcRow[n] >= start THEN srcRow[n] + count
                         ELSE srcRow[n]
  <2>1. \A n \in Present : n \in Nodes /\ n \notin DOMAIN f /\ n \notin Tops(f)
    BY ForestFacts DEF Present
  <2> QED
    BY <2>1 DEF InsertRows, TreeOK, IsTree, Present, In
<1>4. \A n \in Present : srcRow[n] \in Nat
  BY DEF TreeOK, SourceTypeOK, Present
<1> HIDE DEF count
<1>5. \A m, n \in Present : srcParent[m] = srcParent[n] =>
                               (srcRow[m] < srcRow[n] <=> srcRow'[m] < srcRow'[n])
  BY <1>2, <1>3, <1>4
<1>6. \A x, y \in Present : Precedes(srcParent', srcRow', x, y) <=> Precedes(srcParent, srcRow, x, y)
  BY <1>1, <1>3, <1>5, OrderKept DEF TreeOK, IsTree
<1>7. \A x, y \in Present : Before(x, y) <=> Precedes(srcParent, srcRow, x, y)
  BY BeforeIsPrecedes
<1>8. \A x, y \in Present : Before(x, y)' <=> Precedes(srcParent', srcRow', x, y)
  BY <1>1, BeforeNextIsPrecedes
<1> QED
  BY <1>6, <1>7, <1>8

LEMMA RemoveRowsKeepsOrder ==
    ASSUME TreeOK, TreeOK', NEW p \in Present \cup {Root}, NEW first \in Nat, NEW last \in Nat,
           first <= last, RemoveRows(p, first, last)
    PROVE  /\ Present' = Present \ InRows(p, first, last)
           /\ \A x, y \in Present' : Before(x, y)' <=> Before(x, y)
<1> DEFINE rest == Present \ InRows(p, first, last)
<1>1. Present' = rest /\ Present = In(srcParent) /\ Present' = In(srcParent')
  BY RemoveRowsKeepsTree, PresentIs DEF TreeOK
<1>2. \A n \in rest :
         /\ srcParent'[n] = srcParent[n] /\ srcParent[n] \in rest \cup {Root}
         /\ srcRow'[n] = IF srcParent[n] = p /\ srcRow[n] > last
                         THEN srcRow[n] - (last - first + 1) ELSE srcRow[n]
         /\ srcParent[n] = p => ~(srcRow[n] \in first .. last)
         /\ srcRow[n] \in Nat
  <2>1. \A n \in rest : srcParent[n] \in rest \cup {Root}
    BY RestOfTree DEF TreeOK
  <2>2. \A n \in Present : n \in SelfAndAbove[n]
    BY AboveFacts DEF TreeOK
  <2>3. \A n \in rest : srcParent[n] = p => ~(srcRow[n] \in first .. last)
    BY <2>2 DEF InRows
  <2> QED
    BY <2>1, <2>3 DEF RemoveRows, Present, TreeOK, SourceTypeOK
<1>3. \A m, n \in rest : srcParent[m] = srcParent[n] =>
                            (srcRow[m] < srcRow[n] <=> srcRow'[m] < srcRow'[n])
  <2> SUFFICES ASSUME NEW m \in rest, NEW n \in rest, srcParent[m] = srcParent[n]
               PROVE  srcRow[m] < srcRow[n] <=> srcRow'[m] < srcRow'[n]
    OBVIOUS
  <2> DEFINE a == srcRow[m]
             b == srcRow[n]
             new(r) == IF r > last THEN r - (last - first + 1) ELSE r
  <2>1. a \in Nat /\ b \in Nat
    BY <1>2
  <2>2. CASE srcParent[m] # p
    BY <1>2, <2>2
  <2>3. CASE srcParent[m] = p
    <3>1. srcRow'[m] = new(a) /\ srcRow'[n] = new(b)
          /\ ~(a \in first .. last) /\ ~(b \in first .. last)
      BY <1>2, <2>3
    <3> HIDE DEF a, b
    <3>2. a < b <=> new(a) < new(b)
      <4>1. (a < first \/ a > last) /\ (b < first \/ b > last)
        BY <2>1, <3>1
      <4> QED
        BY <2>1, <4>1
    <3> QED
      BY <3>1, <3>2 DEF a, b
  <2> QED
    BY <2>2, <2>3
<1>4. rest \in SUBSET In(srcParent)
  BY <1>1
<1>5. \A x, y \in rest : Precedes(srcParent', srcRow', x, y) <=> Precedes(srcParent, srcRow, x, y)
  <2>1. \A n \in rest : srcParent[n] \in rest \cup {Root} /\ srcParent'[n] = srcParent[n]
    BY <1>2
  <2>2. IsTree(srcParent) /\ srcParent' \in [Nodes -> Indexes]
    BY DEF TreeOK, IsTree
  <2> HIDE DEF rest
  <2> QED
    BY <1>3, <1>4, <2>1, <2>2, OrderKept
<1>6. \A x, y \in rest : Before(x, y) <=> Precedes(srcParent, srcRow, x, y)
  BY BeforeIsPrecedes
<1>7. \A x, y \in rest : Before(x, y)' <=> Precedes(srcParent', srcRow', x, y)
  BY <1>1, BeforeNextIsPrecedes
<1> QED
  BY <1>1, <1>5, <1>6, <1>7

\* Every step leaves the roots in depth-first order.
LEMMA OrderStep ==
    ASSUME CalmSelections, Flow, Flow', Scope, Scope', RootsInv, OrderInv, [Next]_vars
    PROVE  OrderInv'
<1> USE DEF Enters, Finishes, ChangePhases, Where, Phases
<1>a. TreeOK /\ TreeOK' /\ selection \subseteq Present /\ RootTypes
  BY DEF Scope, RootsInv
<1>b. /\ phase # "idle" => hasSource
      /\ m_sourceModelResetting <=> phase \in {"resetting", "reset"}
  BY DEF Flow
<1>c. ASSUME UNCHANGED <<srcVars, m_rootIndexList>>, phase # "reset"
      PROVE  OrderInv'
  BY <1>c, OrderSame
<1>d. ASSUME m_rootIndexList' = <<>>
      PROVE  OrderInv'
  BY <1>d, OrderWhenEmpty
<1>e. ASSUME phase' = "reset"
      PROVE  OrderInv'
  BY <1>e DEF OrderInv
<1>1. CASE SetSourceModel
  BY <1>1, <1>d DEF SetSourceModel, StartsOver, SetTables, EmptyTables
<1>2. ASSUME NEW S \in SUBSET Present, NEW next, Selects(S, next), next = phase
      PROVE  OrderInv'
  <2>1. UNCHANGED <<srcVars, m_rootIndexList>>
    BY <1>2 DEF Selects, tableVars
  <2>2. CASE phase # "reset"
    BY <1>c, <2>1, <2>2
  <2>3. CASE phase = "reset"
    BY <1>2, <1>b, <1>e, <2>3 DEF Selects, selectionChanged, Processes
  <2> QED
    BY <2>2, <2>3
<1>3. ASSUME NEW S \in SUBSET Present, Select(S)
      PROVE  OrderInv'
  BY <1>2, <1>3 DEF Select, Starts
<1>4. ASSUME NEW S \in SUBSET Present, SetSelectionModel(S)
      PROVE  OrderInv'
  BY <1>4, <1>d DEF SetSelectionModel
<1>5. ASSUME NEW x \in Nodes \cup {Root}, NEW y \in 0 .. rowCount(x),
             NEW z \in y .. y + MaxForest - 1, AboutToInsert(x, y, z)
      PROVE  OrderInv'
  BY <1>5, <1>c DEF AboutToInsert, MayInsert, Starts, tableVars
<1>6. ASSUME NEW x \in Nodes \cup {Root}, NEW z \in 0 .. rowCount(x) - 1,
             NEW y \in 0 .. z, AboutToRemove(x, y, z)
      PROVE  OrderInv'
  BY <1>6, <1>c DEF AboutToRemove, Starts, tableVars
<1>7. ASSUME NEW x \in Nodes \cup {Root}, NEW z \in 0 .. rowCount(x) - 1,
             NEW y \in 0 .. z, NEW w \in Nodes \cup {Root}, NEW d \in 0 .. rowCount(w),
             AboutToMove(x, y, z, w, d)
      PROVE  OrderInv'
  BY <1>7, <1>d DEF AboutToMove, LayoutAboutToBeChanged
<1>8. ASSUME NEW x \in Nodes \cup {Root}, AboutToRelayout(x)
      PROVE  OrderInv'
  BY <1>8, <1>d DEF AboutToRelayout, LayoutAboutToBeChanged
<1>9. CASE AboutToReset
  BY <1>9, <1>c DEF AboutToReset, Starts, tableVars
<1>10. ASSUME NEW behavior \in Behaviors, SetFilterBehavior(behavior)
       PROVE  OrderInv'
  BY <1>10, <1>d DEF SetFilterBehavior, StartsOver, SetTables, EmptyTables
<1>11. CASE AnnounceRootsLeaving
  BY <1>11, <1>c DEF AnnounceRootsLeaving, tableVars
<1>12. CASE RemoveRoots
  <2>1. phase \in {"changing", "rootsLeaving"} /\ UNCHANGED srcVars
    BY <1>12 DEF RemoveRoots
  <2>2. RemovalBlock # {}
    BY <1>12, <2>1 DEF RemoveRoots, RootsInv
  <2>3. PICK lo, hi \in DOMAIN m_rootIndexList :
           /\ lo <= hi
           /\ m_rootIndexList' = SubSeq(m_rootIndexList, 1, lo - 1)
                                 \o SubSeq(m_rootIndexList, hi + 1, Len(m_rootIndexList))
    BY <1>12, <1>a, <2>2, RemoveRootsRoots
  <2>4. RangeOf(m_rootIndexList') = RootSet \ NodesAt(RemovalBlock)
    BY <1>12, <1>a, <2>2, RemoveRootsRoots
  <2>5. RootSet \subseteq Present /\ IsSorted(m_rootIndexList)
    BY <2>1 DEF OrderInv
  <2> DEFINE new == m_rootIndexList'
  <2>6. IsSorted(new)
    BY <1>a, <2>3, <2>5, CutStaysSorted DEF RootTypes
  <2> QED
    BY <2>1, <2>4, <2>5, <2>6, SameTree, SameOrder DEF OrderInv, RootSet, RangeOf, IsSorted
<1>13. CASE AnnounceRoot
  BY <1>13, <1>c DEF AnnounceRoot, Inserting, RootsRemoved, tableVars
<1>14. CASE InsertRoot
  <2>1. m_rootIndexList' = m_rootIndexList
    BY <1>14, InsertRootRoots DEF InsertRoot, RootsInv
  <2> QED
    BY <1>14, <2>1, <1>c DEF InsertRoot
<1>32. CASE ListRoot
  <2>1. phase \in {"changing", "adding", "rootComing"} /\ UNCHANGED srcVars
    BY <1>32 DEF ListRoot, Inserting, RootsRemoved
  <2>2. /\ change.add # <<>>
        /\ Target(selection) = RootSet \cup Added /\ RootSet \cap Added = {}
    BY <1>32, RootsRemain DEF ListRoot, Inserting, RootsInv
  <2>3. /\ RangeOf(m_rootIndexList') = RootSet \cup {NewRoot}
        /\ NewRoot \in Added
        /\ NewRootRow + 1 \in 1 .. Len(m_rootIndexList) + 1
        /\ m_rootIndexList' = Seqs!InsertAt(m_rootIndexList, NewRootRow + 1, NewRoot)
    BY <1>32, <1>a, <2>2, ListRootRoots
  <2>4. RootSet \subseteq Present /\ IsSorted(m_rootIndexList)
    BY <2>1 DEF OrderInv
  <2>5. NewRoot \in Present /\ NewRoot \notin RootSet /\ NewRoot \in Nodes
    <3>1. Target(selection) \subseteq Present
      BY <1>a DEF Target, getRootRanges
    <3> QED
      BY <2>2, <2>3, <3>1 DEF Present
  <2>6. m_rootIndexList \in Seq(Nodes)
    BY <1>a DEF RootTypes
  <2>7. \A k \in DOMAIN m_rootIndexList :
           IF k < NewRootRow + 1 THEN Before(m_rootIndexList[k], NewRoot)
           ELSE Before(NewRoot, m_rootIndexList[k])
    <3>1. CASE m_rootIndexList = <<>>
      BY <3>1
    <3>2. CASE m_rootIndexList # <<>>
      <4>1. /\ SearchStop(m_rootIndexList, NewRoot) \in 1 .. Len(m_rootIndexList) + 1
            /\ \A k \in DOMAIN m_rootIndexList :
                  IF k < SearchStop(m_rootIndexList, NewRoot)
                  THEN Before(m_rootIndexList[k], NewRoot) ELSE Before(NewRoot, m_rootIndexList[k])
        BY <1>a, <2>4, <2>5, <2>6, <3>2, SearchFinds DEF RootSet
      <4>2. NewRootRow = SearchStop(m_rootIndexList, NewRoot) - 1
        BY <3>2 DEF NewRootRow, getRootListRow
      <4>3. NewRootRow + 1 = SearchStop(m_rootIndexList, NewRoot)
        BY <2>6, <4>1, <4>2
      <4> QED
        BY <4>1, <4>3
    <3> QED
      BY <3>1, <3>2
  <2> DEFINE new == m_rootIndexList'
             at == NewRootRow + 1
  <2>8. IsSorted(new)
    <3>1. at \in 1 .. Len(m_rootIndexList) + 1 /\ new = Seqs!InsertAt(m_rootIndexList, at, NewRoot)
      BY <2>3
    <3>2. \A k \in DOMAIN m_rootIndexList :
             IF k < at THEN Before(m_rootIndexList[k], NewRoot)
             ELSE Before(NewRoot, m_rootIndexList[k])
      BY <2>7
    <3> HIDE DEF at, new
    <3> QED
      BY <2>4, <2>5, <2>6, <3>1, <3>2, InsertionStaysSorted
  <2>9. RangeOf(new) \subseteq Present
    BY <2>3, <2>4, <2>5
  <2> QED
    BY <2>1, <2>8, <2>9, SameTree, SameOrder DEF OrderInv, RootSet, RangeOf, IsSorted
<1>15. CASE FinishChange
  BY <1>15, <1>c DEF FinishChange, RootsRemoved, tableVars
\* The arguments of the call.
<1> DEFINE p == op.parent
           first == op.first
           last == op.last
           q == op.target
           dest == op.dest
<1>g. /\ op = [parent |-> p, first |-> first, last |-> last, target |-> q, dest |-> dest]
      /\ first \in Nat /\ last \in Nat
  BY DEF Flow
<1>16. ASSUME NEW f \in Forests, SourceInserts(f)
       PROVE  OrderInv'
  <2>1. /\ phase = "inserting" /\ DOMAIN f \subseteq Nodes \ Present /\ InsertRows(f, p, first)
        /\ UNCHANGED m_rootIndexList
    BY <1>16 DEF SourceInserts, Fresh, tableVars
  <2>2. p \in Present \cup {Root}
    BY <1>g, <2>1 DEF Scope
  <2>3. RootSet \subseteq Present /\ IsSorted(m_rootIndexList)
    BY <2>1 DEF OrderInv
  <2>g. first \in Nat
    BY <1>g
  <2> HIDE DEF p, first, last, q, dest
  <2>4. \A x, y \in Present : Before(x, y)' <=> Before(x, y)
    BY <1>a, <2>1, <2>2, <2>g, InsertRowsKeepsOrder
  <2>5. Present \subseteq Present'
    BY <1>a, <2>1, <2>2, <2>g, InsertRowsKeepsTree, PresentIs DEF TreeOK
  <2> QED
    BY <2>1, <2>3, <2>4, <2>5 DEF OrderInv, RootSet, RangeOf, IsSorted
<1>17. CASE HandleRowsInserted
  BY <1>17, <1>c, InsertionKeepsRoots DEF HandleRowsInserted
<1>18. CASE DrainPending
  BY <1>18, <1>c DEF DrainPending, tableVars
<1>19. CASE FinishInsert
  BY <1>19, <1>c DEF FinishInsert, tableVars
<1>20. CASE HandleRowsAboutToBeRemoved
  BY <1>20, <1>c DEF HandleRowsAboutToBeRemoved, tableVars
<1>21. CASE SourceRemoves
  <2>1. /\ phase = "removing" /\ hasSource /\ RemoveRows(p, first, last)
        /\ UNCHANGED m_rootIndexList
    BY <1>21, <1>b DEF SourceRemoves, tableVars
  <2>2. /\ p \in Present \cup {Root} /\ first <= last
        /\ selection \cap InRows(p, first, last) = {}
    BY <1>g, <2>1 DEF Scope
  <2>3. RootSet \subseteq Present /\ IsSorted(m_rootIndexList)
    BY <2>1 DEF OrderInv
  <2>g. first \in Nat /\ last \in Nat
    BY <1>g
  <2> HIDE DEF p, first, last, q, dest
  <2>4. /\ Present' = Present \ InRows(p, first, last)
        /\ \A x, y \in Present' : Before(x, y)' <=> Before(x, y)
    BY <1>a, <2>1, <2>2, <2>g, RemoveRowsKeepsOrder
  <2>5. RootSet \subseteq selection
    <3>1. m_pendingSelectionChanges = <<>>
      BY <2>1 DEF Flow
    <3>2. RootSet = Target(selection)
      BY <2>1, <3>1 DEF RootsInv, Settled, Earlier
    <3> QED
      BY <3>2 DEF Target, getRootRanges
  <2> QED
    BY <2>1, <2>2, <2>3, <2>4, <2>5 DEF OrderInv, RootSet, RangeOf, IsSorted
<1>22. CASE HandleRowsRemoved
  BY <1>22, <1>c, RemovalKeepsRoots DEF HandleRowsRemoved
<1>23. CASE SourceRelayouts
  BY <1>23, <1>d DEF SourceRelayouts, tableVars, RootsInv
<1>24. CASE HandleLayoutChanged
  <2>1. phase = "relayouted" /\ m_rootIndexList = <<>>
    BY <1>24 DEF HandleLayoutChanged, RootsInv
  <2>2. m_rootIndexList' = <<>>
    BY <1>24, <2>1 DEF HandleLayoutChanged, SetTables, EmptyTables, tableVars
  <2> QED
    BY <2>2, <1>d
<1>25. CASE FinishLayout
  BY <1>25, <1>c, ReadingKeepsRoots DEF FinishLayout
<1>26. ASSUME NEW f \in Forests, SourceResets(f)
       PROVE  OrderInv'
  BY <1>26, <1>e DEF SourceResets
<1>27. CASE HandleModelReset
  <2>1. CASE m_doubleResetting
    BY <1>27, <2>1, <1>e DEF HandleModelReset
  <2>2. CASE ~m_doubleResetting
    BY <1>27, <2>2, <1>d DEF HandleModelReset, SetTables, EmptyTables
  <2> QED
    BY <2>1, <2>2
<1>28. CASE Rebuild
  BY <1>28, <1>c DEF Rebuild, tableVars
<1>29. CASE FinishReset
  BY <1>29, <1>c, ReadingKeepsRoots DEF FinishReset
<1>30. ASSUME NEW S \in SUBSET Present, SelectInserting(S) \/ SelectRemoving(S) \/ SelectResetting(S)
       PROVE  OrderInv'
  <2>1. CASE SelectInserting(S)
    BY <1>2, <2>1 DEF SelectInserting
  <2>2. CASE SelectRemoving(S)
    BY <1>2, <2>2 DEF SelectRemoving, CalmSelections
  <2>3. CASE SelectResetting(S)
    BY <1>2, <2>3 DEF SelectResetting
  <2> QED
    BY <1>30, <2>1, <2>2, <2>3
<1>31. CASE UNCHANGED vars
  <2>1. UNCHANGED <<srcVars, m_rootIndexList, phase>>
    BY <1>31 DEF vars, changeVars, tableVars
  <2> QED
    BY <2>1, <1>c, <1>e
<1>33. CASE ClearRelayouting
  BY <1>33, <1>c DEF ClearRelayouting, tableVars
<1> QED
  BY <1>1, <1>3, <1>4, <1>5, <1>6, <1>7, <1>8, <1>9, <1>10, <1>11, <1>12, <1>13, <1>14, <1>15,
     <1>16, <1>17, <1>18, <1>19, <1>20, <1>21, <1>22, <1>23, <1>24, <1>25, <1>26, <1>27, <1>28,
     <1>29, <1>30, <1>31, <1>32, <1>33 DEF Next, Begins, Continues, Interrupts

LEMMA OrderAre ==
    ASSUME Flow, Scope, RootsInv, OrderInv
    PROVE  RootsInOrder
<1>1. ASSUME phase # "reset"
      PROVE  \A j, k \in DOMAIN m_rootIndexList :
                j < k => Before(m_rootIndexList[j], m_rootIndexList[k])
  BY <1>1 DEF OrderInv, IsSorted
<1>2. ASSUME Inserting
      PROVE  SearchReturns(m_rootIndexList, NewRoot)
  <2>1. phase # "reset" /\ RootsRemoved /\ change.add # <<>>
    BY <1>2 DEF Inserting, RootsRemoved
  <2>2. Target(selection) = RootSet \cup Added /\ RootSet \cap Added = {}
    BY <2>1, RootsRemain
  <2>3. m_rootIndexList \in Seq(Nodes) /\ change.add \in Seq(Nodes)
    BY DEF RootsInv, RootTypes
  <2>4. NewRoot \in Added
    <3>1. Len(change.add) \in Nat \ {0} /\ DOMAIN change.add = 1 .. Len(change.add)
      BY <2>1, <2>3, EmptySeq
    <3>2. NewRoot = change.add[1]
      BY <2>1, <2>3 DEF NewRoot
    <3> QED
      BY <3>1, <3>2 DEF Added, RangeOf
  <2>5. NewRoot \in Present /\ NewRoot \notin RootSet
    <3>1. Target(selection) \subseteq Present
      BY DEF Target, getRootRanges, Scope
    <3> QED
      BY <2>2, <2>4, <3>1
  <2>6. RangeOf(m_rootIndexList) \subseteq Present /\ IsSorted(m_rootIndexList)
    BY <2>1 DEF OrderInv, RootSet
  <2> QED
    BY <2>3, <2>5, <2>6, SearchEnds DEF Scope, RootSet
<1> QED
  BY <1>1, <1>2 DEF RootsInOrder

----------------------------------------------------------------------------
(* What holds in every state.                                              *)

Invariant ==
    /\ Flow /\ Scope /\ RootsInv
    /\ SignalInv /\ HeardInv /\ OrderInv

\* Init establishes the invariant, and every step keeps it.
LEMMA InvariantHolds == CalmSelections => (Spec => []Invariant)
<1> SUFFICES ASSUME CalmSelections PROVE Spec => []Invariant
  OBVIOUS
<1>1. Init => Invariant
  BY FlowInit, ScopeInit, RootsInit, SignalInit, HeardInit, OrderInit DEF Invariant
<1>2. Invariant /\ [Next]_vars => Invariant'
  <2> SUFFICES ASSUME Invariant, [Next]_vars PROVE Invariant'
    OBVIOUS
  <2>1. Flow /\ Scope /\ RootsInv /\ SignalInv /\ HeardInv /\ OrderInv
    BY DEF Invariant
  <2>2. Flow'
    BY <2>1, FlowStep
  <2>3. Scope'
    BY <2>1, <2>2, ScopeStep
  <2>4. RootsInv'
    BY <2>1, <2>2, <2>3, RootsStep
  <2>5. SignalInv'
    BY <2>1, <2>2, SignalStep
  <2>6. HeardInv'
    BY <2>1, <2>2, HeardStep
  <2>7. OrderInv'
    BY <2>1, <2>2, <2>3, OrderStep
  <2> QED
    BY <2>2, <2>3, <2>4, <2>5, <2>6, <2>7 DEF Invariant
<1> QED
  BY <1>1, <1>2, PTL DEF Spec

\* The roots stay in depth-first order through every step of every call, and the search
\* for the place of a new one always comes to its end: _getRootListRow() never goes
\* round for ever, whatever the source model and the selection are.
THEOREM RootsInOrderAlways == CalmSelections => (Spec => []RootsInOrder)
<1>1. Invariant => RootsInOrder
  BY OrderAre DEF Invariant
<1> QED
  BY <1>1, InvariantHolds, PTL

\* Who has followed rootIndexAdded() and rootIndexAboutToBeRemoved() has the roots of
\* sourceRootIndexes() whenever no call is under way, and no change of the selection
\* is left waiting then.
THEOREM RootsHeardAlways == CalmSelections => (Spec => []RootsHeard)
<1>1. Invariant => RootsHeard
  BY HeardAre DEF Invariant
<1> QED
  BY <1>1, InvariantHolds, PTL

\* The begin... and end... calls pair up: the two handlers that announce a change of
\* the source and close it agree, though each decides on its own, and selectionChanged()
\* opens nothing inside them but within a reset.
THEOREM SignalsNestAlways == CalmSelections => (Spec => []SignalsNest)
<1>1. Invariant => SignalsNest
  BY SignalsAre DEF Invariant
<1> QED
  BY <1>1, InvariantHolds, PTL

\* Whenever no call is under way, the roots are the indexes that the filter behaviour
\* calls for: all that is selected, or what of it has nothing selected above it.
THEOREM RootsFollowSelection ==
    CalmSelections =>
        (Spec => [](phase = "idle" /\ hasSource => RootSet = Target(selection)))
<1>1. Invariant => (phase = "idle" /\ hasSource => RootSet = Target(selection))
  <2> SUFFICES ASSUME Invariant, phase = "idle", hasSource PROVE RootSet = Target(selection)
    OBVIOUS
  <2>1. m_pendingSelectionChanges = <<>>
    BY DEF Invariant, Flow
  <2> QED
    BY <2>1 DEF Invariant, RootsInv, Settled, Earlier
<1> QED
  BY <1>1, InvariantHolds, PTL

----------------------------------------------------------------------------
(* The rows of a proxy that has its roots on the top level.                *)

\* What n is below, or one of: the rows of the proxy when the roots are S and what is
\* below them is shown, too.
Below(S) == {n \in Present : LiesWithin(S, n)}

Place(s, n) == CHOOSE k \in DOMAIN s : s[k] = n

\* The roots of a list have no root above them.
RootList(s) ==
    /\ s \in Seq(Nodes) /\ Injective(s) /\ RangeOf(s) \subseteq Present
    /\ \A m, n \in RangeOf(s) : m \notin Above(n)

\* The proxy index of n.
EntryAt(s, row, n) == IF n \in RangeOf(s) THEN <<Place(s, n) - 1, Root>> ELSE <<row[n], parent(n)>>

IsMap(e) == e = [n \in DOMAIN e |-> e[n]]

\* The entries e of m_mappedParents are for rows that are shown, and for all that is above them.
Fits(e, s, row) ==
    /\ DOMAIN e \subseteq Below(RangeOf(s))
    /\ \A n \in DOMAIN e : e[n] = EntryAt(s, row, n)
    /\ \A n \in DOMAIN e \ RangeOf(s) : parent(n) \in DOMAIN e
    /\ IsMap(e)

\* Each root, each row that is shown, has an entry when it has rows of its own.
RootsMapped(e, s) == \A n \in RangeOf(s) : hasChildren(n) => n \in DOMAIN e
AllMapped(e, s) == \A n \in Below(RangeOf(s)) : hasChildren(n) => n \in DOMAIN e

\* Rows as counted before or after a change of the source.
RowsApart(row, X) ==
    /\ \A n \in X : row[n] \in Nat
    /\ \A m, n \in X : parent(m) = parent(n) /\ row[m] = row[n] => m = n

LEMMA PlaceIs ==
    ASSUME NEW s \in Seq(Nodes), Injective(s)
    PROVE  /\ \A k \in DOMAIN s : Place(s, s[k]) = k
           /\ \A n \in RangeOf(s) : Place(s, n) \in 1 .. Len(s) /\ s[Place(s, n)] = n
<1>1. \A n \in RangeOf(s) : Place(s, n) \in DOMAIN s /\ s[Place(s, n)] = n
  BY DEF Place, RangeOf
<1>2. \A k \in DOMAIN s : s[k] \in RangeOf(s)
  BY DEF RangeOf
<1> QED
  BY <1>1, <1>2 DEF Injective

LEMMA BelowIs ==
    ASSUME TreeOK, NEW s, RootList(s)
    PROVE  /\ RangeOf(s) \subseteq Below(RangeOf(s)) /\ Below(RangeOf(s)) \subseteq Present
           /\ \A n \in Below(RangeOf(s)) \ RangeOf(s) : parent(n) \in Below(RangeOf(s))
           /\ \A n \in Present : parent(n) \in Below(RangeOf(s)) => n \in Below(RangeOf(s))
           /\ \A n \in RangeOf(s) : parent(n) \notin Below(RangeOf(s))
           /\ \A n \in Present : parent(n) = srcParent[n] /\ parent(n) \in Present \cup {Root}
           /\ Root \notin Below(RangeOf(s))
<1> DEFINE S == RangeOf(s)
<1>t. IsTree(srcParent) /\ Root \notin Nodes
  BY NodesAssumption DEF TreeOK
<1>0. \A n \in Present : /\ SelfAndAbove[n] = {n} \cup Above(n)
                         /\ Above(n) \subseteq Present
                         /\ Above(n) = SelfAndAbove[parent(n)]
                         /\ parent(n) = srcParent[n] /\ parent(n) \in Present \cup {Root}
  <2> SUFFICES ASSUME NEW n \in Present
               PROVE  /\ SelfAndAbove[n] = {n} \cup Above(n)
                      /\ Above(n) \subseteq Present
                      /\ Above(n) = SelfAndAbove[parent(n)]
                      /\ parent(n) = srcParent[n] /\ parent(n) \in Present \cup {Root}
    OBVIOUS
  <2>1. parent(n) = srcParent[n] /\ n \in Nodes /\ srcParent[n] \in In(srcParent) \cup {Root}
    BY <1>t, PresentIs DEF parent, Present, IsTree
  <2> QED
    BY <1>t, <2>1, AboveFacts, PresentIs DEF Above
<1>r. SelfAndAbove[Root] = {}
  BY <1>t, SelfAndAboveIsAncestors, AncestorsOfOne
<1>1. S \subseteq Below(S) /\ Below(S) \subseteq Present
  BY <1>0 DEF Below, LiesWithin, RootList
<1>2. \A n \in Below(S) \ S : parent(n) \in Below(S)
  <2> TAKE n \in Below(S) \ S
  <2>1. n \in Present /\ SelfAndAbove[n] \cap S # {}
    BY DEF Below, LiesWithin
  <2>2. SelfAndAbove[parent(n)] \cap S # {}
    BY <1>0, <2>1
  <2> QED
    BY <1>0, <1>r, <2>1, <2>2 DEF Below, LiesWithin
<1>3. \A n \in Present : parent(n) \in Below(S) => n \in Below(S)
  BY <1>0 DEF Below, LiesWithin
<1>4. \A n \in S : parent(n) \notin Below(S)
  <2> SUFFICES ASSUME NEW n \in S, parent(n) \in Below(S) PROVE FALSE
    OBVIOUS
  <2>1. n \in Present /\ Above(n) \cap S # {}
    BY <1>0 DEF Below, LiesWithin, RootList
  <2> QED
    BY <2>1 DEF RootList
<1> QED
  BY <1>t, <1>0, <1>1, <1>2, <1>3, <1>4 DEF Present

\* No two rows have the same index.
LEMMA EntriesApart ==
    ASSUME TreeOK, NEW s, RootList(s), NEW row, NEW X, X \subseteq Below(RangeOf(s)), RowsApart(row, X)
    PROVE  /\ \A n \in X : /\ EntryAt(s, row, n)[2] = Root <=> n \in RangeOf(s)
                           /\ n \in RangeOf(s) => EntryAt(s, row, n) = <<Place(s, n) - 1, Root>>
                           /\ n \notin RangeOf(s) => EntryAt(s, row, n) = <<row[n], parent(n)>>
                           /\ EntryAt(s, row, n) \in Nat \X (Nodes \cup {Root})
                           /\ EntryAt(s, row, n) # NoIndex
           /\ \A m, n \in X : EntryAt(s, row, m) = EntryAt(s, row, n) => m = n
<1>0. s \in Seq(Nodes) /\ Injective(s) /\ RangeOf(s) \subseteq Nodes /\ Root \notin Nodes /\ Len(s) \in Nat
  BY NodesAssumption DEF RootList, Present
<1>1. ASSUME NEW n \in X
      PROVE  /\ EntryAt(s, row, n)[2] = Root <=> n \in RangeOf(s)
             /\ EntryAt(s, row, n) \in Nat \X (Nodes \cup {Root})
             /\ EntryAt(s, row, n) # NoIndex
  <2>1. row[n] \in Nat /\ n \in Below(RangeOf(s))
    BY <1>1 DEF RowsApart
  <2>2. CASE n \in RangeOf(s)
    <3>1. Place(s, n) \in 1 .. Len(s)
      BY <1>0, <2>2, PlaceIs
    <3>2. Place(s, n) - 1 \in Nat /\ EntryAt(s, row, n) = <<Place(s, n) - 1, Root>>
      BY <1>0, <2>2, <3>1 DEF EntryAt
    <3> QED
      BY <2>2, <3>2 DEF NoIndex, NoRow
  <2>3. CASE n \notin RangeOf(s)
    <3>1. EntryAt(s, row, n) = <<row[n], parent(n)>>
      BY <2>3 DEF EntryAt
    <3>2. parent(n) \in Nodes /\ parent(n) # Root
      BY <1>0, <2>1, <2>3, BelowIs DEF Below, Present
    <3> QED
      BY <2>1, <2>3, <3>1, <3>2 DEF NoIndex
  <2> QED
    BY <2>2, <2>3
<1>2. ASSUME NEW m \in X, NEW n \in X, EntryAt(s, row, m) = EntryAt(s, row, n)
      PROVE  m = n
  <2>1. m \in RangeOf(s) <=> n \in RangeOf(s)
    BY <1>1, <1>2
  <2>2. CASE m \in RangeOf(s)
    <3>1. Place(s, m) \in 1 .. Len(s) /\ s[Place(s, m)] = m /\ Place(s, n) \in 1 .. Len(s) /\ s[Place(s, n)] = n
      BY <1>0, <2>1, <2>2, PlaceIs
    <3>2. Place(s, m) - 1 = Place(s, n) - 1
      BY <1>2, <2>1, <2>2 DEF EntryAt
    <3> QED
      BY <1>0, <3>1, <3>2
  <2>3. CASE m \notin RangeOf(s)
    <3>1. row[m] = row[n] /\ parent(m) = parent(n)
      BY <1>2, <2>1, <2>3 DEF EntryAt
    <3> QED
      BY <3>1 DEF RowsApart
  <2> QED
    BY <2>2, <2>3
<1> QED
  BY <1>1, <1>2 DEF EntryAt

\* The rows of the source now.
LEMMA RowsNow ==
    ASSUME TreeOK
    PROVE  RowsApart(srcRow, Present)
<1>1. /\ \A n \in In(srcParent) : srcRow[n] \in Nat
      /\ \A m, n \in In(srcParent) : srcParent[m] = srcParent[n] /\ srcRow[m] = srcRow[n] => m = n
  BY RowsType DEF TreeOK
<1>2. \A n \in Present : parent(n) = srcParent[n] /\ n \in In(srcParent)
  BY DEF parent, Present, In
<1> QED
  BY <1>1, <1>2 DEF RowsApart

\* To bind new entries that collide with none leaves the others as they are.
LEMMA BindAdds ==
    ASSUME NEW e, NEW new,
           \A k \in DOMAIN new, m \in DOMAIN e : m \notin DOMAIN new => new[k] # e[m]
    PROVE  /\ DOMAIN Bind(e, new) = DOMAIN e \cup DOMAIN new
           /\ \A n \in DOMAIN new : Bind(e, new)[n] = new[n]
           /\ \A n \in DOMAIN e \ DOMAIN new : Bind(e, new)[n] = e[n]
           /\ IsMap(Bind(e, new))
<1>1. {m \in DOMAIN e : m \notin DOMAIN new /\ \A k \in DOMAIN new : new[k] # e[m]} \cup DOMAIN new
        = DOMAIN e \cup DOMAIN new
  OBVIOUS
<1>2. Bind(e, new) = [n \in DOMAIN e \cup DOMAIN new |-> IF n \in DOMAIN new THEN new[n] ELSE e[n]]
  BY <1>1 DEF Bind
<1> DEFINE f == Bind(e, new)
<1>3. f = [n \in DOMAIN f |-> f[n]]
  BY <1>2
<1> QED
  BY <1>2, <1>3 DEF IsMap

\* Nothing to bind.
LEMMA BindNothing ==
    ASSUME NEW e, NEW new, DOMAIN new = {}, IsMap(e)
    PROVE  Bind(e, new) = e
<1>1. {m \in DOMAIN e : m \notin DOMAIN new /\ \A k \in DOMAIN new : new[k] # e[m]} \cup DOMAIN new
        = DOMAIN e
  OBVIOUS
<1>2. Bind(e, new) = [n \in DOMAIN e |-> IF n \in DOMAIN new THEN new[n] ELSE e[n]]
  BY <1>1 DEF Bind
<1>3. [n \in DOMAIN e |-> IF n \in DOMAIN new THEN new[n] ELSE e[n]] = [n \in DOMAIN e |-> e[n]]
  OBVIOUS
<1> QED
  BY <1>2, <1>3 DEF IsMap

----------------------------------------------------------------------------
(* The tables as a list of roots and the entries of m_mappedParents.       *)

\* With the roots on the top level there are no first children to map.
RootsOnTop == ~m_startWithChildTrees

\* The tables t have the roots s and the entries e.
Hold(t, s, e) == IsTables(t) /\ t.roots = s /\ t.parents = e /\ t.firsts = EmptyMapping

LEMMA HoldSet ==
    ASSUME NEW t, NEW s, NEW e, Hold(t, s, e)
    PROVE  /\ \A x : Hold([t EXCEPT !.parents = x], s, x)
           /\ \A x : Hold([t EXCEPT !.roots = x], x, e)
           /\ \A x : x = EmptyMapping => Hold([t EXCEPT !.firsts = x], s, e)
BY DEF Hold, IsTables

LEMMA EmptyShift ==
    /\ \A start, offset : MapShift(EmptyMapping, start, offset) = EmptyMapping
    /\ \A first, last : MapErase(EmptyMapping, first, last) = EmptyMapping
    /\ MappedIndexes(EmptyMapping) = {}
    /\ DOMAIN EmptyMapping = {}
<1>1. DOMAIN EmptyMapping = {}
  BY DEF EmptyMapping
<1>2. \A start, offset : MapShift(EmptyMapping, start, offset) = EmptyMapping
  <2> SUFFICES ASSUME NEW start, NEW offset PROVE MapShift(EmptyMapping, start, offset) = EmptyMapping
    OBVIOUS
  <2> DEFINE moved == {r \in DOMAIN EmptyMapping : r >= start}
             targets == {r + offset : r \in moved}
             kept == {r \in DOMAIN EmptyMapping : r < start} \ targets
  <2>1. moved = {} /\ targets = {} /\ kept = {}
    BY <1>1
  <2>2. MapShift(EmptyMapping, start, offset)
          = [r \in kept \cup targets |-> IF r \in targets THEN EmptyMapping[r - offset] ELSE EmptyMapping[r]]
    BY DEF MapShift
  <2>3. kept \cup targets = {}
    BY <2>1
  <2> HIDE DEF moved, targets, kept
  <2>4. [r \in kept \cup targets |-> IF r \in targets THEN EmptyMapping[r - offset] ELSE EmptyMapping[r]]
          = [r \in {} |-> r]
    BY <2>3
  <2> QED
    BY <2>2, <2>4 DEF EmptyMapping
<1>3. \A first, last : MapErase(EmptyMapping, first, last) = EmptyMapping
  <2> SUFFICES ASSUME NEW first, NEW last PROVE MapErase(EmptyMapping, first, last) = EmptyMapping
    OBVIOUS
  <2>1. {q \in DOMAIN EmptyMapping : q < first \/ q > last} = {}
    BY <1>1
  <2>2. MapErase(EmptyMapping, first, last) = [r \in {} |-> EmptyMapping[r]]
    BY <2>1 DEF MapErase
  <2>3. [r \in {} |-> EmptyMapping[r]] = [r \in {} |-> r]
    OBVIOUS
  <2> QED
    BY <2>2, <2>3 DEF EmptyMapping
<1>4. MappedIndexes(EmptyMapping) = {}
  BY <1>1 DEF MappedIndexes
<1> QED
  BY <1>1, <1>2, <1>3, <1>4

\* What proxyParent() makes of the index i.
UpperOf(s, e, i) == IF s # <<>> /\ i[2] \in DOMAIN e THEN e[i[2]] ELSE NoIndex

\* What updateInternalIndexes() makes of the entries.
Shifted(s, e, at, start, offset) ==
    LET moved == {n \in DOMAIN e : e[n][1] >= start /\ UpperOf(s, e, e[n]) = at}
    IN  Bind(e, [n \in moved |-> <<e[n][1] + offset, e[n][2]>>])

LEMMA ShiftedIs ==
    ASSUME NEW t, NEW s, NEW e, Hold(t, s, e), NEW start, NEW offset
    PROVE  /\ \A at : Hold(updateInternalIndexes(t, at, start, offset), s, Shifted(s, e, at, start, offset))
           /\ Hold(updateInternalTopIndexes(t, start, offset), s, Shifted(s, e, NoIndex, start, offset))
<1>1. ASSUME NEW at
      PROVE  Hold(updateInternalIndexes(t, at, start, offset), s, Shifted(s, e, at, start, offset))
  <2>1. \A i : proxyParent(t, i) = UpperOf(s, e, i)
    BY DEF proxyParent, UpperOf, Mapped, Hold
  <2>2. updateInternalIndexes(t, at, start, offset) = [t EXCEPT !.parents = Shifted(s, e, at, start, offset)]
    BY <2>1 DEF updateInternalIndexes, Shifted, Hold
  <2> QED
    BY <2>2, HoldSet
<1>2. Hold(updateInternalTopIndexes(t, start, offset), s, Shifted(s, e, NoIndex, start, offset))
  <2> DEFINE u == updateInternalIndexes(t, NoIndex, start, offset)
  <2>1. Hold(u, s, Shifted(s, e, NoIndex, start, offset))
    BY <1>1
  <2>2. updateInternalTopIndexes(t, start, offset) = [u EXCEPT !.firsts = MapShift(u.firsts, start, offset)]
    BY DEF updateInternalTopIndexes
  <2>3. MapShift(u.firsts, start, offset) = EmptyMapping
    BY <2>1, EmptyShift DEF Hold
  <2> HIDE DEF u
  <2>4. \A x : x = EmptyMapping => Hold([u EXCEPT !.firsts = x], s, Shifted(s, e, NoIndex, start, offset))
    BY <2>1, HoldSet
  <2> QED
    BY <2>2, <2>3, <2>4
<1> QED
  BY <1>1, <1>2

\* What is listed under the top level: the roots.
LEMMA UpperIs ==
    ASSUME TreeOK, NEW s, RootList(s), NEW row, NEW e, Fits(e, s, row), RowsApart(row, DOMAIN e),
           NEW list, list # <<>> \/ DOMAIN e = {}, NEW n \in DOMAIN e
    PROVE  /\ n \in RangeOf(s) => UpperOf(list, e, e[n]) = NoIndex
           /\ n \notin RangeOf(s) => /\ parent(n) \in DOMAIN e
                                     /\ UpperOf(list, e, e[n]) = EntryAt(s, row, parent(n))
                                     /\ UpperOf(list, e, e[n]) # NoIndex
<1>0. DOMAIN e \subseteq Below(RangeOf(s)) /\ e[n] = EntryAt(s, row, n) /\ list # <<>>
  BY DEF Fits
<1>1. ASSUME n \in RangeOf(s)
      PROVE  UpperOf(list, e, e[n]) = NoIndex
  <2>1. e[n][2] = Root
    BY <1>0, <1>1, EntriesApart
  <2>2. Root \notin DOMAIN e
    BY <1>0, BelowIs
  <2> QED
    BY <2>1, <2>2 DEF UpperOf
<1>2. ASSUME n \notin RangeOf(s)
      PROVE  /\ parent(n) \in DOMAIN e
             /\ UpperOf(list, e, e[n]) = EntryAt(s, row, parent(n))
             /\ UpperOf(list, e, e[n]) # NoIndex
  <2>1. e[n] = <<row[n], parent(n)>>
    BY <1>0, <1>2 DEF EntryAt
  <2>2. parent(n) \in DOMAIN e /\ e[parent(n)] = EntryAt(s, row, parent(n))
    BY <1>2 DEF Fits
  <2>3. UpperOf(list, e, e[n]) = e[parent(n)]
    BY <1>0, <2>1, <2>2 DEF UpperOf
  <2>4. EntryAt(s, row, parent(n)) # NoIndex
    BY <1>0, <2>2, EntriesApart
  <2> QED
    BY <2>2, <2>3, <2>4
<1> QED
  BY <1>1, <1>2

\* The roots from row start on move, and nothing below them.
IsTopShift(f, s, e, start, offset) ==
    /\ DOMAIN f = DOMAIN e /\ IsMap(f)
    /\ \A n \in DOMAIN e : f[n] = IF n \in RangeOf(s) /\ Place(s, n) - 1 >= start
                                  THEN <<Place(s, n) - 1 + offset, Root>> ELSE e[n]

LEMMA TopShift ==
    ASSUME TreeOK, NEW s, RootList(s), NEW row, NEW e, Fits(e, s, row), RowsApart(row, DOMAIN e),
           NEW list, list # <<>> \/ DOMAIN e = {}, NEW start \in Int, NEW offset \in Int,
           \A m \in RangeOf(s) \cap DOMAIN e : Place(s, m) - 1 < start => Place(s, m) - 1 < start + offset
    PROVE  IsTopShift(Shifted(list, e, NoIndex, start, offset), s, e, start, offset)
<1> DEFINE moved == {n \in DOMAIN e : e[n][1] >= start /\ UpperOf(list, e, e[n]) = NoIndex}
           new == [n \in moved |-> <<e[n][1] + offset, e[n][2]>>]
<1>0. /\ DOMAIN e \subseteq Below(RangeOf(s)) /\ IsMap(e)
      /\ \A n \in DOMAIN e : e[n] = EntryAt(s, row, n)
      /\ s \in Seq(Nodes) /\ Injective(s)
  BY DEF Fits, RootList
<1>1. \A n \in DOMAIN e : n \in RangeOf(s) =>
          e[n] = <<Place(s, n) - 1, Root>> /\ Place(s, n) \in Int
  BY <1>0, PlaceIs DEF EntryAt
<1>2. \A n \in DOMAIN e : n \in moved <=> n \in RangeOf(s) /\ Place(s, n) - 1 >= start
  BY <1>1, UpperIs
<1>3. \A n \in DOMAIN e : n \notin RangeOf(s) => e[n][2] # Root
  BY <1>0, EntriesApart
<1>4. \A k \in DOMAIN new, m \in DOMAIN e : m \notin DOMAIN new => new[k] # e[m]
  <2> SUFFICES ASSUME NEW k \in DOMAIN new, NEW m \in DOMAIN e, m \notin DOMAIN new, new[k] = e[m]
               PROVE  FALSE
    OBVIOUS
  <2>1. k \in DOMAIN e /\ k \in RangeOf(s) /\ Place(s, k) - 1 >= start
        /\ new[k] = <<Place(s, k) - 1 + offset, Root>> /\ Place(s, k) \in Int
    BY <1>1, <1>2
  <2>2. m \in RangeOf(s)
    BY <2>1, <1>3
  <2>3. e[m] = <<Place(s, m) - 1, Root>> /\ Place(s, m) \in Int /\ ~(Place(s, m) - 1 >= start)
    BY <1>1, <1>2, <2>2
  <2>4. Place(s, k) - 1 + offset = Place(s, m) - 1
    BY <2>1, <2>3
  <2> QED
    BY <2>1, <2>2, <2>3, <2>4
<1>5. Shifted(list, e, NoIndex, start, offset) = Bind(e, new)
  BY DEF Shifted
<1>6. DOMAIN new \subseteq DOMAIN e
  OBVIOUS
<1>7. \A n \in DOMAIN new : new[n] = <<Place(s, n) - 1 + offset, Root>>
  BY <1>1, <1>2
<1>8. DOMAIN new = moved
  OBVIOUS
<1> HIDE DEF new, moved
<1>9. /\ DOMAIN Bind(e, new) = DOMAIN e \cup DOMAIN new
      /\ \A n \in DOMAIN new : Bind(e, new)[n] = new[n]
      /\ \A n \in DOMAIN e \ DOMAIN new : Bind(e, new)[n] = e[n]
      /\ IsMap(Bind(e, new))
  BY <1>4, BindAdds
<1> QED
  BY <1>2, <1>5, <1>6, <1>7, <1>8, <1>9 DEF IsTopShift

\* Entries new are for rows that are shown, below others that have one.
Adds(new, e, s, row) ==
    /\ Fits(e, s, row)
    /\ DOMAIN new \subseteq Below(RangeOf(s)) \ DOMAIN e
    /\ RowsApart(row, DOMAIN e \cup DOMAIN new)
    /\ \A n \in DOMAIN new \ RangeOf(s) : parent(n) \in DOMAIN e \cup DOMAIN new
    /\ \A n \in DOMAIN new : new[n] = EntryAt(s, row, n)

LEMMA EntriesAdded ==
    ASSUME TreeOK, NEW s, RootList(s), NEW row, NEW e, NEW new, Adds(new, e, s, row)
    PROVE  Fits(Bind(e, new), s, row) /\ DOMAIN Bind(e, new) = DOMAIN e \cup DOMAIN new
<1> DEFINE X == DOMAIN new
<1>a. /\ Fits(e, s, row)
      /\ X \subseteq Below(RangeOf(s)) \ DOMAIN e
      /\ RowsApart(row, DOMAIN e \cup X)
      /\ \A n \in X \ RangeOf(s) : parent(n) \in DOMAIN e \cup X
      /\ \A n \in X : new[n] = EntryAt(s, row, n)
      /\ DOMAIN new = X
  BY DEF Adds
<1> USE <1>a
<1> HIDE DEF X
<1>0. /\ DOMAIN e \subseteq Below(RangeOf(s)) /\ IsMap(e)
      /\ \A n \in DOMAIN e : e[n] = EntryAt(s, row, n)
  BY DEF Fits
<1>1. \A k \in DOMAIN new, m \in DOMAIN e : m \notin DOMAIN new => new[k] # e[m]
  <2> SUFFICES ASSUME NEW k \in DOMAIN new, NEW m \in DOMAIN e, m \notin DOMAIN new, new[k] = e[m]
               PROVE  FALSE
    OBVIOUS
  <2>1. EntryAt(s, row, k) = EntryAt(s, row, m)
    BY <1>0
  <2>2. DOMAIN e \cup X \subseteq Below(RangeOf(s)) /\ k \in DOMAIN e \cup X /\ m \in DOMAIN e \cup X
    BY <1>0
  <2>3. k = m
    BY <2>1, <2>2, EntriesApart
  <2> QED
    BY <2>3
<1>2. /\ DOMAIN Bind(e, new) = DOMAIN e \cup DOMAIN new
      /\ \A n \in DOMAIN new : Bind(e, new)[n] = new[n]
      /\ \A n \in DOMAIN e \ DOMAIN new : Bind(e, new)[n] = e[n]
      /\ IsMap(Bind(e, new))
  BY <1>1, BindAdds
<1> DEFINE f == Bind(e, new)
<1>3. DOMAIN f = DOMAIN e \cup X /\ IsMap(f)
  BY <1>2
<1>4. \A n \in DOMAIN f : f[n] = EntryAt(s, row, n)
  BY <1>0, <1>2
<1> HIDE DEF f
<1>5. Fits(f, s, row)
  BY <1>0, <1>3, <1>4 DEF Fits
<1> QED
  BY <1>3, <1>5 DEF f

\* createParentMappings when each row in question is shown.
Lacking(e, p, first, last) ==
    {n \in Children(p) : srcRow[n] \in first .. last /\ hasChildren(n) /\ n \notin DOMAIN e}

LEMMA CreatesEntries ==
    ASSUME NEW t, NEW s, NEW e, Hold(t, s, e), ~isFlat, NEW p, NEW first, NEW last,
           \A n \in Lacking(e, p, first, last) : mapFromSource(t, n) # NoIndex
    PROVE  \E new : /\ DOMAIN new = Lacking(e, p, first, last)
                    /\ \A n \in DOMAIN new : new[n] = mapFromSource(t, n)
                    /\ Hold(createParentMappings(t, p, first, last), s, Bind(e, new))
<1> DEFINE lacking == {n \in Children(p) : /\ srcRow[n] \in first .. last
                                           /\ hasChildren(n) /\ ~Mapped(t, n)}
           created == {n \in lacking : \A m \in lacking :
                          srcRow[m] <= srcRow[n] => mapFromSource(t, m) # NoIndex}
           new == [n \in created |-> mapFromSource(t, n)]
<1>1. lacking = Lacking(e, p, first, last)
  BY DEF Mapped, Hold, Lacking
<1>2. created = Lacking(e, p, first, last)
  BY <1>1
<1>3. createParentMappings(t, p, first, last) = [t EXCEPT !.parents = Bind(t.parents, new)]
  BY DEF createParentMappings
<1>4. DOMAIN new = Lacking(e, p, first, last) /\ \A n \in DOMAIN new : new[n] = mapFromSource(t, n)
  BY <1>2
<1> HIDE DEF new
<1>5. createParentMappings(t, p, first, last) = [t EXCEPT !.parents = Bind(e, new)]
  BY <1>3 DEF Hold
<1>6. Hold(createParentMappings(t, p, first, last), s, Bind(e, new))
  BY <1>5, HoldSet
<1> QED
  BY <1>4, <1>6

\* With no children shown there are none.
LEMMA CreatesNone ==
    ASSUME isFlat
    PROVE  \A t, p, first, last : createParentMappings(t, p, first, last) = t
BY DEF createParentMappings

----------------------------------------------------------------------------
(* A root comes.                                                           *)

LEMMA PlaceAfterInsert ==
    ASSUME NEW s \in Seq(Nodes), Injective(s), NEW n \in Nodes, n \notin RangeOf(s), NEW at \in 0 .. Len(s),
           NEW w, w = Seqs!InsertAt(s, at + 1, n)
    PROVE  /\ w \in Seq(Nodes) /\ Len(w) = Len(s) + 1 /\ Injective(w) /\ RangeOf(w) = RangeOf(s) \cup {n}
           /\ Place(w, n) = at + 1 /\ w[at + 1] = n
           /\ \A m \in RangeOf(s) : Place(w, m) = IF Place(s, m) - 1 >= at THEN Place(s, m) + 1 ELSE Place(s, m)
<1>0. at + 1 \in 1 .. Len(s) + 1 /\ Len(s) \in Nat
  OBVIOUS
<1>1. /\ w \in Seq(Nodes) /\ Len(w) = Len(s) + 1
      /\ \A k \in 1 .. Len(s) + 1 : w[k] = IF k < at + 1 THEN s[k] ELSE IF k = at + 1 THEN n ELSE s[k - 1]
  <2>1. /\ Seqs!InsertAt(s, at + 1, n) \in Seq(Nodes) /\ Len(Seqs!InsertAt(s, at + 1, n)) = Len(s) + 1
        /\ \A k \in 1 .. Len(s) + 1 : Seqs!InsertAt(s, at + 1, n)[k]
              = IF k < at + 1 THEN s[k] ELSE IF k = at + 1 THEN n ELSE s[k - 1]
    BY <1>0, Inserted
  <2> QED
    BY <2>1
<1>2. Injective(w) /\ RangeOf(w) = RangeOf(s) \cup {n}
  BY <1>0, InsertedSet
<1>3. \A k \in 1 .. Len(s) + 1 : Place(w, w[k]) = k
  BY <1>0, <1>1, <1>2, PlaceIs
<1>4. Place(w, n) = at + 1 /\ w[at + 1] = n
  BY <1>0, <1>1, <1>3
<1>5. ASSUME NEW m \in RangeOf(s)
      PROVE  Place(w, m) = IF Place(s, m) - 1 >= at THEN Place(s, m) + 1 ELSE Place(s, m)
  <2>1. Place(s, m) \in 1 .. Len(s) /\ s[Place(s, m)] = m
    BY PlaceIs
  <2>2. CASE Place(s, m) - 1 >= at
    <3>1. Place(s, m) + 1 \in 1 .. Len(s) + 1 /\ w[Place(s, m) + 1] = m
      BY <1>0, <1>1, <2>1, <2>2
    <3> QED
      BY <1>3, <2>2, <3>1
  <2>3. CASE ~(Place(s, m) - 1 >= at)
    <3>1. Place(s, m) \in 1 .. Len(s) + 1 /\ w[Place(s, m)] = m
      BY <1>0, <1>1, <2>1, <2>3
    <3> QED
      BY <1>3, <2>3, <3>1
  <2> QED
    BY <2>2, <2>3
<1> QED
  BY <1>1, <1>2, <1>4, <1>5

\* The roots from its place on make room.
LEMMA RoomForRoot ==
    ASSUME TreeOK, NEW s, RootList(s), NEW row, NEW e, Fits(e, s, row), RowsApart(row, DOMAIN e),
           NEW n \in Present, n \notin RangeOf(s), NEW at \in 0 .. Len(s),
           NEW w, w = Seqs!InsertAt(s, at + 1, n), RootList(w),
           NEW f, f = Shifted(w, e, NoIndex, at, 1)
    PROVE  /\ Fits(f, w, row) /\ DOMAIN f = DOMAIN e
           /\ n \notin DOMAIN e /\ parent(n) \notin DOMAIN e
           /\ n \in Below(RangeOf(w)) /\ EntryAt(w, row, n) = <<at, Root>>
<1>0. /\ s \in Seq(Nodes) /\ Injective(s) /\ Len(s) \in Nat /\ n \in Nodes /\ RangeOf(s) \subseteq Present
      /\ DOMAIN e \subseteq Below(RangeOf(s)) /\ IsMap(e)
      /\ \A x \in DOMAIN e : e[x] = EntryAt(s, row, x)
      /\ \A x \in DOMAIN e \ RangeOf(s) : parent(x) \in DOMAIN e
  BY DEF RootList, Present, Fits
<1>1. /\ w \in Seq(Nodes) /\ Len(w) = Len(s) + 1 /\ Injective(w) /\ RangeOf(w) = RangeOf(s) \cup {n}
      /\ Place(w, n) = at + 1 /\ w[at + 1] = n
      /\ \A m \in RangeOf(s) : Place(w, m) = IF Place(s, m) - 1 >= at THEN Place(s, m) + 1 ELSE Place(s, m)
  BY <1>0, PlaceAfterInsert
<1>2. n \notin Below(RangeOf(s)) /\ parent(n) \notin Below(RangeOf(s))
  <2>1. parent(n) \notin Below(RangeOf(w))
    BY <1>1, BelowIs
  <2>2. Below(RangeOf(s)) \subseteq Below(RangeOf(w))
    BY <1>1 DEF Below, LiesWithin
  <2>3. n \notin Below(RangeOf(s))
    BY <2>1, <2>2, BelowIs
  <2> QED
    BY <2>1, <2>2, <2>3
<1>3. w # <<>>
  BY <1>1
<1>4. \A m \in RangeOf(s) : Place(s, m) \in 1 .. Len(s)
  BY <1>0, PlaceIs
<1>5. /\ DOMAIN f = DOMAIN e /\ IsMap(f)
      /\ \A x \in DOMAIN e : f[x] = IF x \in RangeOf(s) /\ Place(s, x) - 1 >= at
                                    THEN <<Place(s, x) - 1 + 1, Root>> ELSE e[x]
  <2>1. \A m \in RangeOf(s) \cap DOMAIN e : Place(s, m) - 1 < at => Place(s, m) - 1 < at + 1
    BY <1>4
  <2>2. at \in Int /\ 1 \in Int
    BY <1>0
  <2> QED
    <3>1. IsTopShift(f, s, e, at, 1)
      BY <1>3, <2>1, <2>2, TopShift
    <3> QED
      BY <3>1 DEF IsTopShift
<1>7. \A x \in DOMAIN e : f[x] = EntryAt(w, row, x)
  <2> SUFFICES ASSUME NEW x \in DOMAIN e PROVE f[x] = EntryAt(w, row, x)
    OBVIOUS
  <2>1. x # n
    BY <1>0, <1>2
  <2>2. CASE x \in RangeOf(s)
    <3>1. x \in RangeOf(w) /\ e[x] = <<Place(s, x) - 1, Root>> /\ Place(s, x) \in Int
      BY <1>0, <1>1, <1>4, <2>2 DEF EntryAt
    <3>2. EntryAt(w, row, x) = <<Place(w, x) - 1, Root>>
      BY <3>1 DEF EntryAt
    <3>3. CASE Place(s, x) - 1 >= at
      <4>1. Place(w, x) - 1 = Place(s, x) - 1 + 1
        BY <1>1, <2>2, <3>1, <3>3
      <4> QED
        BY <1>5, <2>2, <3>2, <3>3, <4>1
    <3>4. CASE ~(Place(s, x) - 1 >= at)
      <4>1. Place(w, x) - 1 = Place(s, x) - 1
        BY <1>1, <2>2, <3>1, <3>4
      <4> QED
        BY <1>5, <2>2, <3>1, <3>2, <3>4, <4>1
    <3> QED
      BY <3>3, <3>4
  <2>3. CASE x \notin RangeOf(s)
    <3>1. x \notin RangeOf(w)
      BY <1>1, <2>1, <2>3
    <3> QED
      BY <1>0, <1>5, <2>3, <3>1 DEF EntryAt
  <2> QED
    BY <2>2, <2>3
<1>8. DOMAIN e \subseteq Below(RangeOf(w)) /\ n \in Below(RangeOf(w))
  BY <1>0, <1>1, BelowIs DEF Below, LiesWithin
<1>9. \A x \in DOMAIN e \ RangeOf(w) : parent(x) \in DOMAIN e
  BY <1>0, <1>1
<1>10. EntryAt(w, row, n) = <<at, Root>>
  BY <1>0, <1>1 DEF EntryAt
<1> QED
  BY <1>0, <1>2, <1>5, <1>7, <1>8, <1>9, <1>10 DEF Fits

----------------------------------------------------------------------------
(* What the tables answer.                                                 *)

LEMMA MapsFrom ==
    ASSUME RootsOnTop, NEW t, NEW s, NEW e, Hold(t, s, e), NEW n \in Nodes
    PROVE  mapFromSource(t, n) = IF n \in DOMAIN e THEN e[n]
                                 ELSE IF parent(n) \in DOMAIN e THEN <<srcRow[n], parent(n)>>
                                 ELSE IF n \in RangeOf(s) THEN <<Place(s, n) - 1, Root>>
                                 ELSE NoIndex
<1>1. MappedIndexes(t.firsts) = {}
  BY EmptyShift DEF Hold
<1>2. IndexRow(n) = srcRow[n]
  BY DEF IndexRow
<1>3. IsRoot(t, n) <=> n \in RangeOf(s)
  BY DEF IsRoot, RangeOf, Hold
<1>4. RootRow(t, n) = Place(s, n)
  BY DEF RootRow, Place, Hold
<1>5. \A x : Mapped(t, x) <=> x \in DOMAIN e
  BY DEF Mapped, Hold
<1>6. t.parents = e
  BY DEF Hold
<1> QED
  BY <1>1, <1>2, <1>3, <1>4, <1>5, <1>6 DEF mapFromSource, RootsOnTop

\* Where the parent of every row that is shown has an entry, or is no row itself.
LEMMA MapsShown ==
    ASSUME RootsOnTop, TreeOK, NEW t, NEW s, NEW e, Hold(t, s, e), RootList(s),
           NEW row, Fits(e, s, row), NEW n \in Present,
           n \in Below(RangeOf(s)) \ RangeOf(s) => parent(n) \in DOMAIN e,
           n \notin DOMAIN e => row[n] = srcRow[n]
    PROVE  mapFromSource(t, n) = IF n \in Below(RangeOf(s)) THEN EntryAt(s, row, n) ELSE NoIndex
<1>0. /\ DOMAIN e \subseteq Below(RangeOf(s)) /\ n \in Nodes
      /\ \A m \in DOMAIN e : e[m] = EntryAt(s, row, m)
  BY DEF Fits, Present
<1>1. /\ RangeOf(s) \subseteq Below(RangeOf(s))
      /\ parent(n) \in Below(RangeOf(s)) => n \in Below(RangeOf(s))
      /\ n \in RangeOf(s) => parent(n) \notin Below(RangeOf(s))
  BY BelowIs
<1>2. mapFromSource(t, n) = IF n \in DOMAIN e THEN e[n]
                            ELSE IF parent(n) \in DOMAIN e THEN <<srcRow[n], parent(n)>>
                            ELSE IF n \in RangeOf(s) THEN <<Place(s, n) - 1, Root>>
                            ELSE NoIndex
  BY <1>0, MapsFrom
<1>3. CASE n \in DOMAIN e
  BY <1>0, <1>2, <1>3
<1>4. CASE n \notin DOMAIN e /\ n \in RangeOf(s)
  <2>1. EntryAt(s, row, n) = <<Place(s, n) - 1, Root>>
    BY <1>4 DEF EntryAt
  <2> QED
    BY <1>0, <1>1, <1>2, <1>4, <2>1
<1>5. CASE n \notin DOMAIN e /\ n \notin RangeOf(s) /\ n \in Below(RangeOf(s))
  <2>1. EntryAt(s, row, n) = <<srcRow[n], parent(n)>>
    BY <1>5 DEF EntryAt
  <2> QED
    BY <1>0, <1>1, <1>2, <1>5, <2>1
<1>6. CASE n \notin Below(RangeOf(s))
  BY <1>0, <1>1, <1>2, <1>6
<1> QED
  BY <1>3, <1>4, <1>5, <1>6

\* From the index of a row that is shown back to it, if it has an entry.
LEMMA ParentTo ==
    ASSUME TreeOK, NEW t, NEW s, NEW e, Hold(t, s, e), RootList(s),
           NEW row, Fits(e, s, row), NEW x \in Below(RangeOf(s)), RowsApart(row, DOMAIN e \cup {x})
    PROVE  mapParentToSource(t, EntryAt(s, row, x)) = IF x \in DOMAIN e THEN x ELSE Root
<1>0. /\ DOMAIN e \subseteq Below(RangeOf(s))
      /\ \A m \in DOMAIN e : e[m] = EntryAt(s, row, m)
      /\ t.parents = e
  BY DEF Fits, Hold
<1>1. \A m \in DOMAIN e : e[m] = EntryAt(s, row, x) => m = x
  <2>1. DOMAIN e \cup {x} \subseteq Below(RangeOf(s))
    BY <1>0
  <2>2. \A m, n \in DOMAIN e \cup {x} : EntryAt(s, row, m) = EntryAt(s, row, n) => m = n
    BY <2>1, EntriesApart
  <2> QED
    BY <1>0, <2>2
<1> QED
  BY <1>0, <1>1 DEF mapParentToSource

LEMMA MapsTo ==
    ASSUME RootsOnTop, TreeOK, NEW t, NEW s, NEW e, Hold(t, s, e), RootList(s),
           NEW row, Fits(e, s, row), RowsApart(row, DOMAIN e)
    PROVE  /\ \A r : mapToSource(t, <<r, Root>>)
                       = IF r + 1 \in DOMAIN s THEN s[r + 1] ELSE Root
           /\ \A r : \A p \in DOMAIN e : mapToSource(t, <<r, p>>) = index(r, p)
<1>0. /\ DOMAIN e \subseteq Below(RangeOf(s)) /\ Root \notin DOMAIN e
      /\ \A m \in DOMAIN e : e[m] = EntryAt(s, row, m)
      /\ t.parents = e /\ t.roots = s
  BY BelowIs DEF Fits, Hold
<1>1. \A r : mapToSource(t, <<r, Root>>) = IF r + 1 \in DOMAIN s THEN s[r + 1] ELSE Root
  <2> SUFFICES ASSUME NEW r
               PROVE  mapToSource(t, <<r, Root>>) = IF r + 1 \in DOMAIN s THEN s[r + 1] ELSE Root
    OBVIOUS
  <2>1. mapTopLevelToSource(t, r) = IF r + 1 \in DOMAIN s THEN s[r + 1] ELSE Root
    BY <1>0 DEF mapTopLevelToSource, RootsOnTop
  <2>2. s = <<>> => DOMAIN s = {}
    OBVIOUS
  <2>3. mapToSource(t, <<r, Root>>) = IF t.roots = <<>> THEN Root ELSE mapTopLevelToSource(t, r)
    BY <1>0 DEF mapToSource
  <2> QED
    BY <1>0, <2>1, <2>2, <2>3
<1>2. \A r : \A p \in DOMAIN e : mapToSource(t, <<r, p>>) = index(r, p)
  <2> SUFFICES ASSUME NEW r, NEW p \in DOMAIN e PROVE mapToSource(t, <<r, p>>) = index(r, p)
    OBVIOUS
  <2>1. p \in Below(RangeOf(s)) /\ DOMAIN e \cup {p} = DOMAIN e
    BY <1>0
  <2>2. mapParentToSource(t, e[p]) = p
    BY <1>0, <2>1, ParentTo
  <2>3. s # <<>>
    BY <2>1 DEF Below, LiesWithin, RangeOf
  <2> QED
    BY <1>0, <2>2, <2>3 DEF mapToSource, Mapped
<1> QED
  BY <1>1, <1>2

\* The children of an index as a list.
LEMMA Kids ==
    ASSUME TreeOK, NEW p \in Present \cup {Root}
    PROVE  /\ ChildrenInOrder(p) \in Seq(Nodes) /\ Len(ChildrenInOrder(p)) = rowCount(p)
           /\ rowCount(p) \in Nat /\ (rowCount(p) = 0 <=> ~hasChildren(p))
           /\ \A k \in 1 .. rowCount(p) : /\ ChildrenInOrder(p)[k] \in Children(p)
                                          /\ ChildrenInOrder(p)[k] = index(k - 1, p)
                                          /\ srcRow[ChildrenInOrder(p)[k]] = k - 1
           /\ \A n \in Children(p) : /\ srcRow[n] \in 0 .. rowCount(p) - 1
                                     /\ n = index(srcRow[n], p)
                                     /\ ChildrenInOrder(p)[srcRow[n] + 1] = n
           /\ Children(p) \subseteq Present
<1>0. rowCount(p) \in Nat /\ (rowCount(p) = 0 <=> ~hasChildren(p)) /\ p \in Nodes \cup {Root}
  BY RowCountType DEF hasChildren, Present
<1>t. Numbered(srcParent, srcRow) /\ Children(p) \subseteq Present
  BY <1>0, NodesAssumption DEF TreeOK, Children, Present
<1>1. \A r \in 0 .. rowCount(p) - 1 : index(r, p) \in Children(p) /\ srcRow[index(r, p)] = r
  BY <1>0, <1>t, IndexExists
<1>2. \A n \in Children(p) : srcRow[n] \in 0 .. rowCount(p) - 1
  BY <1>0, <1>t DEF Numbered, Children, rowCount
<1>3. \A m, n \in Children(p) : srcRow[m] = srcRow[n] => m = n
  BY <1>0, <1>t DEF Numbered, Children
<1>4. \A n \in Children(p) : n = index(srcRow[n], p)
  BY <1>1, <1>2, <1>3
<1>5. ChildrenInOrder(p) \in Seq(Nodes) /\ Len(ChildrenInOrder(p)) = rowCount(p)
  <2>1. \A k \in 1 .. rowCount(p) : index(k - 1, p) \in Nodes
    BY <1>0, <1>1 DEF Children
  <2> QED
    BY <1>0, <2>1 DEF ChildrenInOrder
<1>6. \A k \in 1 .. rowCount(p) : ChildrenInOrder(p)[k] = index(k - 1, p) /\ k - 1 \in 0 .. rowCount(p) - 1
  BY <1>0 DEF ChildrenInOrder
<1>7. \A k \in 1 .. rowCount(p) : /\ ChildrenInOrder(p)[k] \in Children(p)
                                  /\ ChildrenInOrder(p)[k] = index(k - 1, p)
                                  /\ srcRow[ChildrenInOrder(p)[k]] = k - 1
  BY <1>1, <1>6
<1>8. \A n \in Children(p) : ChildrenInOrder(p)[srcRow[n] + 1] = n
  <2> SUFFICES ASSUME NEW n \in Children(p), NEW k, k = srcRow[n] + 1 PROVE ChildrenInOrder(p)[k] = n
    OBVIOUS
  <2>1. k \in 1 .. rowCount(p) /\ k - 1 = srcRow[n]
    BY <1>0, <1>2
  <2>2. ChildrenInOrder(p)[k] = index(k - 1, p)
    BY <1>6, <2>1
  <2> QED
    BY <1>4, <2>1, <2>2
<1> QED
  BY <1>0, <1>t, <1>2, <1>4, <1>5, <1>7, <1>8

\* Without rows the list is empty.
LEMMA NoKids ==
    ASSUME TreeOK, NEW p \in Present \cup {Root}, ~hasChildren(p)
    PROVE  ChildrenInOrder(p) = <<>>
<1>1. ChildrenInOrder(p) \in Seq(Nodes) /\ Len(ChildrenInOrder(p)) = 0
  BY Kids
<1> QED
  BY <1>1

\* What a listener reads below a row that is shown.
LEMMA ReadsChildren ==
    ASSUME TreeOK, NEW t, NEW s, NEW e, Hold(t, s, e), RootList(s), ~isFlat,
           Fits(e, s, srcRow), AllMapped(e, s), NEW x \in Below(RangeOf(s))
    PROVE  ReadChildren(t, EntryAt(s, srcRow, x)) = ChildrenInOrder(x)
<1>1. x \in Present /\ DOMAIN e \cup {x} \subseteq Present
  BY DEF Below, Fits
<1>2. RowsApart(srcRow, DOMAIN e \cup {x})
  BY <1>1, RowsNow DEF RowsApart
<1>3. mapParentToSource(t, EntryAt(s, srcRow, x)) = IF x \in DOMAIN e THEN x ELSE Root
  BY <1>2, ParentTo
<1>4. CASE x \in DOMAIN e
  <2>1. x # Root
    BY BelowIs
  <2> QED
    BY <1>3, <1>4, <2>1 DEF ReadChildren
<1>5. CASE x \notin DOMAIN e
  <2>1. ~hasChildren(x)
    BY <1>5 DEF AllMapped
  <2>2. ChildrenInOrder(x) = <<>>
    BY <1>1, <2>1, NoKids
  <2> QED
    BY <1>3, <1>5, <2>2 DEF ReadChildren
<1> QED
  BY <1>4, <1>5

\* Where a listener finds what is shown.
LEMMA ListedIs ==
    ASSUME TreeOK, NEW s, NEW n \in Nodes, RangeOf(s) \subseteq Present
    PROVE  /\ AmongRows(s, n) <=> n \in RangeOf(s)
           /\ Listed(s, n) <=> n \in Below(RangeOf(s))
           /\ ListedIndex(s, n) = EntryAt(s, srcRow, n)
<1>1. \A m : AmongRows(s, m) <=> m \in RangeOf(s)
  BY DEF AmongRows, RangeOf
<1>2. Listed(s, n) <=> n \in Below(RangeOf(s))
  <2>1. n \notin Present => SelfAndAbove[n] = {}
    <3>1. n \notin Present => n \notin In(srcParent) /\ n \in Indexes
      BY PresentIs DEF Indexes
    <3>2. SelfAndAbove[n] = Ancestors(srcParent)[n]
      BY SelfAndAboveIsAncestors
    <3>3. srcParent \in [Nodes -> Indexes]
      BY DEF TreeOK, IsTree
    <3> QED
      BY <3>1, <3>2, <3>3, AncestorsUnfold
  <2> QED
    BY <1>1, <2>1 DEF Listed, Below, LiesWithin
<1>3. ListedIndex(s, n) = EntryAt(s, srcRow, n)
  BY <1>1 DEF ListedIndex, EntryAt, Place
<1> QED
  BY <1>1, <1>2, <1>3

----------------------------------------------------------------------------
(* The repairs.                                                            *)

LEMMA AllMappedIs ==
    ASSUME TreeOK, NEW s, RootList(s), NEW e, AllMapped(e, s)
    PROVE  RootsMapped(e, s)
BY BelowIs DEF AllMapped, RootsMapped

\* What is above a row that is shown, and is shown itself, has rows.
LEMMA AboveShown ==
    ASSUME TreeOK, NEW s, RootList(s), NEW n \in Present
    PROVE  /\ n \in Below(RangeOf(s)) <=> n \in RangeOf(s) \/ Above(n) \cap RangeOf(s) # {}
           /\ n \in RangeOf(s) => Above(n) \cap Below(RangeOf(s)) = {}
           /\ Above(n) \cap Below(RangeOf(s)) # {} => n \in Below(RangeOf(s)) \ RangeOf(s)
           /\ \A a \in Above(n) : a \in Present /\ hasChildren(a)
           /\ parent(n) # Root => /\ parent(n) \in Above(n) /\ parent(n) \in Present
                                  /\ Above(n) = {parent(n)} \cup Above(parent(n))
           /\ parent(n) = Root => Above(n) = {}
<1>t. IsTree(srcParent) /\ Root \notin Nodes
  BY NodesAssumption DEF TreeOK
<1>0. /\ \A m \in Present : /\ SelfAndAbove[m] = {m} \cup Above(m)
                            /\ Above(m) \subseteq Present
                            /\ \A a \in Above(m) : Above(a) \subseteq Above(m)
      /\ \A m \in Present : parent(m) = srcParent[m] /\ m \in In(srcParent) /\ m \in Nodes
  BY <1>t, AboveFacts, PresentIs DEF parent, Present
<1>1. n \in Below(RangeOf(s)) <=> n \in RangeOf(s) \/ Above(n) \cap RangeOf(s) # {}
  BY <1>0 DEF Below, LiesWithin
<1>2. Above(n) \cap Below(RangeOf(s)) # {} => Above(n) \cap RangeOf(s) # {}
  <2> SUFFICES ASSUME NEW a \in Above(n), a \in Below(RangeOf(s)) PROVE Above(n) \cap RangeOf(s) # {}
    OBVIOUS
  <2>1. a \in Present /\ ({a} \cup Above(a)) \cap RangeOf(s) # {} /\ Above(a) \subseteq Above(n)
    BY <1>0 DEF Below, LiesWithin
  <2> QED
    BY <2>1
<1>3. n \in RangeOf(s) => Above(n) \cap RangeOf(s) = {}
  BY DEF RootList
<1>4. \A a \in Above(n) : a \in Present /\ hasChildren(a)
  <2> SUFFICES ASSUME NEW a \in Above(n) PROVE a \in Present /\ hasChildren(a)
    OBVIOUS
  <2>1. a \in Present /\ Above(n) = Ancestors(srcParent)[srcParent[n]]
    BY <1>0, <1>t, AboveFacts
  <2>2. a \in In(srcParent) \cup {Root} /\ n \in In(srcParent)
    BY <1>0, <2>1
  <2>3. \E b \in Ancestors(srcParent)[n] : b \in In(srcParent) /\ srcParent[b] = a
    BY <1>t, <2>1, <2>2, BranchBelow
  <2> QED
    BY <2>1, <2>3 DEF hasChildren, Children, In
<1>5. parent(n) # Root => /\ parent(n) \in Above(n) /\ parent(n) \in Present
                          /\ Above(n) = {parent(n)} \cup Above(parent(n))
  <2>1. parent(n) # Root => parent(n) \in Present
    BY <1>t, <1>0, PresentIs DEF IsTree
  <2>2. Above(n) = SelfAndAbove[parent(n)]
    BY DEF Above
  <2> QED
    BY <1>0, <2>1, <2>2
<1>6. parent(n) = Root => Above(n) = {}
  BY <1>t, AncestorsOfOne, SelfAndAboveIsAncestors DEF Above
<1> QED
  BY <1>1, <1>2, <1>3, <1>4, <1>5, <1>6

\* Reading all rows gives each that has rows an entry.
LEMMA FetchedIs ==
    ASSUME TreeOK, NEW t, NEW s, NEW e, Hold(t, s, e), RootList(s),
           Fits(e, s, srcRow), RootsMapped(e, s)
    PROVE  \E f : Hold(Fetched(t), s, f) /\ Fits(f, s, srcRow) /\ AllMapped(f, s)
<1> DEFINE X == {n \in Present \ DOMAIN e : hasChildren(n) /\ Above(n) \cap DOMAIN e # {}}
           new == [n \in X |-> <<srcRow[n], parent(n)>>]
<1>0. DOMAIN e \subseteq Below(RangeOf(s)) /\ DOMAIN e \subseteq Present
  BY BelowIs DEF Fits
<1>1. \A n \in X : n \in Below(RangeOf(s)) \ RangeOf(s) /\ n \in Present /\ n \notin DOMAIN e
  BY <1>0, AboveShown
<1>2. \A n \in X \ RangeOf(s) : parent(n) \in DOMAIN e \cup X
  <2> SUFFICES ASSUME NEW n \in X PROVE parent(n) \in DOMAIN e \cup X
    OBVIOUS
  <2>1. n \in Present /\ Above(n) \cap DOMAIN e # {}
    OBVIOUS
  <2>2. parent(n) # Root /\ parent(n) \in Above(n) /\ parent(n) \in Present
        /\ Above(n) = {parent(n)} \cup Above(parent(n)) /\ hasChildren(parent(n))
    BY <2>1, AboveShown
  <2> QED
    BY <2>1, <2>2
<1>3. RowsApart(srcRow, DOMAIN e \cup X)
  <2>1. DOMAIN e \cup X \subseteq Present
    BY <1>0, <1>1
  <2> HIDE DEF X
  <2> QED
    BY <2>1, RowsNow DEF RowsApart
<1>4. DOMAIN new = X /\ \A n \in X : new[n] = EntryAt(s, srcRow, n)
  BY <1>1 DEF EntryAt
<1>5. Fetched(t) = [t EXCEPT !.parents = Bind(e, new)]
  BY DEF Fetched, Hold
<1>6. \A n \in Below(RangeOf(s)) : hasChildren(n) => n \in DOMAIN e \cup X
  <2> SUFFICES ASSUME NEW n \in Below(RangeOf(s)), hasChildren(n), n \notin DOMAIN e PROVE n \in X
    OBVIOUS
  <2>1. n \in Present /\ n \notin RangeOf(s)
    BY DEF Below, RootsMapped
  <2>2. PICK r \in Above(n) : r \in RangeOf(s)
    BY <2>1, AboveShown
  <2>3. hasChildren(r)
    BY <2>1, AboveShown
  <2>4. r \in DOMAIN e
    BY <2>2, <2>3 DEF RootsMapped
  <2> QED
    BY <2>1, <2>2, <2>4
<1> HIDE DEF X, new
<1>7. X \subseteq Below(RangeOf(s)) \ DOMAIN e
  BY <1>1
<1>8. Fits(Bind(e, new), s, srcRow) /\ DOMAIN Bind(e, new) = DOMAIN e \cup X
  <2>1. Adds(new, e, s, srcRow)
    BY <1>2, <1>3, <1>4, <1>7 DEF Adds
  <2> QED
    BY <1>4, <2>1, EntriesAdded
<1>9. Hold(Fetched(t), s, Bind(e, new))
  BY <1>5, HoldSet
<1>10. AllMapped(Bind(e, new), s)
  BY <1>6, <1>8 DEF AllMapped
<1> QED
  BY <1>8, <1>9, <1>10

\* Nothing is left to be read where each has one.
LEMMA NothingFetched ==
    ASSUME TreeOK, NEW t, NEW s, NEW e, Hold(t, s, e), IsMap(e),
           DOMAIN e = {} \/ (RootList(s) /\ DOMAIN e \subseteq Below(RangeOf(s)) /\ AllMapped(e, s))
    PROVE  Fetched(t) = [t EXCEPT !.parents = e]
<1> DEFINE X == {n \in Present \ DOMAIN e : hasChildren(n) /\ Above(n) \cap DOMAIN e # {}}
           new == [n \in X |-> <<srcRow[n], parent(n)>>]
<1>1. X = {}
  BY AboveShown DEF AllMapped
<1>2. Fetched(t) = [t EXCEPT !.parents = Bind(e, new)]
  BY DEF Fetched, Hold
<1>3. DOMAIN new = {}
  BY <1>1
<1> HIDE DEF new
<1>4. Bind(e, new) = e
  BY <1>3, BindNothing
<1> QED
  BY <1>2, <1>4

\* With no children shown there are no entries.
LEMMA NoEntries ==
    ASSUME NEW t, NEW s, Hold(t, s, EmptyMapping)
    PROVE  /\ IsMap(EmptyMapping)
           /\ TreeOK => Hold(Fetched(t), s, EmptyMapping)
           /\ \A at, start, offset : Hold(updateInternalIndexes(t, at, start, offset), s, EmptyMapping)
           /\ \A start, offset : Hold(updateInternalTopIndexes(t, start, offset), s, EmptyMapping)
           /\ \A first, last : Hold(removeParentMappings(t, first, last), s, EmptyMapping)
<1>1. IsMap(EmptyMapping) /\ DOMAIN EmptyMapping = {}
  BY DEF EmptyMapping, IsMap
<1>2. ASSUME NEW at, NEW start, NEW offset
      PROVE  Shifted(s, EmptyMapping, at, start, offset) = EmptyMapping
  <2> DEFINE moved == {n \in DOMAIN EmptyMapping : EmptyMapping[n][1] >= start
                           /\ UpperOf(s, EmptyMapping, EmptyMapping[n]) = at}
             new == [n \in moved |-> <<EmptyMapping[n][1] + offset, EmptyMapping[n][2]>>]
  <2>1. moved = {}
    BY <1>1
  <2>2. DOMAIN new = {}
    BY <2>1
  <2>3. Shifted(s, EmptyMapping, at, start, offset) = Bind(EmptyMapping, new)
    BY DEF Shifted
  <2> HIDE DEF new
  <2> QED
    BY <1>1, <2>2, <2>3, BindNothing
<1>3. \A at, start, offset : Hold(updateInternalIndexes(t, at, start, offset), s, EmptyMapping)
  <2> SUFFICES ASSUME NEW at, NEW start, NEW offset
               PROVE  Hold(updateInternalIndexes(t, at, start, offset), s, EmptyMapping)
    OBVIOUS
  <2>1. Hold(updateInternalIndexes(t, at, start, offset), s, Shifted(s, EmptyMapping, at, start, offset))
    BY ShiftedIs
  <2> QED
    BY <1>2, <2>1
<1>4. \A start, offset : Hold(updateInternalTopIndexes(t, start, offset), s, EmptyMapping)
  <2> SUFFICES ASSUME NEW start, NEW offset
               PROVE  Hold(updateInternalTopIndexes(t, start, offset), s, EmptyMapping)
    OBVIOUS
  <2>1. Hold(updateInternalTopIndexes(t, start, offset), s, Shifted(s, EmptyMapping, NoIndex, start, offset))
    BY ShiftedIs
  <2> QED
    BY <1>2, <2>1
<1>5. \A first, last : Hold(removeParentMappings(t, first, last), s, EmptyMapping)
  <2> SUFFICES ASSUME NEW first, NEW last PROVE Hold(removeParentMappings(t, first, last), s, EmptyMapping)
    OBVIOUS
  <2> DEFINE top == {n \in DOMAIN EmptyMapping : EmptyMapping[n][1] \in first .. last /\ ~Mapped(t, parent(n))}
             gone == {n \in DOMAIN EmptyMapping : SelfAndAbove[n] \cap top # {}}
             x == [n \in DOMAIN EmptyMapping \ gone |-> EmptyMapping[n]]
  <2>1. removeParentMappings(t, first, last) = [t EXCEPT !.parents = x]
    BY DEF removeParentMappings, Hold
  <2>2. DOMAIN EmptyMapping \ gone = {}
    BY <1>1
  <2> HIDE DEF gone
  <2>3. x = [n \in {} |-> EmptyMapping[n]]
    BY <2>2
  <2>4. [n \in {} |-> EmptyMapping[n]] = [n \in {} |-> n]
    OBVIOUS
  <2>5. x = EmptyMapping
    BY <2>3, <2>4 DEF EmptyMapping
  <2> HIDE DEF x
  <2> QED
    BY <2>1, <2>5, HoldSet
<1>6. TreeOK => Hold(Fetched(t), s, EmptyMapping)
  BY <1>1, NothingFetched, HoldSet
<1> QED
  BY <1>1, <1>3, <1>4, <1>5, <1>6

\* The entries created are for rows that are shown.
Reached(e, s, p, first, last) ==
    \A n \in Lacking(e, p, first, last) : n \in RangeOf(s) \/ parent(n) \in DOMAIN e

\* The tables u have entries for X, too.
Enlarged(u, s, e, X) ==
    \E f : Hold(u, s, f) /\ Fits(f, s, srcRow) /\ DOMAIN f = DOMAIN e \cup X

LEMMA CreatesFit ==
    ASSUME RootsOnTop, TreeOK, NEW t, NEW s, NEW e, Hold(t, s, e), ~isFlat, RootList(s),
           Fits(e, s, srcRow), NEW p \in Present \cup {Root}, NEW first, NEW last,
           Reached(e, s, p, first, last)
    PROVE  Enlarged(createParentMappings(t, p, first, last), s, e, Lacking(e, p, first, last))
<1> DEFINE X == Lacking(e, p, first, last)
<1>0. DOMAIN e \subseteq Below(RangeOf(s)) /\ DOMAIN e \subseteq Present
  BY BelowIs DEF Fits
<1>1. \A n \in X : n \in Present /\ n \notin DOMAIN e
  BY NodesAssumption DEF Lacking, Children, Present
<1>2. \A n \in X : n \in Below(RangeOf(s)) /\ (n \in RangeOf(s) \/ parent(n) \in DOMAIN e)
  BY <1>0, <1>1, BelowIs DEF Reached
<1>3. \A n \in X : mapFromSource(t, n) = EntryAt(s, srcRow, n)
  <2> SUFFICES ASSUME NEW n \in X PROVE mapFromSource(t, n) = EntryAt(s, srcRow, n)
    OBVIOUS
  <2>1. n \in Present /\ n \in Below(RangeOf(s)) /\ (n \in Below(RangeOf(s)) \ RangeOf(s) => parent(n) \in DOMAIN e)
    BY <1>1, <1>2
  <2> QED
    BY <2>1, MapsShown
<1>4. RowsApart(srcRow, DOMAIN e \cup X)
  <2>1. DOMAIN e \cup X \subseteq Present
    BY <1>0, <1>1
  <2> HIDE DEF X
  <2> QED
    BY <2>1, RowsNow DEF RowsApart
<1>5. \A n \in X : EntryAt(s, srcRow, n) # NoIndex
  <2>1. DOMAIN e \cup X \subseteq Below(RangeOf(s))
    BY <1>0, <1>2
  <2> QED
    BY <1>4, <2>1, EntriesApart
<1>6. PICK new : /\ DOMAIN new = X
                 /\ \A n \in DOMAIN new : new[n] = mapFromSource(t, n)
                 /\ Hold(createParentMappings(t, p, first, last), s, Bind(e, new))
  BY <1>3, <1>5, CreatesEntries
<1> HIDE DEF X
<1>7. Adds(new, e, s, srcRow)
  BY <1>1, <1>2, <1>3, <1>4, <1>6 DEF Adds
<1>8. Fits(Bind(e, new), s, srcRow) /\ DOMAIN Bind(e, new) = DOMAIN e \cup X
  <2>1. Fits(Bind(e, new), s, srcRow) /\ DOMAIN Bind(e, new) = DOMAIN e \cup DOMAIN new
    BY <1>7, EntriesAdded
  <2> QED
    BY <1>6, <2>1
<1> QED
  BY <1>6, <1>8 DEF X, Enlarged

LEMMA RowOfNewRoot ==
    ASSUME NEW s \in Seq(Nodes), Injective(s), NEW n \in Nodes, n \notin RangeOf(s), NEW at \in 0 .. Len(s),
           NEW w, w = Seqs!InsertAt(s, at + 1, n), Tables.roots = w
    PROVE  RootRow(Tables, n) - 1 = at
<1>1. Place(w, n) = at + 1
  BY PlaceAfterInsert
<1>2. RootRow(Tables, n) = Place(w, n)
  BY DEF Place, RootRow
<1>3. at \in Nat
  OBVIOUS
<1> QED
  BY <1>1, <1>2, <1>3

\* The tables of the roots s, when the root n has come into the list.
LEMMA RootAdded ==
    ASSUME RootsOnTop, TreeOK, NEW s, NEW e, ~isFlat, RootList(s),
           Fits(e, s, srcRow), RootsMapped(e, s),
           NEW n \in Present, n \notin RangeOf(s), NEW at \in 0 .. Len(s),
           NEW w, w = Seqs!InsertAt(s, at + 1, n), RootList(w), Hold(Tables, w, e)
    PROVE  \E f : Hold(WithRoot(n), w, f) /\ Fits(f, w, srcRow) /\ RootsMapped(f, w)
<1> DEFINE sh == updateInternalIndexes(Tables, NoIndex, at, 1)
           f0 == Shifted(w, e, NoIndex, at, 1)
<1>0. s \in Seq(Nodes) /\ Injective(s) /\ n \in Nodes /\ RangeOf(s) \subseteq Present
  BY DEF RootList, Present
<1>1. RangeOf(w) = RangeOf(s) \cup {n}
  BY <1>0, PlaceAfterInsert
<1>2. RootRow(Tables, n) - 1 = at
  BY <1>0, RowOfNewRoot DEF Hold
<1>3. WithRoot(n) = createParentMappings(sh, parent(n), srcRow[n], srcRow[n])
  BY <1>2 DEF WithRoot, RootsOnTop
<1>4. Hold(sh, w, f0)
  BY ShiftedIs
<1> HIDE DEF sh, f0
<1>5. RowsApart(srcRow, DOMAIN e)
  <2>1. DOMAIN e \subseteq Present
    BY BelowIs DEF Fits
  <2> QED
    BY <2>1, RowsNow DEF RowsApart
<1>6. /\ Fits(f0, w, srcRow) /\ DOMAIN f0 = DOMAIN e
      /\ n \notin DOMAIN e /\ parent(n) \notin DOMAIN e
  BY <1>0, <1>5, RoomForRoot DEF f0
<1>7. \A k : k \in Lacking(f0, parent(n), srcRow[n], srcRow[n]) <=> k = n /\ hasChildren(n)
  <2>1. parent(n) = srcParent[n] /\ srcRow[n] \in Nat
    BY <1>0, RowsNow DEF parent, RowsApart
  <2>2. \A k \in Children(parent(n)) : srcRow[k] \in srcRow[n] .. srcRow[n] => k = n
    <3> SUFFICES ASSUME NEW k \in Children(parent(n)), srcRow[k] \in srcRow[n] .. srcRow[n] PROVE k = n
      OBVIOUS
    <3>1. k \in Nodes /\ srcParent[k] = srcParent[n] /\ srcRow[k] = srcRow[n]
      BY <2>1 DEF Children
    <3>2. k \in Present /\ parent(k) = parent(n)
      BY <2>1, <3>1, <1>0 DEF Present, parent
    <3> QED
      BY <3>1, <3>2, RowsNow DEF RowsApart
  <2>3. n \in Children(parent(n)) /\ srcRow[n] \in srcRow[n] .. srcRow[n]
    BY <1>0, <2>1 DEF Children
  <2> QED
    BY <1>6, <2>2, <2>3 DEF Lacking
<1>8. parent(n) \in Present \cup {Root}
  BY BelowIs
<1>9. Reached(f0, w, parent(n), srcRow[n], srcRow[n])
  BY <1>1, <1>7 DEF Reached
<1>10. PICK f : /\ Hold(createParentMappings(sh, parent(n), srcRow[n], srcRow[n]), w, f) /\ Fits(f, w, srcRow)
                /\ DOMAIN f = DOMAIN f0 \cup Lacking(f0, parent(n), srcRow[n], srcRow[n])
  <2>1. Hold(sh, w, f0) /\ Fits(f0, w, srcRow)
    BY <1>4, <1>6
  <2>2. Enlarged(createParentMappings(sh, parent(n), srcRow[n], srcRow[n]), w, f0,
                 Lacking(f0, parent(n), srcRow[n], srcRow[n]))
    BY <2>1, <1>8, <1>9, CreatesFit
  <2> QED
    BY <2>2 DEF Enlarged
<1>11. RootsMapped(f, w)
  BY <1>1, <1>6, <1>7, <1>10 DEF RootsMapped
<1> QED
  BY <1>3, <1>10, <1>11

\* Places lo .. hi are cut out of the list s: c is what is left.
IsCut(c, s, lo, hi) ==
    /\ s \in Seq(Nodes) /\ Injective(s)
    /\ lo \in Int /\ hi \in Int /\ 1 <= lo /\ lo <= hi /\ hi <= Len(s)
    /\ c = SubSeq(s, 1, lo - 1) \o SubSeq(s, hi + 1, Len(s))

LEMMA PlaceAfterCut ==
    ASSUME NEW c, NEW s, NEW lo, NEW hi, IsCut(c, s, lo, hi)
    PROVE  /\ c \in Seq(Nodes) /\ Len(c) = Len(s) - (hi - lo + 1) /\ Injective(c)
           /\ \A m \in RangeOf(s) : m \in RangeOf(c) <=> ~(Place(s, m) >= lo /\ Place(s, m) <= hi)
           /\ RangeOf(c) \subseteq RangeOf(s)
           /\ \A m \in RangeOf(c) : Place(c, m) = IF Place(s, m) > hi THEN Place(s, m) - (hi - lo + 1) ELSE Place(s, m)
<1>0. /\ s \in Seq(Nodes) /\ Injective(s) /\ Len(s) \in Nat
      /\ lo \in Int /\ hi \in Int /\ 1 <= lo /\ lo <= hi /\ hi <= Len(s)
  BY DEF IsCut
<1> USE <1>0
<1>1. /\ c \in Seq(Nodes) /\ Len(c) = Len(s) - (hi - lo + 1)
      /\ \A k \in 1 .. Len(s) - (hi - lo + 1) : c[k] = IF k < lo THEN s[k] ELSE s[k + (hi - lo + 1)]
  BY CutOut DEF IsCut
<1>2. RangeOf(c) = RangeOf(s) \ {s[k] : k \in lo .. hi} /\ Injective(c)
  BY CutOutSet DEF IsCut
<1>3. \A m \in RangeOf(s) : Place(s, m) \in 1 .. Len(s) /\ s[Place(s, m)] = m
  BY PlaceIs
<1>4. \A m \in RangeOf(s) : m \in RangeOf(c) <=> ~(Place(s, m) >= lo /\ Place(s, m) <= hi)
  <2> SUFFICES ASSUME NEW m \in RangeOf(s)
               PROVE  m \in {s[k] : k \in lo .. hi} <=> Place(s, m) >= lo /\ Place(s, m) <= hi
    BY <1>2
  <2>1. \A k \in lo .. hi : s[k] = m => k = Place(s, m)
    <3> SUFFICES ASSUME NEW k \in lo .. hi, s[k] = m PROVE k = Place(s, m)
      OBVIOUS
    <3>1. k \in DOMAIN s
      OBVIOUS
    <3> QED
      BY <3>1, PlaceIs
  <2> QED
    BY <1>3, <2>1
<1>5. \A m \in RangeOf(c) : Place(c, m) = IF Place(s, m) > hi THEN Place(s, m) - (hi - lo + 1) ELSE Place(s, m)
  <2> SUFFICES ASSUME NEW m \in RangeOf(c), NEW k,
                      k = IF Place(s, m) > hi THEN Place(s, m) - (hi - lo + 1) ELSE Place(s, m)
               PROVE  Place(c, m) = k
    OBVIOUS
  <2>1. Place(s, m) \in 1 .. Len(s) /\ s[Place(s, m)] = m /\ (Place(s, m) < lo \/ Place(s, m) > hi)
    BY <1>2, <1>3, <1>4
  <2>2. k \in 1 .. Len(s) - (hi - lo + 1) /\ (k < lo => k = Place(s, m))
        /\ (~(k < lo) => k + (hi - lo + 1) = Place(s, m))
    BY <2>1
  <2>3. c[k] = m
    BY <1>1, <2>1, <2>2
  <2>4. k \in DOMAIN c
    BY <1>1, <2>2
  <2> QED
    BY <1>1, <1>2, <2>3, <2>4, PlaceIs
<1> QED
  BY <1>1, <1>2, <1>4, <1>5

\* Part of a list of roots.
LEMMA FewerRoots ==
    ASSUME NEW s, RootList(s), NEW c \in Seq(Nodes), Injective(c), RangeOf(c) \subseteq RangeOf(s)
    PROVE  RootList(c)
BY DEF RootList

\* No row is below two roots.
LEMMA OneRootAbove ==
    ASSUME TreeOK, NEW s, RootList(s), NEW n \in Present,
           NEW q \in RangeOf(s), NEW r \in RangeOf(s), q \in SelfAndAbove[n], r \in SelfAndAbove[n]
    PROVE  q = r
<1>t. IsTree(srcParent)
  BY DEF TreeOK
<1>0. q \in Present /\ r \in Present /\ n \in In(srcParent)
  BY PresentIs DEF RootList
<1>1. SelfAndAbove = Ancestors(srcParent)
  BY SelfAndAboveIsAncestors
<1>2. q \in Ancestors(srcParent)[r] \/ r \in Ancestors(srcParent)[q]
  BY <1>t, <1>0, <1>1, AncestorsChain
<1>3. SelfAndAbove[q] = {q} \cup Above(q) /\ SelfAndAbove[r] = {r} \cup Above(r)
  BY <1>t, <1>0, AboveFacts
<1>4. q \notin Above(r) /\ r \notin Above(q)
  BY DEF RootList
<1> QED
  BY <1>1, <1>2, <1>3, <1>4

Cuts(c, s, lo, hi) == RootList(s) /\ IsCut(c, s, lo, hi)

LEMMA CutRoots ==
    ASSUME TreeOK, NEW s, NEW c, NEW lo, NEW hi, Cuts(c, s, lo, hi)
    PROVE  /\ RootList(c) /\ RangeOf(c) \subseteq RangeOf(s)
           /\ \A m \in RangeOf(s) : m \in RangeOf(c) <=> ~(Place(s, m) >= lo /\ Place(s, m) <= hi)
           /\ \A m \in RangeOf(c) : Place(c, m) = IF Place(s, m) > hi THEN Place(s, m) - (hi - lo + 1) ELSE Place(s, m)
           /\ \A n \in Below(RangeOf(s)) : n \in Below(RangeOf(c)) <=>
                 SelfAndAbove[n] \cap (RangeOf(s) \ RangeOf(c)) = {}
           /\ Below(RangeOf(c)) \subseteq Below(RangeOf(s))
<1>0. IsCut(c, s, lo, hi) /\ RootList(s)
  BY DEF Cuts
<1>1. /\ c \in Seq(Nodes) /\ Injective(c) /\ RangeOf(c) \subseteq RangeOf(s)
      /\ \A m \in RangeOf(s) : m \in RangeOf(c) <=> ~(Place(s, m) >= lo /\ Place(s, m) <= hi)
      /\ \A m \in RangeOf(c) : Place(c, m) = IF Place(s, m) > hi THEN Place(s, m) - (hi - lo + 1) ELSE Place(s, m)
  BY <1>0, PlaceAfterCut
<1>2. RootList(c)
  BY <1>0, <1>1, FewerRoots
<1>3. Below(RangeOf(c)) \subseteq Below(RangeOf(s))
  BY <1>1 DEF Below, LiesWithin
<1>4. ASSUME NEW n \in Below(RangeOf(s))
      PROVE  n \in Below(RangeOf(c)) <=> SelfAndAbove[n] \cap (RangeOf(s) \ RangeOf(c)) = {}
  <2>1. n \in Present /\ SelfAndAbove[n] \cap RangeOf(s) # {}
    BY <1>4 DEF Below, LiesWithin
  <2>2. n \in Below(RangeOf(c)) <=> SelfAndAbove[n] \cap RangeOf(c) # {}
    BY <2>1 DEF Below, LiesWithin
  <2>3. \A q, r \in RangeOf(s) : q \in SelfAndAbove[n] /\ r \in SelfAndAbove[n] => q = r
    BY <1>0, <2>1, OneRootAbove
  <2> QED
    BY <1>1, <2>1, <2>2, <2>3
<1> QED
  BY <1>1, <1>2, <1>3, <1>4

\* The roots at places lo .. hi leave, and what is below them.
LEMMA RootsCut ==
    ASSUME RootsOnTop, TreeOK, NEW t, NEW s, NEW c, NEW e, Hold(t, c, e), NEW lo, NEW hi, Cuts(c, s, lo, hi),
           Fits(e, s, srcRow), AllMapped(e, s),
           NEW u, u = updateInternalTopIndexes(removeParentMappings(t, lo - 1, hi - 1), hi, -(hi - lo + 1))
    PROVE  \E f : Hold(u, c, f) /\ Fits(f, c, srcRow) /\ AllMapped(f, c)
<1> DEFINE top == {n \in DOMAIN e : e[n][1] \in lo - 1 .. hi - 1 /\ ~Mapped(t, parent(n))}
           gone == {n \in DOMAIN e : SelfAndAbove[n] \cap top # {}}
           e1 == [n \in DOMAIN e \ gone |-> e[n]]
           f == Shifted(c, e1, NoIndex, hi, -(hi - lo + 1))
<1>0. /\ s \in Seq(Nodes) /\ Injective(s) /\ RootList(s)
      /\ lo \in Int /\ hi \in Int /\ 1 <= lo /\ lo <= hi /\ hi <= Len(s)
  BY DEF RootList, Cuts, IsCut
<1>a. /\ DOMAIN e \subseteq Below(RangeOf(s)) /\ DOMAIN e \subseteq Present
      /\ \A n \in DOMAIN e : e[n] = EntryAt(s, srcRow, n)
      /\ \A n \in DOMAIN e \ RangeOf(s) : parent(n) \in DOMAIN e
      /\ t.parents = e
  BY <1>0, BelowIs DEF Fits, Hold
<1>b. /\ RootList(c) /\ RangeOf(c) \subseteq RangeOf(s)
      /\ \A m \in RangeOf(s) : m \in RangeOf(c) <=> ~(Place(s, m) >= lo /\ Place(s, m) <= hi)
      /\ \A m \in RangeOf(c) : Place(c, m) = IF Place(s, m) > hi THEN Place(s, m) - (hi - lo + 1) ELSE Place(s, m)
      /\ \A n \in Below(RangeOf(s)) : n \in Below(RangeOf(c)) <=>
            SelfAndAbove[n] \cap (RangeOf(s) \ RangeOf(c)) = {}
      /\ Below(RangeOf(c)) \subseteq Below(RangeOf(s))
  BY CutRoots
<1>c. \A m \in RangeOf(s) : Place(s, m) \in 1 .. Len(s)
  BY <1>0, PlaceIs
<1>1. \A n \in DOMAIN e : n \in top <=> n \in RangeOf(s) \ RangeOf(c)
  <2> SUFFICES ASSUME NEW n \in DOMAIN e PROVE n \in top <=> n \in RangeOf(s) \ RangeOf(c)
    OBVIOUS
  <2>1. CASE n \notin RangeOf(s)
    BY <1>a, <2>1 DEF Mapped
  <2>2. CASE n \in RangeOf(s)
    <3>1. parent(n) \notin DOMAIN e
      BY <1>0, <1>a, <2>2, BelowIs
    <3>2. e[n] = <<Place(s, n) - 1, Root>> /\ Place(s, n) \in Int
      BY <1>a, <1>c, <2>2 DEF EntryAt
    <3>3. n \in top <=> Place(s, n) - 1 >= lo - 1 /\ Place(s, n) - 1 <= hi - 1
      BY <1>0, <1>a, <3>1, <3>2 DEF Mapped
    <3> QED
      BY <1>0, <1>b, <2>2, <3>2, <3>3
  <2> QED
    BY <2>1, <2>2
\* A root that has a row below it has an entry.
<1>2. \A n \in DOMAIN e : SelfAndAbove[n] \cap RangeOf(s) \subseteq DOMAIN e
  <2> SUFFICES ASSUME NEW n \in DOMAIN e, NEW r \in RangeOf(s), r \in SelfAndAbove[n] PROVE r \in DOMAIN e
    OBVIOUS
  <2>1. SelfAndAbove[n] = {n} \cup Above(n)
    BY <1>a, AboveFacts DEF TreeOK
  <2>2. CASE r # n
    <3>1. hasChildren(r) /\ r \in Below(RangeOf(s))
      BY <1>0, <1>a, <2>1, <2>2, AboveShown, BelowIs
    <3> QED
      BY <3>1 DEF AllMapped
  <2> QED
    BY <2>2
<1>3. \A n \in DOMAIN e : n \in gone <=> n \notin Below(RangeOf(c))
  <2> SUFFICES ASSUME NEW n \in DOMAIN e PROVE n \in gone <=> n \notin Below(RangeOf(c))
    OBVIOUS
  <2>1. n \in Below(RangeOf(c)) <=> SelfAndAbove[n] \cap (RangeOf(s) \ RangeOf(c)) = {}
    BY <1>a, <1>b
  <2>2. SelfAndAbove[n] \cap top = SelfAndAbove[n] \cap (RangeOf(s) \ RangeOf(c))
    <3>1. top \subseteq DOMAIN e
      OBVIOUS
    <3> HIDE DEF top
    <3> QED
      BY <1>1, <1>2, <3>1
  <2> HIDE DEF top
  <2> QED
    BY <2>1, <2>2
<1>4. removeParentMappings(t, lo - 1, hi - 1) = [t EXCEPT !.parents = e1]
  BY <1>a DEF removeParentMappings
<1>5. /\ DOMAIN e1 = {n \in DOMAIN e : n \in Below(RangeOf(c))} /\ IsMap(e1)
      /\ \A n \in DOMAIN e1 : e1[n] = e[n]
  <2>1. e1 = [n \in DOMAIN e1 |-> e1[n]] /\ DOMAIN e1 = DOMAIN e \ gone /\ \A n \in DOMAIN e1 : e1[n] = e[n]
    OBVIOUS
  <2> HIDE DEF e1, gone
  <2> QED
    BY <1>3, <2>1 DEF IsMap
<1>6. Hold(u, c, f)
  <2>1. Hold([t EXCEPT !.parents = e1], c, e1)
    BY HoldSet
  <2> HIDE DEF e1
  <2>2. Hold(updateInternalTopIndexes([t EXCEPT !.parents = e1], hi, -(hi - lo + 1)), c, f)
    BY <2>1, ShiftedIs
  <2> QED
    BY <1>4, <2>2
<1> HIDE DEF e1, gone, top, f
<1>7. Fits(e1, s, srcRow)
  <2>1. DOMAIN e1 \subseteq Below(RangeOf(s)) /\ \A n \in DOMAIN e1 : e1[n] = EntryAt(s, srcRow, n)
    BY <1>5, <1>a
  <2>2. \A n \in DOMAIN e1 \ RangeOf(s) : parent(n) \in DOMAIN e1
    <3> SUFFICES ASSUME NEW n \in DOMAIN e1 \ RangeOf(s) PROVE parent(n) \in DOMAIN e1
      OBVIOUS
    <3>1. n \in DOMAIN e /\ n \in Below(RangeOf(c)) /\ n \notin RangeOf(c)
      BY <1>5, <1>b
    <3>2. parent(n) \in DOMAIN e
      BY <1>a, <3>1
    <3>3. parent(n) \in Below(RangeOf(c))
      BY <1>b, <3>1, BelowIs
    <3> QED
      BY <1>5, <3>2, <3>3
  <2> QED
    BY <1>5, <2>1, <2>2 DEF Fits
<1>8. \A n \in DOMAIN e1 : n \in RangeOf(s) => n \in RangeOf(c)
  <2> SUFFICES ASSUME NEW n \in DOMAIN e1, n \in RangeOf(s), n \notin RangeOf(c) PROVE FALSE
    OBVIOUS
  <2>1. n \in Below(RangeOf(c)) /\ n \in Below(RangeOf(s)) /\ n \in Present
    BY <1>5, <1>a
  <2>2. n \in SelfAndAbove[n]
    BY <2>1, AboveFacts DEF TreeOK
  <2> QED
    BY <1>b, <2>1, <2>2
<1>9. IsTopShift(f, s, e1, hi, -(hi - lo + 1))
  <2>1. RowsApart(srcRow, DOMAIN e1)
    BY <1>5, <1>a, RowsNow DEF RowsApart
  <2>2. c # <<>> \/ DOMAIN e1 = {}
    <3>1. c = <<>> => RangeOf(c) = {}
      BY DEF RangeOf
    <3> QED
      BY <3>1, <1>5 DEF Below, LiesWithin
  <2>3. -(hi - lo + 1) \in Int /\ hi \in Int
    BY <1>0
  <2>4. \A m \in RangeOf(s) \cap DOMAIN e1 : Place(s, m) - 1 < hi => Place(s, m) - 1 < hi + -(hi - lo + 1)
    BY <1>0, <1>b, <1>c, <1>8
  <2> QED
    BY <1>0, <1>7, <2>1, <2>2, <2>3, <2>4, TopShift DEF f
<1>10. DOMAIN f = DOMAIN e1 /\ IsMap(f)
  BY <1>9 DEF IsTopShift
<1>11. \A n \in DOMAIN f : f[n] = EntryAt(c, srcRow, n)
  <2> SUFFICES ASSUME NEW n \in DOMAIN e1 PROVE f[n] = EntryAt(c, srcRow, n)
    BY <1>10
  <2>1. f[n] = IF n \in RangeOf(s) /\ Place(s, n) - 1 >= hi
               THEN <<Place(s, n) - 1 + -(hi - lo + 1), Root>> ELSE e1[n]
    BY <1>9 DEF IsTopShift
  <2>2. e1[n] = EntryAt(s, srcRow, n)
    BY <1>5, <1>a
  <2>3. CASE n \in RangeOf(s)
    <3>1. n \in RangeOf(c) /\ Place(s, n) \in Int
      BY <1>8, <1>c, <2>3
    <3>2. EntryAt(c, srcRow, n) = <<Place(c, n) - 1, Root>> /\ EntryAt(s, srcRow, n) = <<Place(s, n) - 1, Root>>
      BY <2>3, <3>1 DEF EntryAt
    <3>3. CASE Place(s, n) > hi
      <4>1. Place(c, n) - 1 = Place(s, n) - 1 + -(hi - lo + 1) /\ Place(s, n) - 1 >= hi
        BY <1>0, <1>b, <3>1, <3>3
      <4> QED
        BY <2>1, <2>3, <3>2, <4>1
    <3>4. CASE ~(Place(s, n) > hi)
      <4>1. Place(c, n) = Place(s, n) /\ ~(Place(s, n) - 1 >= hi)
        BY <1>0, <1>b, <3>1, <3>4
      <4> QED
        BY <2>1, <2>2, <3>2, <4>1
    <3> QED
      BY <3>3, <3>4
  <2>4. CASE n \notin RangeOf(s)
    <3>1. n \notin RangeOf(c)
      BY <1>b, <2>4
    <3> QED
      BY <2>1, <2>2, <2>4, <3>1 DEF EntryAt
  <2> QED
    BY <2>3, <2>4
<1>12. Fits(f, c, srcRow)
  <2>1. DOMAIN f \subseteq Below(RangeOf(c))
    BY <1>5, <1>10
  <2>2. \A n \in DOMAIN f \ RangeOf(c) : parent(n) \in DOMAIN f
    BY <1>7, <1>8, <1>10 DEF Fits
  <2> QED
    BY <1>10, <1>11, <2>1, <2>2 DEF Fits
<1>13. AllMapped(f, c)
  BY <1>b, <1>5, <1>10 DEF AllMapped
<1> QED
  BY <1>6, <1>12, <1>13

\* The rows of p from row start on move.
Shifts(e, s, row, moved, p, start, offset) ==
    /\ Fits(e, s, row) /\ p \in DOMAIN e
    /\ RowsApart(row, DOMAIN e) /\ RowsApart(moved, DOMAIN e)
    /\ start \in Int /\ offset \in Int
    /\ \A n \in DOMAIN e \ RangeOf(s) :
          moved[n] = IF parent(n) = p /\ row[n] >= start THEN row[n] + offset ELSE row[n]

LEMMA LowerShift ==
    ASSUME TreeOK, NEW s, RootList(s), NEW e, NEW row, NEW moved, NEW p, NEW start, NEW offset,
           Shifts(e, s, row, moved, p, start, offset)
    PROVE  /\ Fits(Shifted(s, e, e[p], start, offset), s, moved)
           /\ DOMAIN Shifted(s, e, e[p], start, offset) = DOMAIN e
<1> DEFINE M == {n \in DOMAIN e : e[n][1] >= start /\ UpperOf(s, e, e[n]) = e[p]}
           new == [n \in M |-> <<e[n][1] + offset, e[n][2]>>]
           f == Shifted(s, e, e[p], start, offset)
<1>0. /\ Fits(e, s, row) /\ p \in DOMAIN e
      /\ RowsApart(row, DOMAIN e) /\ RowsApart(moved, DOMAIN e)
      /\ start \in Int /\ offset \in Int
      /\ \A n \in DOMAIN e \ RangeOf(s) :
            moved[n] = IF parent(n) = p /\ row[n] >= start THEN row[n] + offset ELSE row[n]
  BY DEF Shifts
<1>1. /\ DOMAIN e \subseteq Below(RangeOf(s)) /\ IsMap(e)
      /\ \A n \in DOMAIN e : e[n] = EntryAt(s, row, n)
      /\ \A n \in DOMAIN e \ RangeOf(s) : parent(n) \in DOMAIN e
      /\ \A n \in DOMAIN e : row[n] \in Nat
  BY <1>0 DEF Fits, RowsApart
<1>2. /\ \A m, n \in DOMAIN e : EntryAt(s, row, m) = EntryAt(s, row, n) => m = n
      /\ \A n \in DOMAIN e : EntryAt(s, row, n) # NoIndex
      /\ \A m, n \in DOMAIN e : EntryAt(s, moved, m) = EntryAt(s, moved, n) => m = n
  BY <1>0, <1>1, EntriesApart
<1>3. ASSUME NEW n \in DOMAIN e
      PROVE  n \in M <=> n \notin RangeOf(s) /\ parent(n) = p /\ row[n] >= start
  <2>1. s # <<>>
    BY <1>1, <1>3 DEF Below, LiesWithin, RangeOf
  <2>2. /\ n \in RangeOf(s) => UpperOf(s, e, e[n]) = NoIndex
        /\ n \notin RangeOf(s) => UpperOf(s, e, e[n]) = EntryAt(s, row, parent(n))
    BY <1>0, <1>3, <2>1, UpperIs
  <2>3. CASE n \in RangeOf(s)
    BY <1>0, <1>1, <1>2, <2>2, <2>3
  <2>4. CASE n \notin RangeOf(s)
    <3>1. UpperOf(s, e, e[n]) = e[p] <=> parent(n) = p
      BY <1>0, <1>1, <1>2, <2>2, <2>4
    <3>2. e[n] = <<row[n], parent(n)>>
      BY <1>1, <2>4 DEF EntryAt
    <3> QED
      BY <2>4, <3>1, <3>2
  <2> QED
    BY <2>3, <2>4
<1>4. \A n \in DOMAIN new : n \in DOMAIN e /\ new[n] = EntryAt(s, moved, n)
  <2> SUFFICES ASSUME NEW n \in DOMAIN e, n \in M
               PROVE  new[n] = EntryAt(s, moved, n)
    OBVIOUS
  <2>1. n \notin RangeOf(s) /\ parent(n) = p /\ row[n] >= start
    BY <1>3
  <2>2. e[n] = <<row[n], parent(n)>> /\ EntryAt(s, moved, n) = <<moved[n], parent(n)>>
    BY <1>1, <2>1 DEF EntryAt
  <2>3. moved[n] = row[n] + offset
    BY <1>0, <2>1
  <2> QED
    BY <2>2, <2>3
<1>5. \A n \in DOMAIN e : n \notin DOMAIN new => e[n] = EntryAt(s, moved, n)
  <2> SUFFICES ASSUME NEW n \in DOMAIN e, n \notin M PROVE EntryAt(s, row, n) = EntryAt(s, moved, n)
    BY <1>1
  <2>1. CASE n \in RangeOf(s)
    BY <2>1 DEF EntryAt
  <2>2. CASE n \notin RangeOf(s)
    <3>1. moved[n] = row[n]
      BY <1>0, <1>3, <2>2
    <3> QED
      BY <2>2, <3>1 DEF EntryAt
  <2> QED
    BY <2>1, <2>2
<1>6. f = Bind(e, new)
  BY DEF Shifted
<1> HIDE DEF f, new, M
<1>7. \A k \in DOMAIN new, m \in DOMAIN e : m \notin DOMAIN new => new[k] # e[m]
  BY <1>2, <1>4, <1>5
<1>8. /\ DOMAIN Bind(e, new) = DOMAIN e \cup DOMAIN new
      /\ \A n \in DOMAIN new : Bind(e, new)[n] = new[n]
      /\ \A n \in DOMAIN e \ DOMAIN new : Bind(e, new)[n] = e[n]
      /\ IsMap(Bind(e, new))
  BY <1>7, BindAdds
<1>9. DOMAIN f = DOMAIN e /\ IsMap(f) /\ \A n \in DOMAIN f : f[n] = EntryAt(s, moved, n)
  BY <1>4, <1>5, <1>6, <1>8
<1>10. Fits(f, s, moved)
  BY <1>1, <1>9 DEF Fits
<1> QED
  BY <1>9, <1>10 DEF f

\* Rows that are counted alike have the same entries.
LEMMA FitsAlike ==
    ASSUME NEW e, NEW s, NEW row, NEW alike, Fits(e, s, row),
           \A n \in DOMAIN e \ RangeOf(s) : alike[n] = row[n]
    PROVE  Fits(e, s, alike)
BY DEF Fits, EntryAt

----------------------------------------------------------------------------
(* The tables as they are to be.                                           *)

\* They fit the roots s; all rows that are shown and have rows have been read.
Fitting(t, s) ==
    IF isFlat THEN Hold(t, s, EmptyMapping)
    ELSE RootList(s) /\ \E e : Hold(t, s, e) /\ Fits(e, s, srcRow) /\ RootsMapped(e, s)
Showing(t, s) ==
    IF isFlat THEN Hold(t, s, EmptyMapping)
    ELSE RootList(s) /\ \E e : Hold(t, s, e) /\ Fits(e, s, srcRow) /\ AllMapped(e, s)

LEMMA ShowingFits ==
    ASSUME TreeOK, NEW t, NEW s, Showing(t, s)
    PROVE  Fitting(t, s)
BY AllMappedIs DEF Showing, Fitting

LEMMA ReadFits ==
    ASSUME TreeOK, NEW t, NEW s, Fitting(t, s)
    PROVE  Showing(Fetched(t), s)
<1>1. CASE isFlat
  BY <1>1, NoEntries DEF Fitting, Showing
<1>2. CASE ~isFlat
  <2>1. PICK e : Hold(t, s, e) /\ Fits(e, s, srcRow) /\ RootsMapped(e, s) /\ RootList(s)
    BY <1>2 DEF Fitting
  <2>2. \E f : Hold(Fetched(t), s, f) /\ Fits(f, s, srcRow) /\ AllMapped(f, s)
    BY <2>1, FetchedIs
  <2> QED
    BY <1>2, <2>1, <2>2 DEF Showing
<1> QED
  BY <1>1, <1>2

\* A new root.
LEMMA RootFits ==
    ASSUME RootsOnTop, TreeOK, NEW t, NEW s, Fitting(t, s), s \in Seq(Nodes), Injective(s),
           NEW n \in Present, n \notin RangeOf(s), NEW at \in 0 .. Len(s),
           NEW w, w = Seqs!InsertAt(s, at + 1, n), isFlat \/ RootList(w),
           Tables = [t EXCEPT !.roots = w]
    PROVE  Fitting(WithRoot(n), w)
<1>1. CASE isFlat
  <2> DEFINE sh == updateInternalIndexes(Tables, NoIndex, at, 1)
  <2>1. Hold(t, s, EmptyMapping)
    BY <1>1 DEF Fitting
  <2>2. Hold(Tables, w, EmptyMapping)
    BY <2>1, HoldSet
  <2>3. WithRoot(n) = createParentMappings(sh, parent(n), srcRow[n], srcRow[n])
    <3>1. RootRow(Tables, n) - 1 = at
      BY <2>2, RowOfNewRoot DEF Hold, Present
    <3> QED
      BY <3>1 DEF WithRoot, RootsOnTop
  <2>4. Hold(sh, w, EmptyMapping)
    BY <2>2, NoEntries
  <2> HIDE DEF sh
  <2>5. WithRoot(n) = sh
    BY <1>1, <2>3, CreatesNone
  <2> QED
    BY <1>1, <2>4, <2>5 DEF Fitting
<1>2. CASE ~isFlat
  <2>1. PICK e : Hold(t, s, e) /\ Fits(e, s, srcRow) /\ RootsMapped(e, s) /\ RootList(s)
    BY <1>2 DEF Fitting
  <2>3. Hold(Tables, w, e)
    BY <2>1, HoldSet
  <2>2. \E f : Hold(WithRoot(n), w, f) /\ Fits(f, w, srcRow) /\ RootsMapped(f, w)
    BY <1>2, <2>1, <2>3, RootAdded
  <2> QED
    BY <1>2, <2>2 DEF Fitting
<1> QED
  BY <1>1, <1>2

\* Roots that leave.
LEMMA CutFits ==
    ASSUME RootsOnTop, TreeOK, NEW t, NEW s, Showing(t, s), NEW c, NEW lo, NEW hi, IsCut(c, s, lo, hi),
           NEW k, k = [t EXCEPT !.roots = c],
           NEW u, u = updateInternalTopIndexes(removeParentMappings(k, lo - 1, hi - 1), hi, -(hi - lo + 1))
    PROVE  Showing(u, c)
<1>1. CASE isFlat
  <2>1. Hold(t, s, EmptyMapping)
    BY <1>1 DEF Showing
  <2>2. Hold(k, c, EmptyMapping)
    BY <2>1, HoldSet
  <2>3. Hold(removeParentMappings(k, lo - 1, hi - 1), c, EmptyMapping)
    BY <2>2, NoEntries
  <2>4. Hold(u, c, EmptyMapping)
    BY <2>3, NoEntries
  <2> QED
    BY <1>1, <2>4 DEF Showing
<1>2. CASE ~isFlat
  <2>1. PICK e : Hold(t, s, e) /\ Fits(e, s, srcRow) /\ AllMapped(e, s) /\ RootList(s)
    BY <1>2 DEF Showing
  <2>2. Hold(k, c, e)
    BY <2>1, HoldSet
  <2>3. Cuts(c, s, lo, hi)
    BY <2>1 DEF Cuts
  <2>4. \E f : Hold(u, c, f) /\ Fits(f, c, srcRow) /\ AllMapped(f, c)
    BY <2>1, <2>2, <2>3, RootsCut
  <2>5. RootList(c)
    BY <2>3, CutRoots
  <2> QED
    BY <1>2, <2>4, <2>5 DEF Showing
<1> QED
  BY <1>1, <1>2
=============================================================================
