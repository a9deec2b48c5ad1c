----------------------- MODULE SelectionModelsProofs -----------------------
(***************************************************************************)
(* Theorems about the links between selection models: a mapper that        *)
(* follows every change of a source model connects relatives, for any      *)
(* proxies on any sources, and so two linked selection models stay in      *)
(* step, whatever slots select in between.                                 *)
(***************************************************************************)
EXTENDS SelectionModels, FiniteSetTheorems, SequenceTheorems, WellFoundedInduction, TLAPS

----------------------------------------------------------------------------
(* The least of a set of numbers: the form of induction that is first-order. *)

LEMMA LeastExists ==
    ASSUME NEW S \in SUBSET Nat, S # {}
    PROVE  \E m \in S : \A n \in S : m <= n
<1> DEFINE R == OpToRel(<, Nat)
<1>1. IsWellFoundedOn(R, Nat)
  BY NatLessThanWellFounded
<1>2. R = {ss \in Nat \X Nat : ss[1] < ss[2]}
  BY DEF OpToRel
<1> HIDE DEF R
<1>3. PICK m \in S : \A n \in S : <<n, m>> \notin R
  BY <1>1, WFMin
<1>4. \A n \in S : ~(n < m)
  BY <1>2, <1>3
<1> QED
  BY <1>4

----------------------------------------------------------------------------
(* Paths.  Each model has a path P to a base when sources form no circle.   *)

Leads(src, P) ==
    /\ src \in [Proxies -> Models]
    /\ P \in [Models -> Seq(Proxies)]
    /\ \A x \in Bases : P[x] = <<>>
    /\ \A x \in Proxies : P[x] = <<x>> \o P[src[x]]

\* A path is longer than that of the source, by the proxy it begins with.
LEMMA PathLonger ==
    ASSUME NEW src, NEW P, Leads(src, P), NEW x \in Proxies
    PROVE  /\ x \in Models /\ src[x] \in Models /\ P[x] \in Seq(Proxies) /\ P[src[x]] \in Seq(Proxies)
           /\ Len(P[x]) = 1 + Len(P[src[x]]) /\ Len(P[src[x]]) \in Nat
           /\ P[x][1] = x
           /\ \A k \in Int : 1 <= k /\ k <= Len(P[src[x]]) => P[x][k + 1] = P[src[x]][k]
           /\ \A k \in Int : 1 < k /\ k <= Len(P[x]) => P[x][k] = P[src[x]][k - 1]
<1>1. x \in Models /\ src[x] \in Models /\ P[x] \in Seq(Proxies) /\ P[src[x]] \in Seq(Proxies)
  BY DEF Leads, Models
<1>2. P[x] = <<x>> \o P[src[x]] /\ <<x>> \in Seq(Proxies) /\ Len(<<x>>) = 1 /\ <<x>>[1] = x
  <2>1. P[x] = <<x>> \o P[src[x]]
    BY DEF Leads
  <2>2. <<x>> \in Seq(Proxies) /\ Len(<<x>>) = 1 /\ <<x>>[1] = x
    OBVIOUS
  <2> QED
    BY <2>1, <2>2
<1>3. Len(P[src[x]]) \in Nat
  BY <1>1
<1>4. /\ Len(P[x]) = 1 + Len(P[src[x]])
      /\ \A i \in 1 .. 1 + Len(P[src[x]]) : P[x][i] = IF i <= 1 THEN <<x>>[i] ELSE P[src[x]][i - 1]
  BY <1>1, <1>2, ConcatProperties
<1> QED
  BY <1>1, <1>2, <1>3, <1>4

\* What holds of the bases and carries over from a source to its proxy holds of all:
\* of models that are not so, one has a source that is.
LEMMA ModelsInduction ==
    ASSUME NEW src, NEW P, Leads(src, P), NEW bad \in SUBSET Models, bad \cap Bases = {},
           \A x \in bad : src[x] \in bad
    PROVE  bad = {}
<1> SUFFICES ASSUME bad # {} PROVE FALSE
  OBVIOUS
<1> DEFINE lengths == {Len(P[x]) : x \in bad}
<1>1. \A x \in bad : x \in Proxies /\ Len(P[x]) \in Nat
  BY DEF Leads, Models
<1>2. lengths \in SUBSET Nat /\ lengths # {}
  BY <1>1
<1> HIDE DEF lengths
<1>3. PICK n \in lengths : \A m \in lengths : n <= m
  BY <1>2, LeastExists
<1>4. PICK x \in bad : n = Len(P[x])
  BY <1>3 DEF lengths
<1>5. Len(P[x]) <= Len(P[src[x]])
  BY <1>3, <1>4 DEF lengths
<1>6. Len(P[x]) = 1 + Len(P[src[x]]) /\ Len(P[src[x]]) \in Nat
  BY <1>1, PathLonger
<1> QED
  BY <1>5, <1>6

----------------------------------------------------------------------------
(* The recursive functions of the mapper have solutions.                    *)

\* The functions themselves.
FromOf(src) ==
    LET from[x \in Models \cup {None}] == IF x \in Proxies THEN <<x>> \o from[src[x]] ELSE <<>>
    IN  from
ShownOf(src) ==
    LET shown[x \in Models \cup {None}] ==
            IF x \in Proxies THEN Filter[x] \cap shown[src[x]]
            ELSE IF x = None THEN {} ELSE Items
    IN  shown

\* The proxies from a model are its path.
LEMMA ProxiesFromIsPath ==
    ASSUME NEW src, NEW P, Leads(src, P)
    PROVE  \A x \in Models : ProxiesFrom(src, x) = P[x]
<1> DEFINE F == FromOf(src)
           D == Models \cup {None}
           f == [x \in D |-> IF x = None THEN <<>> ELSE P[x]]
           Climb(g) == [x \in D |-> IF x \in Proxies THEN <<x>> \o g[src[x]] ELSE <<>>]
<1>1. None \notin Models /\ Proxies \subseteq Models /\ Bases \subseteq Models /\ Models = Bases \cup Proxies
      /\ Bases \cap Proxies = {}
  BY MapperAssumption DEF Models
<1>2. f = Climb(f)
  <2>1. ASSUME NEW x \in D PROVE f[x] = Climb(f)[x]
    <3>1. CASE x \in Proxies
      BY <1>1, <3>1 DEF Leads
    <3>2. CASE x \in Bases
      BY <1>1, <3>2 DEF Leads
    <3>3. CASE x = None
      BY <1>1, <3>3
    <3> QED
      BY <1>1, <3>1, <3>2, <3>3
  <2> QED
    BY <2>1
<1>3. F = Climb(F)
  BY <1>2 DEF FromOf
<1>4. \A x \in Models : ProxiesFrom(src, x) = F[x]
  BY DEF ProxiesFrom, FromOf
<1>5. \A x \in Models : F[x] = IF x \in Proxies THEN <<x>> \o F[src[x]] ELSE <<>>
  <2> HIDE DEF F
  <2> QED
    BY <1>3
<1> HIDE DEF F
<1> DEFINE bad == {x \in Models : F[x] # P[x]}
<1>6. bad \cap Bases = {}
  BY <1>1, <1>5 DEF Leads
<1>7. ASSUME NEW x \in bad PROVE src[x] \in bad
  BY <1>1, <1>5, <1>6 DEF Leads
<1>8. bad = {}
  <2> HIDE DEF bad
  <2>1. bad \in SUBSET Models
    BY DEF bad
  <2> QED
    BY <1>6, <1>7, <2>1, ModelsInduction
<1> QED
  BY <1>4, <1>8

\* The items that pass the filters of the proxies in S.
Through(S) == {i \in Items : \A p \in S : i \in Filter[p]}

LEMMA ShownIs == \A x : Shown(x) = ShownOf(sourceModel)[x]
BY DEF Shown, ShownOf

LEMMA ShownUnfolds ==
    ASSUME NEW src, NEW P, Leads(src, P)
    PROVE  /\ \A x \in Bases : ShownOf(src)[x] = Items
           /\ \A x \in Proxies : ShownOf(src)[x] = Filter[x] \cap ShownOf(src)[src[x]]
           /\ \A x \in Models : ShownOf(src)[x] \subseteq Items
<1> DEFINE F == ShownOf(src)
           D == Models \cup {None}
           f == [x \in D |-> IF x = None THEN {} ELSE {i \in Items : \A k \in 1 .. Len(P[x]) : i \in Filter[P[x][k]]}]
           Climb(g) == [x \in D |-> IF x \in Proxies THEN Filter[x] \cap g[src[x]]
                                    ELSE IF x = None THEN {} ELSE Items]
<1>1. None \notin Models /\ Proxies \subseteq Models /\ Bases \subseteq Models /\ Models = Bases \cup Proxies
      /\ Bases \cap Proxies = {}
  BY MapperAssumption DEF Models
<1>2. f = Climb(f)
  <2>1. ASSUME NEW x \in D PROVE f[x] = Climb(f)[x]
    <3>1. CASE x \in Proxies
      <4>1. f[x] = {i \in Items : \A k \in 1 .. Len(P[x]) : i \in Filter[P[x][k]]}
        BY <1>1, <3>1
      <4>2. /\ src[x] \in Models
            /\ f[src[x]] = {i \in Items : \A k \in 1 .. Len(P[src[x]]) : i \in Filter[P[src[x]][k]]}
        BY <1>1, <3>1, PathLonger
      <4>3. Climb(f)[x] = Filter[x] \cap f[src[x]]
        BY <3>1
      <4> DEFINE n == Len(P[src[x]])
      <4>4. /\ n \in Nat /\ Len(P[x]) = n + 1 /\ P[x][1] = x
            /\ \A k \in Int : 1 <= k /\ k <= n => P[x][k + 1] = P[src[x]][k]
        BY <3>1, PathLonger
      <4> HIDE DEF n, f, Climb
      <4>5. ASSUME NEW i \in Items
            PROVE  (\A k \in 1 .. Len(P[x]) : i \in Filter[P[x][k]])
                   <=> i \in Filter[x] /\ \A k \in 1 .. n : i \in Filter[P[src[x]][k]]
        <5>1. ASSUME \A k \in 1 .. Len(P[x]) : i \in Filter[P[x][k]]
              PROVE  i \in Filter[x] /\ \A k \in 1 .. n : i \in Filter[P[src[x]][k]]
          <6>1. i \in Filter[x]
            BY <4>4, <5>1
          <6>2. ASSUME NEW k \in 1 .. n PROVE i \in Filter[P[src[x]][k]]
            <7>1. k + 1 \in 1 .. Len(P[x]) /\ P[x][k + 1] = P[src[x]][k]
              BY <4>4
            <7> QED
              BY <5>1, <7>1
          <6> QED
            BY <6>1, <6>2
        <5>2. ASSUME i \in Filter[x], \A k \in 1 .. n : i \in Filter[P[src[x]][k]],
                     NEW k \in 1 .. Len(P[x])
              PROVE  i \in Filter[P[x][k]]
          <6>1. CASE k = 1
            BY <4>4, <5>2, <6>1
          <6>2. CASE k # 1
            <7>1. k - 1 \in 1 .. n /\ P[x][(k - 1) + 1] = P[src[x]][k - 1] /\ (k - 1) + 1 = k
              BY <4>4, <6>2
            <7> QED
              BY <5>2, <7>1
          <6> QED
            BY <6>1, <6>2
        <5> QED
          BY <5>1, <5>2
      <4> QED
        BY <4>1, <4>2, <4>3, <4>5 DEF n
    <3>2. CASE x \in Bases
      <4>1. P[x] = <<>> /\ Len(<<>>) = 0
        BY <3>2 DEF Leads
      <4>2. f[x] = Items
        BY <1>1, <3>2, <4>1
      <4> QED
        BY <1>1, <3>2, <4>2
    <3>3. CASE x = None
      BY <1>1, <3>3
    <3> QED
      BY <1>1, <3>1, <3>2, <3>3
  <2> QED
    BY <2>1
<1>3. F = Climb(F)
  BY <1>2 DEF ShownOf
<1>4. \A x \in Models : ShownOf(src)[x] = F[x]
  OBVIOUS
<1>5. \A x \in Models : F[x] = IF x \in Proxies THEN Filter[x] \cap F[src[x]] ELSE Items
  <2> HIDE DEF F
  <2> QED
    BY <1>1, <1>3
<1> HIDE DEF F
<1>6. \A x \in Proxies : src[x] \in Models
  BY DEF Leads
<1>7. /\ \A x \in Bases : ShownOf(src)[x] = Items
      /\ \A x \in Proxies : ShownOf(src)[x] = Filter[x] \cap ShownOf(src)[src[x]]
  BY <1>1, <1>4, <1>5, <1>6
<1>8. \A x \in Models : ShownOf(src)[x] \subseteq Items
  <2>1. \A p \in Proxies : Filter[p] \subseteq Items
    BY MapperAssumption
  <2> QED
    BY <1>1, <1>7, <2>1
<1> QED
  BY <1>7, <1>8

----------------------------------------------------------------------------
(* Along a path.                                                            *)

LEMMA ToSetIs ==
    ASSUME NEW S, NEW s \in Seq(S)
    PROVE  /\ Seqs!ToSet(s) = {s[k] : k \in 1 .. Len(s)}
           /\ Seqs!ToSet(s) \subseteq S
BY DEF Seqs!ToSet

LEMMA InToSet ==
    ASSUME NEW S, NEW s \in Seq(S), NEW q
    PROVE  q \in Seqs!ToSet(s) <=> \E k \in Int : 1 <= k /\ k <= Len(s) /\ s[k] = q
<1>1. Len(s) \in Nat /\ \A k \in Int : k \in 1 .. Len(s) <=> 1 <= k /\ k <= Len(s)
  OBVIOUS
<1>2. q \in Seqs!ToSet(s) <=> \E k \in 1 .. Len(s) : s[k] = q
  BY ToSetIs
<1> QED
  BY <1>1, <1>2

\* Each proxy on a path has the next one as its source, and the last one a base.
LEMMA PathSteps ==
    ASSUME NEW src, NEW P, Leads(src, P), NEW x \in Models, NEW k \in Int, 1 <= k, k <= Len(P[x])
    PROVE  /\ P[x] \in Seq(Proxies) /\ P[x][k] \in Proxies
           /\ Len(P[P[x][k]]) = Len(P[x]) - k + 1
           /\ k < Len(P[x]) => src[P[x][k]] = P[x][k + 1]
           /\ k = Len(P[x]) => src[P[x][k]] \in Bases
<1> DEFINE good(y, n) == /\ P[y][n] \in Proxies
                         /\ Len(P[P[y][n]]) = Len(P[y]) - n + 1
                         /\ n < Len(P[y]) => src[P[y][n]] = P[y][n + 1]
                         /\ n = Len(P[y]) => src[P[y][n]] \in Bases
           bad == {y \in Models : \E n \in 1 .. Len(P[y]) : ~good(y, n)}
<1>1. /\ Models = Bases \cup Proxies /\ \A y \in Models : P[y] \in Seq(Proxies) /\ Len(P[y]) \in Nat
      /\ \A y \in Bases : Len(P[y]) = 0
  BY DEF Leads, Models
<1>2. bad \cap Bases = {}
  BY <1>1
<1>3. ASSUME NEW y \in bad PROVE src[y] \in bad
  <2>1. y \in Proxies
    BY <1>1, <1>2
  <2>2. PICK n \in 1 .. Len(P[y]) : ~good(y, n)
    OBVIOUS
  <2>3. /\ src[y] \in Models /\ Len(P[y]) = 1 + Len(P[src[y]]) /\ Len(P[src[y]]) \in Nat
        /\ P[y][1] = y
        /\ \A m \in Int : 1 <= m /\ m <= Len(P[src[y]]) => P[y][m + 1] = P[src[y]][m]
    BY <2>1, PathLonger
  <2>4. n # 1
    <3> SUFFICES ASSUME n = 1 PROVE good(y, 1)
      BY <2>2
    <3>1. src[y] \in Proxies => Len(P[src[y]]) >= 1 /\ P[src[y]][1] = src[y]
      <4> SUFFICES ASSUME src[y] \in Proxies PROVE Len(P[src[y]]) >= 1 /\ P[src[y]][1] = src[y]
        OBVIOUS
      <4>1. Len(P[src[y]]) = 1 + Len(P[src[src[y]]]) /\ Len(P[src[src[y]]]) \in Nat /\ P[src[y]][1] = src[y]
        BY PathLonger
      <4> QED
        BY <4>1
    <3>2. CASE src[y] \in Proxies
      <4>1. P[y][1 + 1] = P[src[y]][1]
        BY <2>3, <3>1, <3>2
      <4> QED
        BY <2>1, <2>3, <3>1, <3>2, <4>1
    <3>3. CASE src[y] \in Bases
      BY <1>1, <2>1, <2>3, <3>3
    <3> QED
      BY <1>1, <2>3, <3>2, <3>3
  <2>5. n - 1 \in 1 .. Len(P[src[y]]) /\ (n - 1) + 1 = n /\ P[y][n] = P[src[y]][n - 1]
    <3>1. n \in Int /\ 1 <= n - 1 /\ n - 1 <= Len(P[src[y]]) /\ n - 1 \in Int /\ (n - 1) + 1 = n
      BY <2>3, <2>4
    <3>2. P[y][(n - 1) + 1] = P[src[y]][n - 1]
      BY <2>3, <3>1
    <3> QED
      BY <2>3, <3>1, <3>2
  <2>6. n < Len(P[y]) => P[y][n + 1] = P[src[y]][n]
    <3> SUFFICES ASSUME n < Len(P[y]) PROVE P[y][n + 1] = P[src[y]][n]
      OBVIOUS
    <3>1. n \in Int /\ 1 <= n /\ n <= Len(P[src[y]])
      BY <2>3
    <3> QED
      BY <2>3, <3>1
  <2>7. good(src[y], n - 1) => good(y, n)
    <3> SUFFICES ASSUME good(src[y], n - 1) PROVE good(y, n)
      OBVIOUS
    <3>1. P[y][n] \in Proxies /\ Len(P[P[y][n]]) = Len(P[src[y]]) - (n - 1) + 1
      BY <2>5
    <3>2. n < Len(P[y]) => src[P[y][n]] = P[y][n + 1]
      BY <2>3, <2>5, <2>6
    <3>3. n = Len(P[y]) => src[P[y][n]] \in Bases
      BY <2>3, <2>5
    <3> QED
      BY <2>3, <3>1, <3>2, <3>3
  <2> QED
    BY <2>2, <2>3, <2>5, <2>7
<1>4. bad = {}
  <2> HIDE DEF bad
  <2>1. bad \in SUBSET Models
    BY DEF bad
  <2> QED
    BY <1>2, <1>3, <2>1, ModelsInduction
<1> QED
  BY <1>1, <1>4

\* The base that a path leads to.
Base(src, P, x) == IF P[x] = <<>> THEN x ELSE src[P[x][Len(P[x])]]

LEMMA BaseFollows ==
    ASSUME NEW src, NEW P, Leads(src, P)
    PROVE  /\ \A x \in Models : Base(src, P, x) \in Bases
           /\ \A x \in Proxies : Base(src, P, x) = Base(src, P, src[x])
<1>1. ASSUME NEW x \in Models PROVE Base(src, P, x) \in Bases
  <2>1. P[x] \in Seq(Proxies)
    BY DEF Leads
  <2>2. CASE P[x] = <<>>
    <3>1. x \notin Proxies
      <4> SUFFICES ASSUME x \in Proxies PROVE FALSE
        OBVIOUS
      <4>1. Len(P[x]) = 1 + Len(P[src[x]]) /\ Len(P[src[x]]) \in Nat
        BY PathLonger
      <4> QED
        BY <2>2, <4>1
    <3> QED
      BY <2>2, <3>1 DEF Base, Models
  <2>3. CASE P[x] # <<>>
    <3>1. Len(P[x]) \in Int /\ 1 <= Len(P[x])
      BY <2>1, <2>3
    <3>2. src[P[x][Len(P[x])]] \in Bases
      BY <3>1, PathSteps
    <3> QED
      BY <2>3, <3>2 DEF Base
  <2> QED
    BY <2>2, <2>3
<1>2. ASSUME NEW x \in Proxies PROVE Base(src, P, x) = Base(src, P, src[x])
  <2>1. /\ P[x] \in Seq(Proxies) /\ P[src[x]] \in Seq(Proxies)
        /\ Len(P[x]) = 1 + Len(P[src[x]]) /\ Len(P[src[x]]) \in Nat
        /\ P[x][1] = x
        /\ \A k \in Int : 1 <= k /\ k <= Len(P[src[x]]) => P[x][k + 1] = P[src[x]][k]
    BY PathLonger
  <2>2. P[x] # <<>>
    BY <2>1
  <2>3. CASE P[src[x]] = <<>>
    BY <2>1, <2>2, <2>3 DEF Base
  <2>4. CASE P[src[x]] # <<>>
    <3>1. 1 <= Len(P[src[x]])
      BY <2>1, <2>4
    <3>2. P[x][Len(P[x])] = P[src[x]][Len(P[src[x]])]
      <4> DEFINE k == Len(P[src[x]])
      <4>1. k \in Int /\ 1 <= k /\ Len(P[x]) = k + 1
        BY <2>1, <3>1
      <4>2. P[x][k + 1] = P[src[x]][k]
        BY <2>1, <4>1
      <4> QED
        BY <4>1, <4>2
    <3> QED
      BY <2>2, <2>4, <3>2 DEF Base
  <2> QED
    BY <2>3, <2>4
<1> QED
  BY <1>1, <1>2

\* All models that a model is made from have the same base.
LEMMA PathKeepsBase ==
    ASSUME NEW src, NEW P, Leads(src, P), NEW x \in Models, NEW k \in Int, 1 <= k, k <= Len(P[x])
    PROVE  Base(src, P, P[x][k]) = Base(src, P, x)
<1> DEFINE bad == {y \in Models : \E n \in 1 .. Len(P[y]) : Base(src, P, P[y][n]) # Base(src, P, y)}
<1>1. /\ Models = Bases \cup Proxies /\ \A y \in Models : P[y] \in Seq(Proxies) /\ Len(P[y]) \in Nat
      /\ \A y \in Bases : Len(P[y]) = 0
  BY DEF Leads, Models
<1>2. bad \cap Bases = {}
  BY <1>1
<1>3. ASSUME NEW y \in bad PROVE src[y] \in bad
  <2>1. y \in Proxies
    BY <1>1, <1>2
  <2>2. PICK n \in 1 .. Len(P[y]) : Base(src, P, P[y][n]) # Base(src, P, y)
    OBVIOUS
  <2>3. /\ src[y] \in Models /\ Len(P[y]) = 1 + Len(P[src[y]]) /\ Len(P[src[y]]) \in Nat
        /\ P[y][1] = y
        /\ \A m \in Int : 1 <= m /\ m <= Len(P[src[y]]) => P[y][m + 1] = P[src[y]][m]
    BY <2>1, PathLonger
  <2>4. n - 1 \in 1 .. Len(P[src[y]]) /\ P[y][n] = P[src[y]][n - 1]
    <3>1. n \in Int /\ n # 1
      BY <2>2, <2>3
    <3>2. 1 <= n - 1 /\ n - 1 <= Len(P[src[y]]) /\ n - 1 \in Int /\ (n - 1) + 1 = n
      BY <2>3, <3>1
    <3>3. P[y][(n - 1) + 1] = P[src[y]][n - 1]
      BY <2>3, <3>2
    <3> QED
      BY <3>2, <3>3
  <2>5. Base(src, P, src[y]) = Base(src, P, y)
    BY <2>1, BaseFollows
  <2> QED
    BY <2>2, <2>3, <2>4, <2>5
<1>4. bad = {}
  <2> HIDE DEF bad
  <2>1. bad \in SUBSET Models
    BY DEF bad
  <2> QED
    BY <1>2, <1>3, <2>1, ModelsInduction
<1> QED
  BY <1>1, <1>4

\* Upwards of a model are the model and the sources along its path.
LEMMA UpwardsAlong ==
    ASSUME NEW src, NEW P, Leads(src, P), NEW x \in Models
    PROVE  /\ Upwards(src, x) = {x} \cup {src[P[x][k]] : k \in 1 .. Len(P[x])}
           /\ Upwards(src, x) \subseteq Models
           /\ \A y \in Upwards(src, x) : Base(src, P, y) = Base(src, P, x)
           /\ Base(src, P, x) \in Upwards(src, x)
<1>1. P[x] \in Seq(Proxies) /\ Len(P[x]) \in Nat
  BY DEF Leads
<1>2. Upwards(src, x) = {x} \cup {src[P[x][k]] : k \in 1 .. Len(P[x])}
  <2>1. ProxiesFrom(src, x) = P[x]
    BY ProxiesFromIsPath
  <2>2. Seqs!ToSet(P[x]) = {P[x][k] : k \in 1 .. Len(P[x])}
    BY <1>1, ToSetIs
  <2>3. {src[p] : p \in {P[x][k] : k \in 1 .. Len(P[x])}} = {src[P[x][k]] : k \in 1 .. Len(P[x])}
    OBVIOUS
  <2> QED
    <3>1. Upwards(src, x) = {x} \cup {src[p] : p \in Seqs!ToSet(ProxiesFrom(src, x))}
      BY DEF Upwards
    <3>2. Upwards(src, x) = {x} \cup {src[p] : p \in {P[x][k] : k \in 1 .. Len(P[x])}}
      BY <2>1, <2>2, <3>1
    <3> QED
      BY <2>3, <3>2
<1>3. ASSUME NEW k \in 1 .. Len(P[x])
      PROVE  src[P[x][k]] \in Models /\ Base(src, P, src[P[x][k]]) = Base(src, P, x)
  <2>1. k \in Int /\ 1 <= k /\ k <= Len(P[x])
    BY <1>1
  <2>2. P[x][k] \in Proxies /\ Base(src, P, P[x][k]) = Base(src, P, x)
    BY <2>1, PathSteps, PathKeepsBase
  <2> QED
    BY <2>2, BaseFollows DEF Leads
<1>4. Base(src, P, x) \in Upwards(src, x)
  <2>1. CASE P[x] = <<>>
    BY <1>2, <2>1 DEF Base
  <2>2. CASE P[x] # <<>>
    <3>1. Len(P[x]) \in 1 .. Len(P[x])
      BY <1>1, <2>2
    <3> QED
      BY <1>2, <2>2, <3>1 DEF Base
  <2> QED
    BY <2>1, <2>2
<1> QED
  BY <1>2, <1>3, <1>4

----------------------------------------------------------------------------
(* Chains.                                                                  *)

LEMMA ConcatToSet ==
    ASSUME NEW S, NEW s \in Seq(S), NEW t \in Seq(S)
    PROVE  Seqs!ToSet(s) \cup Seqs!ToSet(t) \subseteq Seqs!ToSet(s \o t)
<1>1. /\ s \o t \in Seq(S) /\ Len(s \o t) = Len(s) + Len(t) /\ Len(s) \in Nat /\ Len(t) \in Nat
      /\ \A i \in 1 .. Len(s) + Len(t) : (s \o t)[i] = IF i <= Len(s) THEN s[i] ELSE t[i - Len(s)]
  BY ConcatProperties
<1>2. /\ Seqs!ToSet(s) = {s[k] : k \in 1 .. Len(s)} /\ Seqs!ToSet(t) = {t[k] : k \in 1 .. Len(t)}
      /\ Seqs!ToSet(s \o t) = {(s \o t)[k] : k \in 1 .. Len(s \o t)}
  BY <1>1, ToSetIs
<1>3. ASSUME NEW k \in 1 .. Len(s) PROVE s[k] \in Seqs!ToSet(s \o t)
  <2>1. k \in 1 .. Len(s \o t) /\ (s \o t)[k] = s[k]
    BY <1>1
  <2> QED
    BY <1>2, <2>1
<1>4. ASSUME NEW k \in 1 .. Len(t) PROVE t[k] \in Seqs!ToSet(s \o t)
  <2>1. k \in Int /\ Len(s) + k \in 1 .. Len(s) + Len(t) /\ ~(Len(s) + k <= Len(s)) /\ (Len(s) + k) - Len(s) = k
    BY <1>1
  <2>2. (s \o t)[Len(s) + k] = t[k]
    BY <1>1, <2>1
  <2> QED
    BY <1>1, <1>2, <2>1, <2>2
<1> QED
  BY <1>2, <1>3, <1>4

LEMMA ReverseIs ==
    ASSUME NEW S, NEW s \in Seq(S)
    PROVE  /\ Seqs!Reverse(s) \in Seq(S) /\ Len(Seqs!Reverse(s)) = Len(s)
           /\ Seqs!Reverse(s) = <<>> <=> s = <<>>
           /\ s # <<>> => Seqs!Reverse(s)[1] = s[Len(s)]
           /\ Seqs!ToSet(Seqs!Reverse(s)) = Seqs!ToSet(s)
<1> DEFINE r == Seqs!Reverse(s)
<1>1. Len(s) \in Nat /\ r = [i \in 1 .. Len(s) |-> s[(Len(s) - i) + 1]]
  BY DEF Seqs!Reverse
<1>2. \A i \in 1 .. Len(s) : (Len(s) - i) + 1 \in 1 .. Len(s) /\ s[(Len(s) - i) + 1] \in S
  <2>1. \A i \in 1 .. Len(s) : (Len(s) - i) + 1 \in 1 .. Len(s)
    BY <1>1
  <2>2. \A i \in 1 .. Len(s) : s[i] \in S
    OBVIOUS
  <2> QED
    BY <2>1, <2>2
<1> HIDE DEF r
<1>3. r \in [1 .. Len(s) -> S]
  BY <1>1, <1>2
<1>4. r \in Seq(S) /\ Len(r) = Len(s)
  BY <1>1, <1>3, IsASeq
<1>5. r = <<>> <=> s = <<>>
  BY <1>1, <1>4, EmptySeq
<1>6. ASSUME s # <<>> PROVE r[1] = s[Len(s)]
  <2>1. 1 \in 1 .. Len(s) /\ (Len(s) - 1) + 1 = Len(s)
    BY <1>1, <1>6, EmptySeq
  <2> QED
    BY <1>1, <2>1
<1>7. Seqs!ToSet(r) = Seqs!ToSet(s)
  <2>1. Seqs!ToSet(r) = {r[k] : k \in 1 .. Len(s)} /\ Seqs!ToSet(s) = {s[k] : k \in 1 .. Len(s)}
    BY <1>4, ToSetIs
  <2>2. ASSUME NEW k \in 1 .. Len(s) PROVE r[k] \in Seqs!ToSet(s) /\ s[k] \in Seqs!ToSet(r)
    <3>1. k \in Int /\ (Len(s) - k) + 1 \in 1 .. Len(s) /\ (Len(s) - ((Len(s) - k) + 1)) + 1 = k
      BY <1>1
    <3>2. r[k] = s[(Len(s) - k) + 1] /\ r[(Len(s) - k) + 1] = s[k]
      BY <1>1, <3>1
    <3> QED
      BY <2>1, <3>1, <3>2
  <2> QED
    BY <2>1, <2>2
<1> QED
  BY <1>4, <1>5, <1>6, <1>7 DEF r

LEMMA PositionIs ==
    ASSUME NEW S, NEW s \in Seq(S), NEW p
    PROVE  IF p \in Seqs!ToSet(s)
           THEN Position(s, p) \in Int /\ 1 <= Position(s, p) /\ Position(s, p) <= Len(s) /\ s[Position(s, p)] = p
           ELSE Position(s, p) = 0
<1>1. Len(s) \in Nat /\ DOMAIN s = 1 .. Len(s) /\ Seqs!ToSet(s) = {s[k] : k \in 1 .. Len(s)}
  BY ToSetIs
<1>2. ASSUME p \in Seqs!ToSet(s)
      PROVE  Position(s, p) \in 1 .. Len(s) /\ s[Position(s, p)] = p
  <2>1. \E k \in DOMAIN s : s[k] = p
    BY <1>1, <1>2
  <2>2. Position(s, p) = CHOOSE k \in DOMAIN s : s[k] = p
    BY <1>2 DEF Position
  <2> QED
    BY <1>1, <2>1, <2>2
<1> QED
  BY <1>1, <1>2 DEF Position

\* The proxies s lead from the model a to x.
WayUp(src, s, a, x) ==
    /\ s \in Seq(Proxies)
    /\ IF s = <<>> THEN x = a ELSE s[1] = a /\ src[s[Len(s)]] = x
    /\ \A k \in Int : 1 <= k /\ k < Len(s) => src[s[k]] = s[k + 1]

LEMMA PathIsWay ==
    ASSUME NEW src, NEW P, Leads(src, P), NEW a \in Models
    PROVE  WayUp(src, P[a], a, Base(src, P, a))
<1>1. P[a] \in Seq(Proxies) /\ Len(P[a]) \in Nat
  BY DEF Leads
<1>2. \A k \in Int : 1 <= k /\ k < Len(P[a]) => src[P[a][k]] = P[a][k + 1]
  BY <1>1, PathSteps
<1>3. ASSUME P[a] # <<>> PROVE P[a][1] = a
  <2>1. a \in Proxies
    BY <1>3 DEF Leads, Models
  <2> QED
    BY <2>1, PathLonger
<1> QED
  BY <1>1, <1>2, <1>3 DEF WayUp, Base

LEMMA PrefixIsWay ==
    ASSUME NEW src, NEW P, Leads(src, P), NEW a \in Models, NEW n \in Int, 0 <= n, n < Len(P[a])
    PROVE  /\ WayUp(src, SubSeq(P[a], 1, n), a, P[a][n + 1])
           /\ P[a][n + 1] \in Models
<1> DEFINE s == SubSeq(P[a], 1, n)
<1>1. P[a] \in Seq(Proxies) /\ Len(P[a]) \in Nat
  BY DEF Leads
<1>2. P[a][1] = a
  <2>1. a \in Proxies
    BY <1>1 DEF Leads, Models
  <2> QED
    BY <2>1, PathLonger
<1>3. \A i \in 1 .. n : P[a][i] \in Proxies
  BY <1>1
<1>4. /\ s \in Seq(Proxies) /\ Len(s) = n
      /\ \A i \in 1 .. n : s[i] = P[a][i]
  <2>1. /\ s \in Seq(Proxies) /\ Len(s) = IF 1 <= n THEN n - 1 + 1 ELSE 0
        /\ \A i \in 1 .. n - 1 + 1 : s[i] = P[a][1 + i - 1]
    BY <1>3, SubSeqProperties
  <2>2. \A i \in 1 .. n : 1 + i - 1 = i /\ i \in 1 .. n - 1 + 1
    OBVIOUS
  <2> QED
    BY <2>1, <2>2
<1> HIDE DEF s
<1>5. \A k \in Int : 1 <= k /\ k <= n => src[P[a][k]] = P[a][k + 1]
  BY <1>1, PathSteps
<1>6. ASSUME NEW k \in Int, 1 <= k, k < Len(s) PROVE src[s[k]] = s[k + 1]
  <2>1. k \in 1 .. n /\ k + 1 \in 1 .. n
    BY <1>4, <1>6
  <2> QED
    BY <1>4, <1>5, <2>1
<1>7. IF s = <<>> THEN P[a][n + 1] = a ELSE s[1] = a /\ src[s[Len(s)]] = P[a][n + 1]
  <2>1. CASE s = <<>>
    BY <1>2, <1>4, <2>1, EmptySeq
  <2>2. CASE s # <<>>
    <3>1. 1 <= n /\ 1 \in 1 .. n /\ n \in 1 .. n
      BY <1>4, <2>2, EmptySeq
    <3> QED
      BY <1>2, <1>4, <1>5, <2>2, <3>1
  <2> QED
    BY <2>1, <2>2
<1>8. n + 1 \in 1 .. Len(P[a])
  BY <1>1
<1>9. P[a][n + 1] \in Models
  BY <1>1, <1>8 DEF Models
<1> QED
  BY <1>4, <1>6, <1>7, <1>9 DEF WayUp, s

\* Along a way: what carries over from a proxy to the one before it.
LEMMA WayInduction ==
    ASSUME NEW n \in Nat, NEW bad \in SUBSET (1 .. n), \A k \in bad : k + 1 \in bad
    PROVE  bad = {}
<1> SUFFICES ASSUME bad # {} PROVE FALSE
  OBVIOUS
<1> DEFINE rest == {n - k : k \in bad}
<1>1. rest \in SUBSET Nat /\ rest # {}
  <2>1. \A k \in bad : n - k \in Nat
    OBVIOUS
  <2> QED
    BY <2>1
<1> HIDE DEF rest
<1>2. PICK m \in rest : \A l \in rest : m <= l
  BY <1>1, LeastExists
<1>3. PICK k \in bad : m = n - k
  BY <1>2 DEF rest
<1>4. n - k <= n - (k + 1)
  BY <1>2, <1>3 DEF rest
<1> QED
  BY <1>3, <1>4

LEMMA WayKeepsBase ==
    ASSUME NEW src, NEW P, Leads(src, P), NEW a \in Models, NEW x \in Models, NEW s, WayUp(src, s, a, x)
    PROVE  Base(src, P, a) = Base(src, P, x)
<1>1. s \in Seq(Proxies) /\ Len(s) \in Nat
  BY DEF WayUp
<1> DEFINE bad == {k \in 1 .. Len(s) : Base(src, P, s[k]) # Base(src, P, x)}
<1>2. ASSUME NEW k \in bad PROVE k + 1 \in bad
  <2>1. s[k] \in Proxies /\ k \in Int /\ 1 <= k /\ k <= Len(s)
    BY <1>1
  <2>2. Base(src, P, s[k]) = Base(src, P, src[s[k]])
    BY <2>1, BaseFollows
  <2>3. s # <<>>
    BY <1>1, <2>1
  <2>4. k # Len(s)
    BY <2>2, <2>3 DEF WayUp
  <2>5. k + 1 \in 1 .. Len(s) /\ src[s[k]] = s[k + 1]
    BY <1>1, <2>1, <2>4 DEF WayUp
  <2> QED
    BY <2>2, <2>5
<1>3. bad = {}
  <2> HIDE DEF bad
  <2>1. bad \in SUBSET (1 .. Len(s))
    BY DEF bad
  <2> QED
    BY <1>1, <1>2, <2>1, WayInduction
<1>4. CASE s = <<>>
  BY <1>4 DEF WayUp
<1>5. CASE s # <<>>
  <2>1. 1 \in 1 .. Len(s) /\ s[1] = a
    BY <1>1, <1>5 DEF WayUp
  <2> QED
    BY <1>3, <2>1
<1> QED
  BY <1>4, <1>5

\* A model shows what passes the proxies on the way.
LEMMA WayShown ==
    ASSUME NEW src, NEW P, Leads(src, P), NEW a \in Models, NEW x \in Models, NEW s, WayUp(src, s, a, x)
    PROVE  ShownOf(src)[a] = {i \in ShownOf(src)[x] : \A p \in Seqs!ToSet(s) : i \in Filter[p]}
<1>1. s \in Seq(Proxies) /\ Len(s) \in Nat /\ Seqs!ToSet(s) = {s[k] : k \in 1 .. Len(s)}
  BY ToSetIs DEF WayUp
<1> DEFINE bad == {k \in 1 .. Len(s) :
                      ShownOf(src)[s[k]] # {i \in ShownOf(src)[x] : \A j \in k .. Len(s) : i \in Filter[s[j]]}}
<1>2. ASSUME NEW k \in bad PROVE k + 1 \in bad
  <2>1. s[k] \in Proxies /\ k \in Int /\ 1 <= k /\ k <= Len(s)
    BY <1>1
  <2>2. ShownOf(src)[s[k]] = Filter[s[k]] \cap ShownOf(src)[src[s[k]]]
    BY <2>1, ShownUnfolds
  <2>3. s # <<>>
    BY <1>1, <2>1
  <2>4. k # Len(s)
    <3> SUFFICES ASSUME k = Len(s) PROVE FALSE
      OBVIOUS
    <3>1. src[s[k]] = x
      BY <2>3 DEF WayUp
    <3>2. k .. Len(s) = {k}
      BY <2>1
    <3> QED
      BY <2>2, <3>1, <3>2
  <2>5. k + 1 \in 1 .. Len(s) /\ src[s[k]] = s[k + 1]
    BY <1>1, <2>1, <2>4 DEF WayUp
  <2>6. k .. Len(s) = {k} \cup (k + 1) .. Len(s)
    BY <1>1, <2>1
  <2>7. ASSUME ShownOf(src)[s[k + 1]] = {i \in ShownOf(src)[x] : \A j \in (k + 1) .. Len(s) : i \in Filter[s[j]]}
        PROVE  ShownOf(src)[s[k]] = {i \in ShownOf(src)[x] : \A j \in k .. Len(s) : i \in Filter[s[j]]}
    BY <2>2, <2>5, <2>6, <2>7
  <2> QED
    BY <2>5, <2>7
<1>3. bad = {}
  <2> HIDE DEF bad
  <2>1. bad \in SUBSET (1 .. Len(s))
    BY DEF bad
  <2> QED
    BY <1>1, <1>2, <2>1, WayInduction
<1>4. CASE s = <<>>
  <2>1. Seqs!ToSet(s) = {}
    BY <1>1, <1>4
  <2> QED
    BY <1>4, <2>1 DEF WayUp
<1>5. CASE s # <<>>
  <2>1. 1 \in 1 .. Len(s) /\ s[1] = a
    BY <1>1, <1>5 DEF WayUp
  <2>2. ShownOf(src)[a] = {i \in ShownOf(src)[x] : \A j \in 1 .. Len(s) : i \in Filter[s[j]]}
    BY <1>3, <2>1
  <2> QED
    BY <1>1, <2>2
<1> QED
  BY <1>4, <1>5

\* The chains lead from both models to one that both are made from.
Meeting(src, up, down, left, right, heard) ==
    \E x \in Models, t \in Seq(Proxies) :
        /\ down = Seqs!Reverse(t)
        /\ WayUp(src, up, left, x) /\ WayUp(src, t, right, x)
        /\ Seqs!ToSet(up) \subseteq heard /\ Seqs!ToSet(t) \subseteq heard

\* The models are made from different bases.
Apart(src, P, left, right, heard) ==
    /\ Base(src, P, left) # Base(src, P, right)
    /\ Seqs!ToSet(P[left]) \subseteq heard /\ Seqs!ToSet(P[right]) \subseteq heard

\* checkConnected compares where the chains lead to.
LEMMA ConnectedWhereWaysMeet ==
    ASSUME NEW src, NEW left \in Models, NEW right \in Models, NEW x \in Models, NEW y \in Models,
           NEW t, NEW c, c.down = Seqs!Reverse(t), WayUp(src, c.up, left, x), WayUp(src, t, right, y)
    PROVE  isConnected(src, left, right, c) = (x = y)
<1>1. t \in Seq(Proxies) /\ (c.down = <<>> <=> t = <<>>) /\ (t # <<>> => c.down[1] = t[Len(t)])
  BY ReverseIs DEF WayUp
<1>2. (IF c.up = <<>> THEN left ELSE src[c.up[Len(c.up)]]) = x
  BY DEF WayUp
<1>3. (IF c.down = <<>> THEN right ELSE src[c.down[1]]) = y
  BY <1>1 DEF WayUp
<1>4. y # None
  BY MapperAssumption
<1> QED
  BY <1>2, <1>3, <1>4 DEF isConnected

\* createProxyChain finds a common source when there is one, and listens to all it has
\* looked at.
LEMMA ChainsMeet ==
    ASSUME NEW src, NEW P, Leads(src, P), NEW left \in Models, NEW right \in Models
    PROVE  LET c == Chains(src, left, right)
           IN  /\ isConnected(src, left, right, c) \in BOOLEAN
               /\ isConnected(src, left, right, c) => Meeting(src, c.up, c.down, left, right, c.heard)
               /\ ~isConnected(src, left, right, c) => Apart(src, P, left, right, c.heard)
<1> DEFINE below == P[right]
           above == P[left]
           meets == {j \in 1 .. Len(above) - 1 : Position(below, above[j + 1]) > 0}
           jj == CHOOSE n \in meets : \A k \in meets : n <= k
           downTo(n) == Seqs!Reverse(SubSeq(below, 1, n - 1))
           leftAt == Position(below, left)
           c == Chains(src, left, right)
           Goal == /\ isConnected(src, left, right, c) \in BOOLEAN
                   /\ isConnected(src, left, right, c) => Meeting(src, c.up, c.down, left, right, c.heard)
                   /\ ~isConnected(src, left, right, c) => Apart(src, P, left, right, c.heard)
<1>1. ProxiesFrom(src, right) = below /\ ProxiesFrom(src, left) = above
  BY ProxiesFromIsPath
<1>2. /\ below \in Seq(Proxies) /\ Len(below) \in Nat /\ above \in Seq(Proxies) /\ Len(above) \in Nat
  BY DEF Leads
<1>3. c = IF leftAt > 1
          THEN [up |-> <<>>, down |-> downTo(leftAt), heard |-> Seqs!ToSet(downTo(leftAt))]
          ELSE IF meets # {}
          THEN [up |-> SubSeq(above, 1, jj), down |-> downTo(Position(below, above[jj + 1])),
                heard |-> Seqs!ToSet(below \o SubSeq(above, 1, jj))]
          ELSE [up |-> above, down |-> Seqs!Reverse(below), heard |-> Seqs!ToSet(below \o above)]
  BY <1>1 DEF Chains
<1> SUFFICES Goal
  OBVIOUS
<1> HIDE DEF c
<1>4. ASSUME NEW x \in Models, NEW t, c.down = Seqs!Reverse(t), WayUp(src, c.up, left, x), WayUp(src, t, right, x),
             Seqs!ToSet(c.up) \subseteq c.heard, Seqs!ToSet(t) \subseteq c.heard
      PROVE  Goal
  <2>1. isConnected(src, left, right, c) = TRUE
    BY <1>4, ConnectedWhereWaysMeet
  <2>2. Meeting(src, c.up, c.down, left, right, c.heard)
    BY <1>4 DEF Meeting, WayUp
  <2> QED
    BY <2>1, <2>2
<1> HIDE DEF Goal
<1>5. CASE leftAt > 1
  <2>1. /\ leftAt \in Int /\ leftAt <= Len(below) /\ below[leftAt] = left
    BY <1>2, <1>5, PositionIs
  <2> DEFINE t == SubSeq(below, 1, leftAt - 1)
  <2>2. WayUp(src, t, right, left)
    <3>1. leftAt - 1 \in Int /\ 0 <= leftAt - 1 /\ leftAt - 1 < Len(below) /\ (leftAt - 1) + 1 = leftAt
      BY <1>2, <1>5, <2>1
    <3>2. WayUp(src, SubSeq(below, 1, leftAt - 1), right, below[(leftAt - 1) + 1])
      BY <3>1, PrefixIsWay
    <3> QED
      BY <2>1, <3>1, <3>2
  <2>3. c.up = <<>> /\ c.down = Seqs!Reverse(t) /\ c.heard = Seqs!ToSet(Seqs!Reverse(t))
    BY <1>3, <1>5
  <2> HIDE DEF t
  <2>4. WayUp(src, <<>>, left, left)
    BY EmptySeq DEF WayUp
  <2>5. Seqs!ToSet(t) = c.heard
    BY <2>2, <2>3, ReverseIs DEF WayUp
  <2>6. Seqs!ToSet(c.up) = {}
    BY <2>3 DEF Seqs!ToSet
  <2>7. WayUp(src, c.up, left, left)
    BY <2>3, <2>4
  <2>8. c.down = Seqs!Reverse(t)
    BY <2>3
  <2>9. Seqs!ToSet(c.up) \subseteq c.heard /\ Seqs!ToSet(t) \subseteq c.heard
    BY <2>5, <2>6
  <2> QED
    BY <1>4, <2>2, <2>7, <2>8, <2>9
<1>6. CASE ~(leftAt > 1) /\ meets # {}
  <2>1. jj \in meets
    <3>1. meets \in SUBSET Nat
      BY <1>2
    <3> HIDE DEF meets
    <3>2. \E n \in meets : \A k \in meets : n <= k
      BY <1>6, <3>1, LeastExists
    <3> QED
      BY <3>2
  <2> DEFINE up == SubSeq(above, 1, jj)
             x == above[jj + 1]
             at == Position(below, x)
             t == SubSeq(below, 1, at - 1)
  <2>2. jj \in Int /\ 0 <= jj /\ jj < Len(above) /\ at > 0
    BY <1>2, <2>1
  <2>3. c.up = up /\ c.down = Seqs!Reverse(t) /\ c.heard = Seqs!ToSet(below \o up)
    BY <1>3, <1>6
  <2> HIDE DEF jj
  <2>4. WayUp(src, up, left, x) /\ x \in Models
    BY <2>2, PrefixIsWay
  <2> HIDE DEF x, up
  <2>5. at \in Int /\ 1 <= at /\ at <= Len(below) /\ below[at] = x
    BY <1>2, <2>2, PositionIs
  <2> HIDE DEF at
  <2>6. WayUp(src, t, right, x)
    <3>1. at - 1 \in Int /\ 0 <= at - 1 /\ at - 1 < Len(below) /\ (at - 1) + 1 = at
      BY <1>2, <2>5
    <3>2. WayUp(src, SubSeq(below, 1, at - 1), right, below[(at - 1) + 1])
      BY <3>1, PrefixIsWay
    <3> QED
      BY <2>5, <3>1, <3>2
  <2>7. Seqs!ToSet(up) \subseteq c.heard /\ Seqs!ToSet(below) \subseteq c.heard
    <3>1. up \in Seq(Proxies)
      BY <2>4 DEF WayUp
    <3> QED
      BY <1>2, <2>3, <3>1, ConcatToSet
  <2>8. Seqs!ToSet(t) \subseteq Seqs!ToSet(below)
    <3>1. \A k \in 1 .. at - 1 : k \in 1 .. Len(below) /\ below[k] \in Proxies
      BY <1>2, <2>5
    <3>2. t \in Seq(Proxies) /\ Len(t) = (IF 1 <= at - 1 THEN (at - 1) - 1 + 1 ELSE 0)
          /\ \A k \in 1 .. (at - 1) - 1 + 1 : t[k] = below[1 + k - 1]
      BY <2>5, <3>1, SubSeqProperties
    <3> HIDE DEF t
    <3>3. ASSUME NEW k \in 1 .. Len(t) PROVE t[k] \in Seqs!ToSet(below)
      <4>1. k \in Int /\ k \in 1 .. (at - 1) - 1 + 1 /\ 1 + k - 1 = k /\ k \in 1 .. Len(below)
        BY <1>2, <2>5, <3>2
      <4>2. t[k] = below[k]
        BY <3>2, <4>1
      <4> QED
        BY <1>2, <4>1, <4>2, ToSetIs
    <3> QED
      BY <3>2, <3>3, ToSetIs
  <2> HIDE DEF t
  <2>9. WayUp(src, c.up, left, x) /\ Seqs!ToSet(c.up) \subseteq c.heard /\ Seqs!ToSet(t) \subseteq c.heard
    BY <2>3, <2>4, <2>7, <2>8
  <2>10. c.down = Seqs!Reverse(t) /\ x \in Models
    BY <2>3, <2>4
  <2> QED
    BY <1>4, <2>6, <2>9, <2>10
<1>7. CASE ~(leftAt > 1) /\ meets = {}
  <2>1. c.up = above /\ c.down = Seqs!Reverse(below) /\ c.heard = Seqs!ToSet(below \o above)
    BY <1>3, <1>7
  <2> DEFINE x == Base(src, P, left)
             y == Base(src, P, right)
  <2>2. WayUp(src, c.up, left, x) /\ WayUp(src, below, right, y)
    BY <2>1, PathIsWay
  <2>3. x \in Models /\ y \in Models
    BY BaseFollows DEF Models
  <2>4. Seqs!ToSet(above) \subseteq c.heard /\ Seqs!ToSet(below) \subseteq c.heard
    BY <1>2, <2>1, ConcatToSet
  <2>5. CASE x = y
    <3>1. WayUp(src, below, right, x) /\ Seqs!ToSet(c.up) \subseteq c.heard /\ c.down = Seqs!Reverse(below)
      BY <2>1, <2>2, <2>4, <2>5
    <3> HIDE DEF x
    <3> QED
      BY <1>4, <2>2, <2>3, <2>4, <3>1
  <2>6. CASE x # y
    <3>1. isConnected(src, left, right, c) = (x = y)
      BY <2>1, <2>2, <2>3, ConnectedWhereWaysMeet
    <3>2. Apart(src, P, left, right, c.heard)
      BY <2>4, <2>6 DEF Apart
    <3> QED
      BY <2>6, <3>1, <3>2 DEF Goal
  <2> QED
    BY <2>5, <2>6
<1>8. Goal
  <2> HIDE DEF leftAt, meets
  <2> QED
    BY <1>5, <1>6, <1>7
<1> QED
  BY <1>8 DEF c, Goal

----------------------------------------------------------------------------
(* Source models change.                                                    *)

\* A proxy gets a source that is not made from it: the paths through it go on with that
\* of the new source, and the others stay.
NewPath(P, p, m, x) ==
    IF p \in Seqs!ToSet(P[x]) THEN SubSeq(P[x], 1, Len(P[x]) - Len(P[p]) + 1) \o P[m] ELSE P[x]

LEMMA ChangeKeepsPaths ==
    ASSUME NEW src, NEW P, Leads(src, P), NEW p \in Proxies, NEW m \in Models,
           p \notin Seqs!ToSet(P[m])
    PROVE  LET Q == [x \in Models |-> NewPath(P, p, m, x)]
           IN  /\ Leads([src EXCEPT ![p] = m], Q)
               /\ \A x \in Models : p \notin Seqs!ToSet(P[x]) => Q[x] = P[x]
<1> DEFINE new == [src EXCEPT ![p] = m]
           Q == [x \in Models |-> NewPath(P, p, m, x)]
<1>1. /\ Models = Bases \cup Proxies /\ src \in [Proxies -> Models]
      /\ \A x \in Models : P[x] \in Seq(Proxies) /\ Len(P[x]) \in Nat
  BY DEF Leads, Models
<1>2. new \in [Proxies -> Models] /\ new[p] = m /\ \A q \in Proxies : q # p => new[q] = src[q]
  BY <1>1
<1>3. \A x \in Models : p \notin Seqs!ToSet(P[x]) => Q[x] = P[x]
  BY DEF NewPath
<1>4. ASSUME NEW x \in Bases PROVE Q[x] = <<>>
  <2>1. P[x] = <<>> /\ Seqs!ToSet(<<>>) = {}
    BY DEF Leads, Seqs!ToSet
  <2> QED
    BY <1>1, <1>3, <2>1
<1>5. ASSUME NEW x \in Models, p \in Seqs!ToSet(P[x])
      PROVE  /\ Len(P[x]) - Len(P[p]) + 1 \in Nat /\ 1 <= Len(P[x]) - Len(P[p]) + 1
             /\ Len(P[x]) - Len(P[p]) + 1 <= Len(P[x])
             /\ P[x][Len(P[x]) - Len(P[p]) + 1] = p
  <2>1. PICK k \in Int : 1 <= k /\ k <= Len(P[x]) /\ P[x][k] = p
    BY <1>1, <1>5, InToSet
  <2>1a. k \in Int /\ 1 <= k /\ k <= Len(P[x])
    BY <2>1
  <2>2. Len(P[P[x][k]]) = Len(P[x]) - k + 1
    BY <2>1a, PathSteps
  <2>3. Len(P[p]) = Len(P[x]) - k + 1 /\ Len(P[x]) \in Nat
    BY <1>1, <2>1, <2>2
  <2>4. Len(P[x]) - Len(P[p]) + 1 = k
    BY <2>3
  <2> QED
    BY <2>1, <2>3, <2>4
<1>6. ASSUME NEW x \in Models PROVE Q[x] \in Seq(Proxies)
  <2>1. CASE p \notin Seqs!ToSet(P[x])
    BY <1>1, <1>3, <2>1
  <2>2. CASE p \in Seqs!ToSet(P[x])
    <3> DEFINE n == Len(P[x]) - Len(P[p]) + 1
    <3>0. Len(P[x]) - Len(P[p]) + 1 \in Nat /\ Len(P[x]) - Len(P[p]) + 1 <= Len(P[x])
      BY <1>5, <2>2
    <3>1. n \in Int /\ n <= Len(P[x])
      BY <3>0
    <3> HIDE DEF n
    <3>1a. \A k \in 1 .. n : k \in 1 .. Len(P[x]) /\ P[x][k] \in Proxies
      BY <1>1, <3>1
    <3>2. SubSeq(P[x], 1, n) \in Seq(Proxies)
      BY <3>1, <3>1a, SubSeqProperties
    <3> QED
      BY <1>1, <2>2, <3>2, ConcatProperties DEF NewPath, n
  <2> QED
    BY <2>1, <2>2
<1>7. ASSUME NEW x \in Proxies PROVE Q[x] = <<x>> \o Q[new[x]]
  <2>1. /\ x \in Models /\ src[x] \in Models
        /\ Len(P[x]) = 1 + Len(P[src[x]]) /\ Len(P[src[x]]) \in Nat /\ P[x][1] = x
        /\ \A k \in Int : 1 <= k /\ k <= Len(P[src[x]]) => P[x][k + 1] = P[src[x]][k]
        /\ \A k \in Int : 1 < k /\ k <= Len(P[x]) => P[x][k] = P[src[x]][k - 1]
    BY PathLonger
  <2>2. CASE x = p
    <3>1. p \in Seqs!ToSet(P[p])
      <4>1. 1 <= Len(P[p]) /\ P[p][1] = p /\ P[p] \in Seq(Proxies)
        BY <1>1, <2>1, <2>2
      <4> QED
        BY <4>1, InToSet
    <3>2. Q[p] = SubSeq(P[p], 1, 1) \o P[m]
      <4>1. Len(P[p]) - Len(P[p]) + 1 = 1
        BY <2>1, <2>2
      <4> QED
        BY <2>1, <2>2, <3>1, <4>1 DEF NewPath
    <3>3. SubSeq(P[p], 1, 1) = <<p>>
      <4>1. \A k \in 1 .. 1 : P[p][k] \in Proxies
        BY <2>1, <2>2
      <4>2. /\ SubSeq(P[p], 1, 1) \in Seq(Proxies) /\ Len(SubSeq(P[p], 1, 1)) = 1
            /\ \A k \in 1 .. 1 - 1 + 1 : SubSeq(P[p], 1, 1)[k] = P[p][1 + k - 1]
        BY <4>1, SubSeqProperties
      <4>3. SubSeq(P[p], 1, 1)[1] = p
        BY <2>1, <2>2, <4>2
      <4>4. <<p>> \in Seq(Proxies) /\ Len(<<p>>) = 1 /\ <<p>>[1] = p
        OBVIOUS
      <4>5. \A k \in 1 .. Len(SubSeq(P[p], 1, 1)) : SubSeq(P[p], 1, 1)[k] = <<p>>[k]
        BY <4>2, <4>3, <4>4
      <4> QED
        BY <4>2, <4>4, <4>5, SeqEqual
    <3>4. Q[m] = P[m]
      BY <1>3
    <3> QED
      BY <1>2, <2>2, <3>2, <3>3, <3>4
  <2>3. CASE x # p
    <3>1. new[x] = src[x] /\ P[x] = <<x>> \o P[src[x]]
      BY <1>2, <2>3 DEF Leads
    <3>2. p \in Seqs!ToSet(P[x]) <=> p \in Seqs!ToSet(P[src[x]])
      <4>1. ASSUME p \in Seqs!ToSet(P[src[x]]) PROVE p \in Seqs!ToSet(P[x])
        <5>1. PICK k \in Int : 1 <= k /\ k <= Len(P[src[x]]) /\ P[src[x]][k] = p
          <6>1. P[src[x]] \in Seq(Proxies)
            BY <1>1, <2>1
          <6> QED
            BY <4>1, <6>1, InToSet
        <5> DEFINE l == k + 1
        <5>2. l \in Int /\ 1 <= l /\ l <= Len(P[x]) /\ P[x][l] = p
          <6>1. l \in Int /\ 1 < l /\ l <= Len(P[x]) /\ l - 1 = k
            BY <2>1, <5>1
          <6> HIDE DEF l
          <6>2. P[x][l] = P[src[x]][l - 1]
            BY <2>1, <6>1
          <6> QED
            BY <5>1, <6>1, <6>2
        <5> HIDE DEF l
        <5> QED
          BY <1>1, <2>1, <5>2, InToSet
      <4>2. ASSUME p \in Seqs!ToSet(P[x]) PROVE p \in Seqs!ToSet(P[src[x]])
        <5>1. PICK k \in Int : 1 <= k /\ k <= Len(P[x]) /\ P[x][k] = p
          BY <1>1, <2>1, <4>2, InToSet
        <5>2. k \in Int /\ k # 1 /\ 1 <= k - 1 /\ k - 1 <= Len(P[src[x]]) /\ 1 < k
          BY <2>1, <2>3, <5>1
        <5>3. P[x][k] = P[src[x]][k - 1]
          BY <2>1, <5>1, <5>2
        <5>4. k - 1 \in Int /\ P[src[x]][k - 1] = p
          BY <5>1, <5>2, <5>3
        <5> QED
          BY <1>1, <2>1, <5>2, <5>4, InToSet
      <4> QED
        BY <4>1, <4>2
    <3>3. CASE p \notin Seqs!ToSet(P[x])
      BY <1>3, <2>1, <3>1, <3>2, <3>3
    <3>4. CASE p \in Seqs!ToSet(P[x])
      <4> DEFINE y == src[x]
                 n == Len(P[y]) - Len(P[p]) + 1
                 s == SubSeq(P[y], 1, n)
      <4>1. n \in Nat /\ 1 <= n /\ n <= Len(P[y]) /\ Len(P[x]) - Len(P[p]) + 1 = n + 1
        <5>1. p \in Models /\ Len(P[p]) \in Nat
          BY <1>1
        <5>2. n \in Nat /\ 1 <= n /\ n <= Len(P[y])
          BY <1>5, <2>1, <3>2, <3>4
        <5> QED
          BY <2>1, <5>1, <5>2
      <4>2. Q[x] = SubSeq(P[x], 1, n + 1) \o P[m] /\ Q[y] = s \o P[m]
        BY <2>1, <3>2, <3>4, <4>1 DEF NewPath
      <4> HIDE DEF n
      <4>3. /\ s \in Seq(Proxies) /\ Len(s) = n
            /\ \A k \in 1 .. n : s[k] = P[y][k]
        <5>1. \A k \in 1 .. n : P[y][k] \in Proxies
          BY <1>1, <2>1, <4>1
        <5>2. s \in Seq(Proxies) /\ Len(s) = (IF 1 <= n THEN n - 1 + 1 ELSE 0)
              /\ \A k \in 1 .. n - 1 + 1 : s[k] = P[y][1 + k - 1]
          BY <4>1, <5>1, SubSeqProperties
        <5>3. \A k \in 1 .. n : k \in 1 .. n - 1 + 1 /\ 1 + k - 1 = k
          BY <4>1
        <5> QED
          BY <4>1, <5>2, <5>3
      <4> DEFINE r == SubSeq(P[x], 1, n + 1)
      <4>4. /\ r \in Seq(Proxies) /\ Len(r) = n + 1
            /\ \A k \in 1 .. n + 1 : r[k] = P[x][k]
        <5>1. n + 1 \in Int /\ \A k \in 1 .. n + 1 : P[x][k] \in Proxies
          BY <1>1, <2>1, <4>1
        <5>2. r \in Seq(Proxies) /\ Len(r) = (IF 1 <= n + 1 THEN (n + 1) - 1 + 1 ELSE 0)
              /\ \A k \in 1 .. (n + 1) - 1 + 1 : r[k] = P[x][1 + k - 1]
          BY <5>1, SubSeqProperties
        <5>3. \A k \in 1 .. n + 1 : k \in 1 .. (n + 1) - 1 + 1 /\ 1 + k - 1 = k
          BY <4>1
        <5> QED
          BY <4>1, <5>2, <5>3
      <4> HIDE DEF r, s
      <4>5. r = <<x>> \o s
        <5>1. <<x>> \in Seq(Proxies) /\ Len(<<x>>) = 1 /\ <<x>>[1] = x
          OBVIOUS
        <5>2. /\ <<x>> \o s \in Seq(Proxies) /\ Len(<<x>> \o s) = 1 + n
              /\ \A k \in 1 .. 1 + n : (<<x>> \o s)[k] = IF k <= 1 THEN <<x>>[k] ELSE s[k - 1]
          BY <4>1, <4>3, <5>1, ConcatProperties
        <5>3. ASSUME NEW k \in 1 .. n + 1 PROVE r[k] = (<<x>> \o s)[k]
          <6>1. CASE k = 1
            BY <2>1, <4>1, <4>4, <5>1, <5>2, <6>1
          <6>2. CASE k # 1
            <7>1. k \in Int /\ k - 1 \in 1 .. n /\ ~(k <= 1) /\ k \in 1 .. 1 + n
                  /\ 1 <= k - 1 /\ k - 1 <= Len(P[y]) /\ (k - 1) + 1 = k
              BY <2>1, <4>1, <6>2
            <7>2. (<<x>> \o s)[k] = P[y][k - 1]
              <8>1. (<<x>> \o s)[k] = s[k - 1]
                BY <5>2, <7>1
              <8>2. s[k - 1] = P[y][k - 1]
                BY <4>3, <7>1
              <8> QED
                BY <8>1, <8>2
            <7>3. P[x][k] = P[y][k - 1]
              <8>1. 1 < k /\ k <= Len(P[x])
                BY <2>1, <7>1
              <8> QED
                BY <2>1, <7>1, <8>1
            <7> QED
              BY <4>4, <7>1, <7>2, <7>3
          <6> QED
            BY <6>1, <6>2
        <5> QED
          BY <4>1, <4>4, <5>2, <5>3, SeqEqual
      <4>6. Q[x] = (<<x>> \o s) \o P[m] /\ Q[y] = s \o P[m]
        BY <4>2, <4>5 DEF r
      <4>7. (<<x>> \o s) \o P[m] = <<x>> \o (s \o P[m])
        <5>1. <<x>> \in Seq(Proxies) /\ P[m] \in Seq(Proxies)
          BY <1>1
        <5>2. s \in Seq(Proxies)
          BY <4>3
        <5> DEFINE e == <<x>>
                   u == P[m]
        <5> HIDE DEF e, u
        <5>3. e \in Seq(Proxies) /\ u \in Seq(Proxies)
          BY <5>1 DEF e, u
        <5>4. (e \o s) \o u = e \o (s \o u)
          BY <5>2, <5>3, ConcatAssociative
        <5> QED
          BY <5>4 DEF e, u
      <4> QED
        BY <3>1, <4>6, <4>7
    <3> QED
      BY <3>3, <3>4
  <2> QED
    BY <2>2, <2>3
<1>8. Q \in [Models -> Seq(Proxies)]
  BY <1>6
<1> HIDE DEF Q
<1>9. Leads(new, Q)
  BY <1>2, <1>4, <1>7, <1>8 DEF Leads
<1> QED
  BY <1>3, <1>9 DEF Q

----------------------------------------------------------------------------
(* The mapper.                                                              *)

\* The mapper listens to every proxy that its chains, or the lack of them, rest on.
MapperInv ==
    \E P : /\ Leads(sourceModel, P)
           /\ m_leftModel = None => listened = {}
           /\ m_leftModel # None =>
                 /\ m_leftModel \in Models /\ m_rightModel \in Models /\ mConnected \in BOOLEAN
                 /\ mConnected =>
                       Meeting(sourceModel, m_proxyChainUp, m_proxyChainDown, m_leftModel, m_rightModel, listened)
                 /\ ~mConnected => Apart(sourceModel, P, m_leftModel, m_rightModel, listened)

\* The items of S that pass the filters of a chain.
Passing(chain, S) == {i \in S : \A p \in Seqs!ToSet(chain) : i \in Filter[p]}

\* Where the chains meet, what passes them is what both models show.
LEMMA MeetingMaps ==
    ASSUME NEW src, NEW P, Leads(src, P), NEW left \in Models, NEW right \in Models, NEW up, NEW down, NEW heard,
           Meeting(src, up, down, left, right, heard)
    PROVE  /\ \A S \in SUBSET ShownOf(src)[left] : Passing(down, S) = S \cap ShownOf(src)[right]
           /\ \A S \in SUBSET ShownOf(src)[right] : Passing(up, S) = S \cap ShownOf(src)[left]
<1>1. PICK x \in Models, t \in Seq(Proxies) :
          down = Seqs!Reverse(t) /\ WayUp(src, up, left, x) /\ WayUp(src, t, right, x)
  BY DEF Meeting
<1> DEFINE sh == ShownOf(src)
           ups == Seqs!ToSet(up)
           downs == Seqs!ToSet(down)
<1>2. sh[left] = {i \in sh[x] : \A p \in ups : i \in Filter[p]}
  BY <1>1, WayShown
<1>3. sh[right] = {i \in sh[x] : \A p \in downs : i \in Filter[p]}
  <2>1. downs = Seqs!ToSet(t)
    BY <1>1, ReverseIs
  <2>2. sh[right] = {i \in sh[x] : \A p \in Seqs!ToSet(t) : i \in Filter[p]}
    BY <1>1, WayShown
  <2> QED
    BY <2>1, <2>2
<1>4. \A S : /\ Passing(down, S) = {i \in S : \A p \in downs : i \in Filter[p]}
             /\ Passing(up, S) = {i \in S : \A p \in ups : i \in Filter[p]}
  BY DEF Passing
<1> HIDE DEF sh, ups, downs
<1>5. ASSUME NEW S \in SUBSET sh[left] PROVE Passing(down, S) = S \cap sh[right]
  <2>1. Passing(down, S) = {i \in S : \A p \in downs : i \in Filter[p]}
    BY <1>4
  <2> QED
    BY <1>2, <1>3, <2>1
<1>6. ASSUME NEW S \in SUBSET sh[right] PROVE Passing(up, S) = S \cap sh[left]
  <2>1. Passing(up, S) = {i \in S : \A p \in ups : i \in Filter[p]}
    BY <1>4
  <2> QED
    BY <1>2, <1>3, <2>1
<1> QED
  BY <1>5, <1>6 DEF sh

\* An item of one model that the other shows is mapped to it, and no other one.
LEMMA MapsWhatBothShow ==
    ASSUME MapperInv, m_leftModel # None, mConnected
    PROVE  /\ \A S \in SUBSET ShownOf(sourceModel)[m_leftModel] :
                 mapSelectionLeftToRight(S) = S \cap ShownOf(sourceModel)[m_rightModel]
           /\ \A S \in SUBSET ShownOf(sourceModel)[m_rightModel] :
                 mapSelectionRightToLeft(S) = S \cap ShownOf(sourceModel)[m_leftModel]
<1>1. PICK P : /\ Leads(sourceModel, P) /\ m_leftModel \in Models /\ m_rightModel \in Models
               /\ Meeting(sourceModel, m_proxyChainUp, m_proxyChainDown, m_leftModel, m_rightModel, listened)
  BY DEF MapperInv
<1>2. \A S : /\ mapSelectionLeftToRight(S) = Passing(m_proxyChainDown, S)
             /\ mapSelectionRightToLeft(S) = Passing(m_proxyChainUp, S)
  BY DEF mapSelectionLeftToRight, mapSelectionRightToLeft, Passes, Passing
<1> QED
  BY <1>1, <1>2, MeetingMaps

LEMMA MapperInvConnects == ASSUME MapperInv PROVE ConnectsRelatives
<1> SUFFICES ASSUME m_leftModel # None
             PROVE  LET common == (Upwards(sourceModel, m_leftModel) \cap Upwards(sourceModel, m_rightModel)) \ {None}
                        both == Shown(m_leftModel) \cap Shown(m_rightModel)
                    IN  /\ mConnected = (common # {})
                        /\ mConnected => /\ mapSelectionLeftToRight(Shown(m_leftModel)) = both
                                         /\ mapSelectionRightToLeft(Shown(m_rightModel)) = both
  BY DEF ConnectsRelatives
<1>1. PICK P : /\ Leads(sourceModel, P) /\ m_leftModel \in Models /\ m_rightModel \in Models /\ mConnected \in BOOLEAN
               /\ mConnected => Meeting(sourceModel, m_proxyChainUp, m_proxyChainDown, m_leftModel, m_rightModel, listened)
               /\ ~mConnected => Apart(sourceModel, P, m_leftModel, m_rightModel, listened)
  BY DEF MapperInv
<1> DEFINE common == (Upwards(sourceModel, m_leftModel) \cap Upwards(sourceModel, m_rightModel)) \ {None}
           L == Base(sourceModel, P, m_leftModel)
           R == Base(sourceModel, P, m_rightModel)
<1>2. /\ L \in Upwards(sourceModel, m_leftModel) /\ R \in Upwards(sourceModel, m_rightModel)
      /\ \A y \in Upwards(sourceModel, m_leftModel) : Base(sourceModel, P, y) = L
      /\ \A y \in Upwards(sourceModel, m_rightModel) : Base(sourceModel, P, y) = R
  BY <1>1, UpwardsAlong
<1>3. L # None
  BY <1>1, BaseFollows, MapperAssumption DEF Models
<1>4. ASSUME mConnected PROVE L = R
  <2>1. PICK x \in Models, t \in Seq(Proxies) :
            WayUp(sourceModel, m_proxyChainUp, m_leftModel, x) /\ WayUp(sourceModel, t, m_rightModel, x)
    BY <1>1, <1>4 DEF Meeting
  <2>2. L = Base(sourceModel, P, x) /\ R = Base(sourceModel, P, x)
    BY <1>1, <2>1, WayKeepsBase
  <2> QED
    BY <2>2
<1>5. ASSUME ~mConnected PROVE L # R
  BY <1>1, <1>5 DEF Apart
<1>6. mConnected = (common # {})
  <2> HIDE DEF L, R
  <2> QED
    BY <1>1, <1>2, <1>3, <1>4, <1>5
<1>7. ASSUME mConnected
      PROVE  /\ mapSelectionLeftToRight(Shown(m_leftModel)) = Shown(m_leftModel) \cap Shown(m_rightModel)
             /\ mapSelectionRightToLeft(Shown(m_rightModel)) = Shown(m_leftModel) \cap Shown(m_rightModel)
  <2> DEFINE A == ShownOf(sourceModel)[m_leftModel]
             B == ShownOf(sourceModel)[m_rightModel]
  <2>1. mapSelectionLeftToRight(A) = A \cap B /\ mapSelectionRightToLeft(B) = B \cap A
    BY <1>7, MapsWhatBothShow
  <2>2. Shown(m_leftModel) = A /\ Shown(m_rightModel) = B
    BY ShownIs
  <2> QED
    BY <2>1, <2>2
<1> QED
  BY <1>6, <1>7

\* A mapper made for two models, whatever it listened to before.
LEMMA CreateMakesMapperInv ==
    ASSUME NEW P, Leads(sourceModel', P), NEW left \in Models, NEW right \in Models, NEW old,
           createProxyChain(sourceModel', left, right, old)
    PROVE  MapperInv'
<1> DEFINE src == sourceModel'
           c == Chains(src, left, right)
<1>1. /\ m_leftModel' = left /\ m_rightModel' = right
      /\ m_proxyChainUp' = c.up /\ m_proxyChainDown' = c.down
      /\ mConnected' = isConnected(src, left, right, c)
      /\ c.heard \subseteq listened'
  <2> HIDE DEF src
  <2>1. createProxyChain(src, left, right, old)
    BY DEF src
  <2> QED
    BY <2>1 DEF createProxyChain
<1>2. /\ isConnected(src, left, right, c) \in BOOLEAN
      /\ isConnected(src, left, right, c) => Meeting(src, c.up, c.down, left, right, c.heard)
      /\ ~isConnected(src, left, right, c) => Apart(src, P, left, right, c.heard)
  BY ChainsMeet
<1> HIDE DEF src, c
<1>3. left # None
  BY MapperAssumption
<1>4. ASSUME mConnected' PROVE Meeting(src, c.up, c.down, left, right, listened')
  <2>1. Meeting(src, c.up, c.down, left, right, c.heard)
    BY <1>1, <1>2, <1>4
  <2> QED
    BY <1>1, <2>1 DEF Meeting
<1>5. ASSUME ~mConnected' PROVE Apart(src, P, left, right, listened')
  <2>1. Apart(src, P, left, right, c.heard)
    BY <1>1, <1>2, <1>5
  <2> QED
    BY <1>1, <2>1 DEF Apart
<1>6. mConnected' \in BOOLEAN
  BY <1>1, <1>2
<1>7. Leads(src, P)
  BY DEF src
<1> QED
  BY <1>1, <1>3, <1>4, <1>5, <1>6, <1>7 DEF MapperInv, src

LEMMA ChangeKeepsMapperInv ==
    ASSUME MapperInv, NEW p \in Proxies, NEW m \in Models, ChangeSource(p, m)
    PROVE  MapperInv'
<1>1. PICK P : /\ Leads(sourceModel, P)
               /\ m_leftModel = None => listened = {}
               /\ m_leftModel # None =>
                     /\ m_leftModel \in Models /\ m_rightModel \in Models /\ mConnected \in BOOLEAN
                     /\ mConnected =>
                           Meeting(sourceModel, m_proxyChainUp, m_proxyChainDown, m_leftModel, m_rightModel, listened)
                     /\ ~mConnected => Apart(sourceModel, P, m_leftModel, m_rightModel, listened)
  BY DEF MapperInv
<1>2. p \notin Seqs!ToSet(P[m]) /\ sourceModel' = [sourceModel EXCEPT ![p] = m]
  <2>1. ProxiesFrom(sourceModel, m) = P[m]
    BY <1>1, ProxiesFromIsPath
  <2> QED
    BY <2>1 DEF ChangeSource
<1> DEFINE Q == [x \in Models |-> NewPath(P, p, m, x)]
<1>3. Leads(sourceModel', Q) /\ \A x \in Models : p \notin Seqs!ToSet(P[x]) => Q[x] = P[x]
  <2>1. /\ Leads([sourceModel EXCEPT ![p] = m], Q)
        /\ \A x \in Models : p \notin Seqs!ToSet(P[x]) => Q[x] = P[x]
    <3>1. Leads(sourceModel, P) /\ p \notin Seqs!ToSet(P[m])
      BY <1>1, <1>2
    <3> QED
      BY <3>1, ChangeKeepsPaths
  <2> QED
    BY <1>2, <2>1
<1> HIDE DEF Q
<1>4. CASE p \in listened
  <2>1. createProxyChain(sourceModel', m_leftModel, m_rightModel,
                         Proxies \ Seqs!ToSet(m_proxyChainUp \o m_proxyChainDown))
    BY <1>4 DEF ChangeSource
  <2>2. m_leftModel \in Models /\ m_rightModel \in Models
    BY <1>1, <1>4
  <2> QED
    BY <1>3, <2>1, <2>2, CreateMakesMapperInv
<1>5. CASE p \notin listened
  <2>1. UNCHANGED <<m_leftModel, m_rightModel, m_proxyChainUp, m_proxyChainDown, mConnected, listened>>
    BY <1>5 DEF ChangeSource, mapperVars
  <2>2. \A q \in Proxies : q # p => sourceModel'[q] = sourceModel[q]
    BY <1>1, <1>2 DEF Leads
  <2>3. ASSUME NEW s, NEW a, NEW x, WayUp(sourceModel, s, a, x), Seqs!ToSet(s) \subseteq listened
        PROVE  WayUp(sourceModel', s, a, x)
    <3>1. s \in Seq(Proxies) /\ Len(s) \in Nat
      BY <2>3 DEF WayUp
    <3>2. \A k \in 1 .. Len(s) : s[k] \in Proxies /\ s[k] # p
      BY <1>5, <2>3, <3>1, ToSetIs
    <3>3. \A k \in 1 .. Len(s) : sourceModel'[s[k]] = sourceModel[s[k]]
      BY <2>2, <3>2
    <3>4. s # <<>> => Len(s) \in 1 .. Len(s)
      BY <3>1, EmptySeq
    <3>5. \A k \in Int : 1 <= k /\ k < Len(s) => k \in 1 .. Len(s)
      BY <3>1
    <3> QED
      BY <2>3, <3>3, <3>4, <3>5 DEF WayUp
  <2>4. ASSUME m_leftModel # None, mConnected
        PROVE  Meeting(sourceModel', m_proxyChainUp, m_proxyChainDown, m_leftModel, m_rightModel, listened)
    BY <1>1, <2>3, <2>4 DEF Meeting
  <2>5. ASSUME NEW x \in Models, Seqs!ToSet(P[x]) \subseteq listened
        PROVE  Q[x] = P[x] /\ Base(sourceModel', Q, x) = Base(sourceModel, P, x)
    <3>1. Q[x] = P[x]
      BY <1>3, <1>5, <2>5
    <3>2. P[x] # <<>> => P[x][Len(P[x])] \in Seqs!ToSet(P[x]) /\ P[x][Len(P[x])] \in Proxies
      <4>1. P[x] \in Seq(Proxies) /\ Len(P[x]) \in Nat
        BY <1>1 DEF Leads
      <4>2. P[x] # <<>> => Len(P[x]) \in 1 .. Len(P[x])
        BY <4>1, EmptySeq
      <4> QED
        BY <4>1, <4>2, ToSetIs
    <3>3. P[x] # <<>> => sourceModel'[P[x][Len(P[x])]] = sourceModel[P[x][Len(P[x])]]
      BY <1>5, <2>2, <2>5, <3>2
    <3> QED
      BY <3>1, <3>3 DEF Base
  <2>6. ASSUME m_leftModel # None, ~mConnected
        PROVE  Apart(sourceModel', Q, m_leftModel, m_rightModel, listened)
    <3>1. Apart(sourceModel, P, m_leftModel, m_rightModel, listened) /\ m_leftModel \in Models /\ m_rightModel \in Models
      BY <1>1, <2>6
    <3> QED
      BY <2>5, <3>1 DEF Apart
  <2> QED
    BY <1>1, <1>3, <2>1, <2>4, <2>6 DEF MapperInv
<1> QED
  BY <1>4, <1>5

LEMMA NoMapperMakesMapperInv ==
    ASSUME MapperInv, NoMapper, UNCHANGED sourceModel
    PROVE  MapperInv'
BY DEF MapperInv, NoMapper

----------------------------------------------------------------------------
(* Calls under way.                                                         *)

LEMMA Push ==
    ASSUME NEW S, NEW c \in S, NEW s \in Seq(S)
    PROVE  /\ <<c>> \o s \in Seq(S) /\ <<c>> \o s # <<>> /\ (<<c>> \o s)[1] = c
           /\ Len(<<c>> \o s) = 1 + Len(s)
           /\ Seqs!ToSet(<<c>> \o s) = {c} \cup Seqs!ToSet(s)
<1> DEFINE e == <<c>>
           r == e \o s
<1>1. e \in Seq(S) /\ Len(e) = 1 /\ e[1] = c /\ Len(s) \in Nat
  OBVIOUS
<1>2. /\ r \in Seq(S) /\ Len(r) = 1 + Len(s)
      /\ \A i \in 1 .. 1 + Len(s) : r[i] = IF i <= 1 THEN e[i] ELSE s[i - 1]
  <2> HIDE DEF e
  <2>1. /\ r \in Seq(S) /\ Len(r) = Len(e) + Len(s)
        /\ \A i \in 1 .. Len(e) + Len(s) : r[i] = IF i <= Len(e) THEN e[i] ELSE s[i - Len(e)]
    BY <1>1, ConcatProperties
  <2> HIDE DEF r
  <2> QED
    BY <1>1, <2>1
<1> HIDE DEF e, r
<1>3. r[1] = c
  <2>1. 1 \in 1 .. 1 + Len(s)
    BY <1>1
  <2> QED
    BY <1>1, <1>2, <2>1
<1>4. \A i \in Int : 1 < i /\ i <= Len(r) => r[i] = s[i - 1]
  <2> TAKE i \in Int
  <2> HAVE 1 < i /\ i <= Len(r)
  <2>1. i \in 1 .. 1 + Len(s) /\ ~(i <= 1)
    BY <1>1, <1>2
  <2> QED
    BY <1>2, <2>1
<1>5. ASSUME NEW q, q \in Seqs!ToSet(r) PROVE q \in {c} \cup Seqs!ToSet(s)
  <2>1. PICK i \in Int : 1 <= i /\ i <= Len(r) /\ r[i] = q
    BY <1>2, <1>5, InToSet
  <2>2. CASE i = 1
    BY <1>3, <2>1, <2>2
  <2>3. CASE i # 1
    <3>1. r[i] = s[i - 1] /\ i - 1 \in Int /\ 1 <= i - 1 /\ i - 1 <= Len(s)
      BY <1>1, <1>2, <1>4, <2>1, <2>3
    <3> QED
      BY <2>1, <3>1, InToSet
  <2> QED
    BY <2>2, <2>3
<1>6. ASSUME NEW q, q \in Seqs!ToSet(s) PROVE q \in Seqs!ToSet(r)
  <2>1. PICK i \in Int : 1 <= i /\ i <= Len(s) /\ s[i] = q
    BY <1>6, InToSet
  <2> DEFINE l == i + 1
  <2>2. l \in Int /\ 1 < l /\ 1 <= l /\ l <= Len(r) /\ l - 1 = i
    BY <1>1, <1>2, <2>1
  <2> HIDE DEF l
  <2>3. r[l] = q
    BY <1>4, <2>1, <2>2
  <2> QED
    BY <1>2, <2>2, <2>3, InToSet
<1>7. c \in Seqs!ToSet(r)
  <2>1. 1 \in Int /\ 1 <= 1 /\ 1 <= Len(r)
    BY <1>1, <1>2
  <2> QED
    BY <1>2, <1>3, <2>1, InToSet
<1>8. r # <<>>
  BY <1>1, <1>2, EmptySeq
<1> QED
  BY <1>2, <1>3, <1>5, <1>6, <1>7, <1>8 DEF r, e

LEMMA Pop ==
    ASSUME NEW S, NEW s \in Seq(S), s # <<>>
    PROVE  /\ Head(s) = s[1] /\ s[1] \in S /\ Tail(s) \in Seq(S)
           /\ Seqs!ToSet(s) = {s[1]} \cup Seqs!ToSet(Tail(s))
           /\ Len(s) = 1 => Tail(s) = <<>>
<1> DEFINE t == Tail(s)
<1>1. /\ Len(s) \in Nat /\ Len(s) >= 1
      /\ Head(s) = s[1] /\ s[1] \in S
      /\ t \in Seq(S) /\ Len(t) = Len(s) - 1
      /\ \A i \in 1 .. Len(s) - 1 : t[i] = s[i + 1]
  <2>1. Len(s) \in Nat /\ Len(s) >= 1
    BY EmptySeq
  <2> QED
    BY <2>1
<1> HIDE DEF t
<1>2. Len(s) = 1 => t = <<>>
  BY <1>1, EmptySeq
<1>3. ASSUME NEW q, q \in Seqs!ToSet(s) PROVE q \in {s[1]} \cup Seqs!ToSet(t)
  <2>1. PICK i \in Int : 1 <= i /\ i <= Len(s) /\ s[i] = q
    BY <1>3, InToSet
  <2>2. CASE i = 1
    BY <2>1, <2>2
  <2>3. CASE i # 1
    <3> DEFINE l == i - 1
    <3>1. l \in Int /\ 1 <= l /\ l <= Len(t) /\ l \in 1 .. Len(s) - 1 /\ l + 1 = i
      BY <1>1, <2>1, <2>3
    <3> HIDE DEF l
    <3>2. t[l] = q
      BY <1>1, <2>1, <3>1
    <3> QED
      BY <1>1, <3>1, <3>2, InToSet
  <2> QED
    BY <2>2, <2>3
<1>4. ASSUME NEW q, q \in Seqs!ToSet(t) PROVE q \in Seqs!ToSet(s)
  <2>1. PICK i \in Int : 1 <= i /\ i <= Len(t) /\ t[i] = q
    BY <1>1, <1>4, InToSet
  <2>2. i \in 1 .. Len(s) - 1
    BY <1>1, <2>1
  <2> DEFINE l == i + 1
  <2>3. l \in Int /\ 1 <= l /\ l <= Len(s)
    BY <1>1, <2>1
  <2>4. s[l] = q
    BY <1>1, <2>1, <2>2
  <2> HIDE DEF l
  <2> QED
    BY <2>3, <2>4, InToSet
<1>5. s[1] \in Seqs!ToSet(s)
  <2>1. 1 \in Int /\ 1 <= 1 /\ 1 <= Len(s)
    BY <1>1
  <2> QED
    BY <2>1, InToSet
<1> QED
  BY <1>1, <1>2, <1>3, <1>4, <1>5 DEF t

----------------------------------------------------------------------------
(* The link.                                                                *)

Flags == {"Select", "Deselect", "Toggle", "ClearAndSelect", "Clear"}
Selections == {Link} \cup Others
Calls == [tells : BOOLEAN, items : SUBSET Items, command : Flags, ends : BOOLEAN,
          off : SUBSET Items, on : SUBSET Items]

\* What the models of the link and of the linked model show.
LeftShown == ShownOf(sourceModel)[modelOf[Link]]
RightShown == ShownOf(sourceModel)[modelOf[linked]]

\* A call selects what the link's model shows; it has reached the linked model or not.
WellMade(c, left) ==
    /\ c.items \subseteq left /\ c.off \subseteq left /\ c.on \subseteq left
    /\ IF c.tells THEN c.items = {} /\ c.command = "Select" ELSE c.off = {} /\ c.on = {}

LinkTypes ==
    /\ modelOf \in [Selections -> Models]
    /\ linked \in Others \cup {None}
    /\ selected \in [Selections -> SUBSET Items]
    /\ \A s \in Selections : selected[s] \subseteq ShownOf(sourceModel)[modelOf[s]]
    /\ calls \in Seq(Calls) /\ \A c \in Seqs!ToSet(calls) : WellMade(c, LeftShown)
    /\ late \in BOOLEAN
    /\ IF linked = None THEN m_leftModel = None /\ calls = <<>>
       ELSE m_leftModel = modelOf[Link] /\ m_rightModel = modelOf[linked]

\* Where i is selected in the linked model or not, as R says, the call c is yet to make a
\* difference: in the linked model, or in the link, which becomes like R.
Settles(c, i, R) ==
    \/ ~(i \in Apply(R, c.items, c.command) <=> i \in R)
    \/ i \in c.off /\ i \notin R
    \/ i \in c.on /\ i \in R

\* An item in which the two differ is one that a call under way will settle.
SyncInv ==
    ~late /\ linked # None /\ mConnected =>
        \A i \in LeftShown \cap RightShown :
            \/ i \in selected[Link] <=> i \in selected[linked]
            \/ \E c \in Seqs!ToSet(calls) : Settles(c, i, selected[linked])

\* What the link is yet to be told of is still so.
TellInv ==
    ~late /\ linked # None =>
        \A c \in Seqs!ToSet(calls) : c.off \cap selected[linked] = {} /\ c.on \subseteq selected[linked]

\* The link has what is expected.  A call that is under way will have the linked model
\* select the same, or has done so, and tells the link nothing new.
OnceInv ==
    expected # None =>
        /\ selected[Link] = expected.items
        /\ calls # <<>> =>
              /\ Len(calls) = 1
              /\ calls[1].off \cap selected[Link] = {} /\ calls[1].on \subseteq selected[Link]
              /\ linked # None /\ mConnected /\ ~calls[1].tells =>
                    \A i \in LeftShown \cap RightShown :
                        i \in Apply(selected[linked], calls[1].items, calls[1].command) <=> i \in selected[Link]

CurrentsInv ==
    /\ current \in [Selections -> Items \cup {None}]
    /\ linked # None /\ mConnected /\ currentsLinked =>
          ({current[Link], current[linked]} \subseteq LeftShown \cap RightShown => current[Link] = current[linked])

LinkInv == MapperInv /\ LinkTypes /\ SyncInv /\ TellInv /\ OnceInv /\ CurrentsInv /\ ChecksShowSelection

LEMMA ApplyIs ==
    ASSUME NEW command \in Flags, NEW S, NEW T
    PROVE  /\ Apply(S, T, command) \subseteq S \cup T
           /\ T = {} /\ command \notin {"ClearAndSelect", "Clear"} => Apply(S, T, command) = S
           /\ command \in {"ClearAndSelect", "Clear"} => Apply(S, {}, command) = {}
           /\ \A i, U, V : (i \in S <=> i \in U) /\ (i \in T <=> i \in V) =>
                 (i \in Apply(S, T, command) <=> i \in Apply(U, V, command))
<1>1. CASE command = "Select"
  BY <1>1 DEF Apply
<1>2. CASE command = "Deselect"
  BY <1>2 DEF Apply
<1>3. CASE command = "Toggle"
  BY <1>3 DEF Apply
<1>4. CASE command = "ClearAndSelect"
  BY <1>4 DEF Apply
<1>5. CASE command = "Clear"
  BY <1>5 DEF Apply
<1> QED
  BY <1>1, <1>2, <1>3, <1>4, <1>5 DEF Flags

\* Whether a call settles an item depends on that item only.
LEMMA SettlesSame ==
    ASSUME NEW c \in Calls, NEW i, NEW R, NEW now, i \in now <=> i \in R
    PROVE  Settles(c, i, R) <=> Settles(c, i, now)
<1>1. c.command \in Flags
  BY DEF Calls
<1>2. i \in Apply(R, c.items, c.command) <=> i \in Apply(now, c.items, c.command)
  BY <1>1, ApplyIs
<1> QED
  BY <1>2 DEF Settles

\* What a view of the checkable model reads is what the link selects.
LEMMA ChecksKept ==
    ASSUME ChecksShowSelection,
           \/ selectionChangedChecks(selected[Link], selected'[Link])
           \/ UNCHANGED <<checks, selected>>
    PROVE  ChecksShowSelection'
BY DEF ChecksShowSelection, selectionChangedChecks

\* Both ways between two linked models that are connected.
LEMMA MapsBetween ==
    ASSUME MapperInv, LinkTypes, linked # None
    PROVE  /\ \A S \in SUBSET LeftShown :
                 mapSelectionLeftToRight(S) = IF mConnected THEN S \cap RightShown ELSE {}
           /\ \A S \in SUBSET RightShown :
                 mapSelectionRightToLeft(S) = IF mConnected THEN S \cap LeftShown ELSE {}
           /\ LeftShown \subseteq Items /\ RightShown \subseteq Items
<1>1. m_leftModel # None /\ m_leftModel = modelOf[Link] /\ m_rightModel = modelOf[linked]
  BY MapperAssumption DEF LinkTypes, Selections
<1>2. PICK P : Leads(sourceModel, P)
  BY DEF MapperInv
<1>3. LeftShown \subseteq Items /\ RightShown \subseteq Items
  <2>1. modelOf[Link] \in Models /\ modelOf[linked] \in Models
    BY DEF LinkTypes, Selections
  <2> QED
    BY <1>2, <2>1, ShownUnfolds DEF LeftShown, RightShown
<1>4. CASE mConnected
  BY <1>1, <1>3, <1>4, MapsWhatBothShow DEF LeftShown, RightShown
<1>5. CASE ~mConnected
  BY <1>3, <1>5 DEF mapSelectionLeftToRight, mapSelectionRightToLeft, Passes
<1> QED
  BY <1>4, <1>5

\* When the linked model selects now, the link is to be told of what has changed and of
\* nothing else.
LEMMA Told ==
    ASSUME MapperInv, LinkTypes, linked # None, NEW now \in SUBSET RightShown, NEW ends \in BOOLEAN
    PROVE  LET c == sourceSelectionChanged(now, ends)
           IN  /\ c \in Calls /\ c.tells /\ WellMade(c, LeftShown)
               /\ c.off = IF mConnected THEN (selected[linked] \ now) \cap LeftShown ELSE {}
               /\ c.on = IF mConnected THEN (now \ selected[linked]) \cap LeftShown ELSE {}
<1> DEFINE R == selected[linked]
           off == mapSelectionRightToLeft(R \ now)
           on == mapSelectionRightToLeft(now \ R)
           c == sourceSelectionChanged(now, ends)
<1>1. R \subseteq RightShown /\ LeftShown \subseteq Items
  BY MapsBetween DEF LinkTypes, RightShown, Selections
<1>2. /\ off = IF mConnected THEN (R \ now) \cap LeftShown ELSE {}
      /\ on = IF mConnected THEN (now \ R) \cap LeftShown ELSE {}
  BY <1>1, MapsBetween
<1>3. off \subseteq LeftShown /\ on \subseteq LeftShown
  BY <1>2
<1>4. c = [tells |-> TRUE, items |-> {}, command |-> "Select", ends |-> ends, off |-> off, on |-> on]
  BY DEF sourceSelectionChanged, Telling
<1> HIDE DEF off, on, c
<1>5. c \in Calls
  BY <1>1, <1>3, <1>4 DEF Calls, Flags
<1>6. c.tells /\ c.items = {} /\ c.command = "Select" /\ c.off = off /\ c.on = on
  BY <1>4
<1>7. WellMade(c, LeftShown)
  BY <1>3, <1>6 DEF WellMade
<1> QED
  BY <1>2, <1>5, <1>6, <1>7 DEF c

----------------------------------------------------------------------------
(* Every step keeps the invariant.                                          *)

\* What the invariant needs of a step that leaves mapper and models as they are.
LEMMA FrameKept ==
    ASSUME MapperInv, UNCHANGED <<sourceModel, mapperVars, modelOf, linked>>
    PROVE  /\ MapperInv'
           /\ LeftShown' = LeftShown /\ RightShown' = RightShown /\ mConnected' = mConnected
           /\ m_leftModel' = m_leftModel /\ m_rightModel' = m_rightModel
BY DEF MapperInv, mapperVars, LeftShown, RightShown, linked

\* The calls under way, each well made, are those of a sequence of them.
LEMMA CallsAre ==
    ASSUME LinkTypes
    PROVE  /\ calls \in Seq(Calls) /\ Seqs!ToSet(calls) \subseteq Calls
           /\ \A c \in Seqs!ToSet(calls) : WellMade(c, LeftShown)
           /\ calls = <<>> <=> Seqs!ToSet(calls) = {}
           /\ calls # <<>> => /\ Head(calls) = calls[1] /\ calls[1] \in Seqs!ToSet(calls)
                              /\ Tail(calls) \in Seq(Calls)
                              /\ Seqs!ToSet(calls) = {calls[1]} \cup Seqs!ToSet(Tail(calls))
                              /\ Len(calls) = 1 => Tail(calls) = <<>>
<1>1. calls \in Seq(Calls) /\ \A c \in Seqs!ToSet(calls) : WellMade(c, LeftShown)
  BY DEF LinkTypes
<1>2. Seqs!ToSet(calls) \subseteq Calls
  BY <1>1, ToSetIs
<1>3. calls = <<>> => Seqs!ToSet(calls) = {}
  BY DEF Seqs!ToSet
<1>4. calls # <<>> => /\ Head(calls) = calls[1] /\ Tail(calls) \in Seq(Calls)
                      /\ Seqs!ToSet(calls) = {calls[1]} \cup Seqs!ToSet(Tail(calls))
                      /\ Len(calls) = 1 => Tail(calls) = <<>>
  BY <1>1, Pop
<1> QED
  BY <1>1, <1>2, <1>3, <1>4

\* The link has selected, and will tell the linked model.
LEMMA OwnKeeps ==
    ASSUME LinkInv, linked # None, NEW T \in SUBSET LeftShown, NEW command \in Flags,
           NEW ends \in BOOLEAN, NEW final \in Flags, final = command \/ (T = {} /\ final = "Clear"),
           NEW known \in BOOLEAN, known => final = command,
           Own(T, command, Forwarding(T, final, ends)), Expect(known, T, command), ChecksShowSelection'
    PROVE  LinkInv'
<1>1. MapperInv /\ LinkTypes /\ SyncInv /\ TellInv /\ OnceInv /\ CurrentsInv
  BY DEF LinkInv
<1> DEFINE L == selected[Link]
           R == selected[linked]
           new == Apply(L, T, command)
<1>2. linked # Link /\ linked \in Others /\ Link \in Selections /\ linked \in Selections
  BY <1>1, LinkAssumption DEF LinkTypes, Selections
<1>0. PICK c : c = Forwarding(T, final, ends)
  OBVIOUS
<1>3. /\ selected' = [selected EXCEPT ![Link] = new]
      /\ calls' = <<c>> \o calls
      /\ UNCHANGED <<sourceModel, mapperVars, modelOf, current, linked, currentsLinked, late>>
      /\ expected' = IF Idle /\ known /\ ~late THEN [items |-> new] ELSE None
  BY <1>0 DEF Own, Expect
<1>4. /\ selected \in [Selections -> SUBSET Items] /\ calls \in Seq(Calls)
      /\ L \subseteq LeftShown /\ R \subseteq RightShown /\ LeftShown \subseteq Items /\ RightShown \subseteq Items
  BY <1>1, <1>2, MapsBetween DEF LinkTypes, LeftShown, RightShown
<1>c. /\ c \in Calls /\ c.items = T /\ c.command = final /\ ~c.tells /\ c.off = {} /\ c.on = {}
      /\ WellMade(c, LeftShown)
  BY <1>0, <1>4 DEF Forwarding, Calls, WellMade
<1>5. new \subseteq LeftShown
  BY <1>4, ApplyIs
<1> HIDE DEF new
<1>6. /\ selected' \in [Selections -> SUBSET Items] /\ selected'[Link] = new /\ selected'[linked] = R
      /\ \A s \in Selections : s # Link => selected'[s] = selected[s]
  BY <1>2, <1>3, <1>4, <1>5
<1>7. /\ MapperInv'
      /\ LeftShown' = LeftShown /\ RightShown' = RightShown /\ mConnected' = mConnected
      /\ m_leftModel' = m_leftModel /\ m_rightModel' = m_rightModel
  BY <1>1, <1>3, FrameKept
<1>8. /\ calls' \in Seq(Calls) /\ calls' # <<>> /\ calls'[1] = c /\ Len(calls') = 1 + Len(calls)
      /\ Seqs!ToSet(calls') = {c} \cup Seqs!ToSet(calls)
  BY <1>3, <1>4, <1>c, Push
<1>9. LinkTypes'
  <2>1. \A s \in Selections : selected'[s] \subseteq ShownOf(sourceModel')[modelOf'[s]]
    BY <1>1, <1>3, <1>5, <1>6 DEF LinkTypes, LeftShown
  <2>2. \A d \in Seqs!ToSet(calls') : WellMade(d, LeftShown')
    BY <1>1, <1>7, <1>8, <1>c DEF LinkTypes
  <2>3. m_leftModel' = modelOf'[Link] /\ m_rightModel' = modelOf'[linked]
    BY <1>1, <1>3, <1>7 DEF LinkTypes
  <2> QED
    BY <1>1, <1>3, <1>6, <1>8, <2>1, <2>2, <2>3 DEF LinkTypes
<1>10. SyncInv'
  <2> SUFFICES ASSUME ~late, mConnected, NEW i \in LeftShown \cap RightShown, ~(i \in new <=> i \in R)
               PROVE  \E d \in {c} \cup Seqs!ToSet(calls) : Settles(d, i, R)
    BY <1>3, <1>6, <1>7, <1>8 DEF SyncInv
  <2>1. CASE ~(i \in L <=> i \in R)
    BY <1>1, <2>1 DEF SyncInv
  <2>2. CASE i \in L <=> i \in R
    <3>1. CASE c.command = command
      <4>1. i \in Apply(R, T, command) <=> i \in new
        BY <2>2, ApplyIs DEF new
      <4> QED
        BY <3>1, <4>1, <1>c DEF Settles
    <3>2. CASE T = {} /\ c.command = "Clear"
      <4>1. command \in {"ClearAndSelect", "Clear"}
        BY <2>2, <3>2, ApplyIs DEF new
      <4>2. i \notin new
        BY <3>2, <4>1, ApplyIs DEF new
      <4>3. Apply(R, {}, "Clear") = {}
        BY ApplyIs DEF Flags
      <4> QED
        BY <3>2, <4>2, <4>3, <1>c DEF Settles
    <3> QED
      BY <3>1, <3>2, <1>c
  <2> QED
    BY <2>1, <2>2
<1>t. TellInv'
  BY <1>1, <1>3, <1>6, <1>8, <1>c DEF TellInv
<1>11. OnceInv'
  <2>1. CASE Idle /\ known /\ ~late
    <3>1. expected'.items = new
      BY <1>3, <2>1
    <3>2. Len(calls') = 1
      BY <1>8, <2>1 DEF Idle
    <3>3. ASSUME mConnected, NEW i \in LeftShown \cap RightShown
          PROVE  i \in Apply(R, T, command) <=> i \in new
      <4>1. i \in L <=> i \in R
        <5>1. Seqs!ToSet(calls) = {}
          BY <2>1 DEF Idle, Seqs!ToSet
        <5> QED
          BY <1>1, <2>1, <3>3, <5>1 DEF SyncInv
      <4> QED
        BY <4>1, ApplyIs DEF new
    <3>4. c.command = command
      BY <2>1, <1>c
    <3> QED
      BY <1>3, <1>6, <1>7, <1>8, <1>c, <2>1, <3>1, <3>2, <3>3, <3>4 DEF OnceInv
  <2>2. CASE ~(Idle /\ known /\ ~late)
    BY <1>3, <2>2 DEF OnceInv
  <2> QED
    BY <2>1, <2>2
<1>12. CurrentsInv'
  BY <1>1, <1>3, <1>7 DEF CurrentsInv
<1> QED
  BY <1>7, <1>9, <1>10, <1>t, <1>11, <1>12 DEF LinkInv

\* The linked model has selected now, and the calls under way below that are as before, or
\* the one that was the first has reached the linked model.
LEMMA LinkedKeeps ==
    ASSUME LinkInv, linked # None, NEW now \in SUBSET RightShown, NEW ends \in BOOLEAN, NEW rest,
           LinkedSelects(now, ends, rest),
           UNCHANGED <<sourceModel, mapperVars, modelOf, current, linked, currentsLinked>>,
           \/ rest = calls
           \/ /\ calls # <<>> /\ rest = Tail(calls) /\ ~calls[1].tells
              /\ mConnected =>
                    \A i \in LeftShown \cap RightShown :
                        i \in now <=> i \in Apply(selected[linked], calls[1].items, calls[1].command),
           OnceInv', ChecksShowSelection'
    PROVE  LinkInv'
<1>1. MapperInv /\ LinkTypes /\ SyncInv /\ TellInv /\ CurrentsInv
  BY DEF LinkInv
<1> DEFINE L == selected[Link]
           R == selected[linked]
<1>2. linked # Link /\ linked \in Others /\ Link \in Selections /\ linked \in Selections
  BY <1>1, LinkAssumption DEF LinkTypes, Selections
<1>0. PICK c : c = sourceSelectionChanged(now, ends)
  OBVIOUS
<1>3. /\ selected' = [selected EXCEPT ![linked] = now] /\ calls' = <<c>> \o rest
      /\ late' = (late \/ Overtaken(now, rest))
  BY <1>0 DEF LinkedSelects
<1>c. /\ c \in Calls /\ c.tells /\ WellMade(c, LeftShown)
      /\ c.off = IF mConnected THEN (R \ now) \cap LeftShown ELSE {}
      /\ c.on = IF mConnected THEN (now \ R) \cap LeftShown ELSE {}
  BY <1>0, <1>1, Told
<1>4. RightShown \subseteq Items /\ selected \in [Selections -> SUBSET Items]
  BY <1>1, MapsBetween DEF LinkTypes
<1>5. /\ selected' \in [Selections -> SUBSET Items] /\ selected'[linked] = now
      /\ \A s \in Selections : s # linked => selected'[s] = selected[s]
  BY <1>2, <1>3, <1>4
<1>6. /\ MapperInv'
      /\ LeftShown' = LeftShown /\ RightShown' = RightShown /\ mConnected' = mConnected
      /\ m_leftModel' = m_leftModel /\ m_rightModel' = m_rightModel
  BY <1>1, FrameKept
<1>7. /\ rest \in Seq(Calls) /\ Seqs!ToSet(rest) \subseteq Seqs!ToSet(calls)
      /\ rest # calls => /\ Seqs!ToSet(calls) = {calls[1]} \cup Seqs!ToSet(rest)
                         /\ calls[1].off = {} /\ calls[1].on = {}
                         /\ mConnected =>
                               \A i \in LeftShown \cap RightShown :
                                  i \in now <=> i \in Apply(R, calls[1].items, calls[1].command)
  <2>1. CASE rest = calls
    BY <1>1, <2>1, CallsAre
  <2>2. CASE rest # calls
    <3>1. WellMade(calls[1], LeftShown) /\ ~calls[1].tells
      BY <1>1, <2>2, CallsAre
    <3> QED
      BY <1>1, <2>2, <3>1, CallsAre DEF WellMade
  <2> QED
    BY <2>1, <2>2
<1>8. calls' \in Seq(Calls) /\ Seqs!ToSet(calls') = {c} \cup Seqs!ToSet(rest)
  BY <1>3, <1>7, <1>c, Push
<1>9. LinkTypes'
  <2>1. \A s \in Selections : selected'[s] \subseteq ShownOf(sourceModel')[modelOf'[s]]
    BY <1>1, <1>2, <1>5 DEF LinkTypes, RightShown
  <2>2. \A d \in Seqs!ToSet(calls') : WellMade(d, LeftShown')
    BY <1>1, <1>6, <1>7, <1>8, <1>c DEF LinkTypes
  <2>3. m_leftModel' = modelOf'[Link] /\ m_rightModel' = modelOf'[linked]
    BY <1>1, <1>6 DEF LinkTypes
  <2>4. late' \in BOOLEAN
    BY <1>3
  <2> QED
    BY <1>1, <1>5, <1>8, <2>1, <2>2, <2>3, <2>4 DEF LinkTypes
<1>10. ASSUME ~late' PROVE ~late /\ ~Overtaken(now, rest)
  BY <1>3, <1>10
<1>11. SyncInv'
  <2> SUFFICES ASSUME ~late', mConnected, NEW i \in LeftShown \cap RightShown, ~(i \in L <=> i \in now)
               PROVE  \E d \in {c} \cup Seqs!ToSet(rest) : Settles(d, i, now)
    BY <1>2, <1>5, <1>6, <1>8 DEF SyncInv
  <2>1. CASE ~(i \in now <=> i \in R)
    BY <1>c, <2>1 DEF Settles
  <2>2. CASE i \in now <=> i \in R
    <3>1. PICK d \in Seqs!ToSet(calls) : Settles(d, i, R)
      BY <1>1, <1>10, <2>2 DEF SyncInv
    <3>2. d \in Calls /\ Settles(d, i, now)
      <4>1. d \in Calls
        BY <1>1, <3>1, CallsAre
      <4> QED
        BY <2>2, <3>1, <4>1, SettlesSame
    <3>3. d \in Seqs!ToSet(rest)
      BY <1>7, <2>2, <3>1 DEF Settles
    <3> QED
      BY <3>2, <3>3
  <2> QED
    BY <2>1, <2>2
<1>12. TellInv'
  <2> SUFFICES ASSUME ~late', NEW d \in {c} \cup Seqs!ToSet(rest) PROVE d.off \cap now = {} /\ d.on \subseteq now
    BY <1>5, <1>8 DEF TellInv
  <2>1. CASE d = c
    BY <1>c, <2>1
  <2>2. CASE d \in Seqs!ToSet(rest)
    BY <1>10, <2>2 DEF Overtaken
  <2> QED
    BY <2>1, <2>2
<1>13. CurrentsInv'
  BY <1>1, <1>6 DEF CurrentsInv
<1> QED
  BY <1>6, <1>9, <1>11, <1>12, <1>13 DEF LinkInv

LEMMA ForwardKeeps ==
    ASSUME LinkInv, Forward, ChecksShowSelection'
    PROVE  LinkInv'
<1>1. MapperInv /\ LinkTypes /\ SyncInv /\ OnceInv
  BY DEF LinkInv
<1>2. calls # <<>> /\ linked # None
  BY <1>1 DEF Forward, Idle, LinkTypes
<1>0. PICK c : c = calls[1]
  OBVIOUS
<1>3. /\ Head(calls) = c /\ c \in Calls /\ WellMade(c, LeftShown)
      /\ Tail(calls) \in Seq(Calls) /\ (Len(calls) = 1 => Tail(calls) = <<>>)
  BY <1>0, <1>1, <1>2, CallsAre
<1> DEFINE R == selected[linked]
           mapped == mapSelectionLeftToRight(c.items)
<1>n. PICK now : now = Apply(R, mapped, c.command)
  OBVIOUS
<1>4. /\ ~c.tells /\ LinkedSelects(now, c.ends, Tail(calls))
      /\ UNCHANGED <<sourceModel, mapperVars, modelOf, current, linked, currentsLinked, expected>>
  BY <1>3, <1>n DEF Forward
<1>5. c.items \subseteq LeftShown /\ c.command \in Flags /\ c.ends \in BOOLEAN
  BY <1>3 DEF WellMade, Calls
<1>6. mapped = IF mConnected THEN c.items \cap RightShown ELSE {}
  BY <1>1, <1>2, <1>5, MapsBetween
<1>7. R \subseteq RightShown
  BY <1>1, <1>2 DEF LinkTypes, RightShown, Selections
<1> HIDE DEF mapped
<1>8. now \in SUBSET RightShown
  BY <1>n, <1>5, <1>6, <1>7, ApplyIs
<1>9. ASSUME mConnected, NEW i \in LeftShown \cap RightShown
      PROVE  i \in now <=> i \in Apply(R, c.items, c.command)
  BY <1>n, <1>5, <1>6, <1>9, ApplyIs
<1>10. OnceInv'
  <2> SUFFICES ASSUME expected # None PROVE OnceInv'
    BY <1>4 DEF OnceInv
  <2>1. selected[Link] = expected.items /\ Len(calls) = 1
    BY <1>1, <1>2 DEF OnceInv
  <2>2. mConnected => \A i \in LeftShown \cap RightShown : i \in now <=> i \in selected[Link]
    BY <1>0, <1>1, <1>2, <1>4, <1>9, <2>1 DEF OnceInv
  <2>3. PICK d : d = sourceSelectionChanged(now, c.ends)
    OBVIOUS
  <2>4. /\ d \in Calls /\ d.tells
        /\ d.off = IF mConnected THEN (R \ now) \cap LeftShown ELSE {}
        /\ d.on = IF mConnected THEN (now \ R) \cap LeftShown ELSE {}
    BY <1>1, <1>2, <1>5, <1>8, <2>3, Told
  <2>5. calls' = <<d>> \o <<>> /\ selected' = [selected EXCEPT ![linked] = now]
    BY <1>3, <1>4, <2>1, <2>3 DEF LinkedSelects
  <2>6. calls'[1] = d /\ Len(calls') = 1
    BY <2>5
  <2>7. selected'[Link] = selected[Link]
    BY <1>1, <2>5, LinkAssumption DEF LinkTypes, Selections
  <2>8. d.off \cap selected[Link] = {} /\ d.on \subseteq selected[Link]
    BY <1>7, <1>8, <2>2, <2>4
  <2> QED
    BY <1>4, <2>1, <2>4, <2>6, <2>7, <2>8 DEF OnceInv
<1>r. PICK rest : rest = Tail(calls)
  OBVIOUS
<1> QED
  BY <1>0, <1>2, <1>4, <1>5, <1>8, <1>9, <1>10, <1>r, LinkedKeeps

\* The link deselects what it is told, or selects it: what is left of the call comes first.
LEMMA TellingKeeps ==
    ASSUME LinkInv, calls # <<>>, calls[1].tells, NEW off, off = calls[1].off, NEW on, on \subseteq calls[1].on,
           NEW left \in SUBSET Calls,
           \A e \in left : WellMade(e, LeftShown) /\ e.tells /\ e.off = {} /\ e.on \subseteq calls[1].on,
           \A i \in calls[1].on : i \in on \/ \E e \in left : i \in e.on,
           selected' = [selected EXCEPT ![Link] = (@ \ off) \cup on],
           calls' \in Seq(Calls), Seqs!ToSet(calls') = left \cup Seqs!ToSet(Tail(calls)),
           UNCHANGED <<sourceModel, mapperVars, modelOf, current, linked, currentsLinked, late>>,
           OnceInv', ChecksShowSelection'
    PROVE  LinkInv'
<1>1. MapperInv /\ LinkTypes /\ SyncInv /\ TellInv /\ CurrentsInv
  BY DEF LinkInv
<1> DEFINE L == selected[Link]
           R == selected[linked]
<1>2. /\ linked # None /\ linked # Link /\ linked \in Others /\ Link \in Selections /\ linked \in Selections
      /\ selected \in [Selections -> SUBSET Items] /\ L \subseteq LeftShown
  BY <1>1, LinkAssumption DEF LinkTypes, Selections, LeftShown
<1>3. PICK c : c = calls[1]
  OBVIOUS
<1>4. /\ c \in Seqs!ToSet(calls) /\ WellMade(c, LeftShown) /\ c.tells
      /\ Seqs!ToSet(calls) = {c} \cup Seqs!ToSet(Tail(calls)) /\ Seqs!ToSet(calls) \subseteq Calls
  BY <1>1, <1>3, CallsAre
<1>5. off = c.off /\ on \subseteq c.on /\ off \subseteq LeftShown /\ on \subseteq LeftShown
  BY <1>3, <1>4 DEF WellMade
<1>6. LeftShown \subseteq Items
  BY <1>1, <1>2, MapsBetween
<1>7. /\ selected' \in [Selections -> SUBSET Items] /\ selected'[Link] = (L \ off) \cup on /\ selected'[linked] = R
      /\ selected'[Link] \subseteq LeftShown
      /\ \A s \in Selections : s # Link => selected'[s] = selected[s]
  BY <1>2, <1>5, <1>6
<1>8. /\ MapperInv'
      /\ LeftShown' = LeftShown /\ RightShown' = RightShown /\ mConnected' = mConnected
      /\ m_leftModel' = m_leftModel /\ m_rightModel' = m_rightModel
  BY <1>1, FrameKept
<1>9. LinkTypes'
  <2>1. \A s \in Selections : selected'[s] \subseteq ShownOf(sourceModel')[modelOf'[s]]
    BY <1>1, <1>7 DEF LinkTypes, LeftShown
  <2>2. \A d \in Seqs!ToSet(calls') : WellMade(d, LeftShown')
    BY <1>1, <1>4, <1>8, CallsAre
  <2>3. m_leftModel' = modelOf'[Link] /\ m_rightModel' = modelOf'[linked]
    BY <1>1, <1>2, <1>8 DEF LinkTypes
  <2> QED
    BY <1>1, <1>2, <1>7, <2>1, <2>2, <2>3 DEF LinkTypes
<1>10. SyncInv'
  <2> SUFFICES ASSUME ~late, mConnected, NEW i \in LeftShown \cap RightShown,
                      ~(i \in (L \ off) \cup on <=> i \in R)
               PROVE  \E d \in left \cup Seqs!ToSet(Tail(calls)) : Settles(d, i, R)
    BY <1>7, <1>8 DEF SyncInv
  <2>1. c.off \cap R = {} /\ c.on \subseteq R
    BY <1>1, <1>2, <1>4 DEF TellInv
  <2>2. i \notin off /\ i \notin on /\ ~(i \in L <=> i \in R)
    BY <1>5, <2>1
  <2>3. PICK d \in Seqs!ToSet(calls) : Settles(d, i, R)
    BY <1>1, <1>2, <2>2 DEF SyncInv
  <2>4. CASE d = c
    <3>1. c.items = {} /\ c.command = "Select"
      BY <1>4 DEF WellMade
    <3>2. Apply(R, c.items, c.command) = R
      BY <3>1, ApplyIs DEF Flags
    <3>3. i \in c.on /\ i \in R
      BY <1>5, <2>2, <2>3, <2>4, <3>2 DEF Settles
    <3>4. PICK e \in left : i \in e.on
      BY <1>3, <2>2, <3>3
    <3> QED
      BY <3>3, <3>4 DEF Settles
  <2>5. CASE d # c
    BY <1>4, <2>3, <2>5
  <2> QED
    BY <2>4, <2>5
<1>11. TellInv'
  <2> SUFFICES ASSUME ~late, NEW d \in left \cup Seqs!ToSet(Tail(calls)) PROVE d.off \cap R = {} /\ d.on \subseteq R
    BY <1>7 DEF TellInv
  <2>1. \A e \in Seqs!ToSet(calls) : e.off \cap R = {} /\ e.on \subseteq R
    BY <1>1, <1>2 DEF TellInv
  <2>2. CASE d \in left
    BY <1>3, <1>4, <2>1, <2>2
  <2> QED
    BY <1>4, <2>1, <2>2
<1>12. CurrentsInv'
  BY <1>1, <1>8 DEF CurrentsInv
<1> QED
  BY <1>8, <1>9, <1>10, <1>11, <1>12 DEF LinkInv

LEMMA TellDeselectedKeeps ==
    ASSUME LinkInv, TellDeselected, ChecksShowSelection'
    PROVE  LinkInv'
<1>1. LinkTypes /\ OnceInv /\ calls # <<>>
  BY DEF LinkInv, TellDeselected, Idle
<1>2. PICK c, rest : c = calls[1] /\ rest = Tail(calls)
  OBVIOUS
<1>3. /\ Head(calls) = c /\ c \in Calls /\ WellMade(c, LeftShown) /\ rest \in Seq(Calls)
      /\ Len(calls) = 1 => rest = <<>>
  BY <1>1, <1>2, CallsAre
<1>4. PICK e, off : e = Telling({}, c.on, c.ends) /\ off = c.off
  OBVIOUS
<1>5. /\ off # {} /\ selected' = [selected EXCEPT ![Link] = @ \ off] /\ calls' = <<e>> \o rest
      /\ UNCHANGED <<sourceModel, mapperVars, modelOf, current, linked, currentsLinked, late, expected>>
  BY <1>2, <1>3, <1>4 DEF TellDeselected
<1>6. c.tells
  BY <1>3, <1>4, <1>5 DEF WellMade
<1>7. e \in Calls /\ e.tells /\ e.off = {} /\ e.on = c.on /\ WellMade(e, LeftShown)
  BY <1>3, <1>4, <1>6 DEF Telling, Calls, Flags, WellMade
<1>8. /\ calls' \in Seq(Calls) /\ calls'[1] = e /\ Len(calls') = 1 + Len(rest)
      /\ Seqs!ToSet(calls') = {e} \cup Seqs!ToSet(rest)
  BY <1>3, <1>5, <1>7, Push
<1>9. selected' = [selected EXCEPT ![Link] = (@ \ off) \cup {}]
  BY <1>5
<1>10. OnceInv'
  <2> SUFFICES ASSUME expected # None PROVE OnceInv'
    BY <1>5 DEF OnceInv
  <2>1. /\ selected[Link] = expected.items /\ Len(calls) = 1
        /\ off \cap selected[Link] = {} /\ c.on \subseteq selected[Link]
    BY <1>1, <1>2, <1>4 DEF OnceInv
  <2>2. selected'[Link] = selected[Link]
    BY <1>1, <1>5, <2>1 DEF LinkTypes, Selections
  <2>3. Len(calls') = 1
    BY <1>3, <1>8, <2>1
  <2> QED
    BY <1>5, <1>7, <1>8, <2>1, <2>2, <2>3 DEF OnceInv
<1>l. PICK left : left = {e}
  OBVIOUS
<1>o. PICK on : on = {}
  OBVIOUS
<1>11. /\ calls[1].tells /\ off = calls[1].off /\ on \subseteq calls[1].on /\ left \in SUBSET Calls
       /\ \A d \in left : WellMade(d, LeftShown) /\ d.tells /\ d.off = {} /\ d.on \subseteq calls[1].on
       /\ \A i \in calls[1].on : i \in on \/ \E d \in left : i \in d.on
  BY <1>2, <1>4, <1>6, <1>7, <1>l, <1>o
<1>12. /\ selected' = [selected EXCEPT ![Link] = (@ \ off) \cup on]
       /\ calls' \in Seq(Calls) /\ Seqs!ToSet(calls') = left \cup Seqs!ToSet(Tail(calls))
       /\ UNCHANGED <<sourceModel, mapperVars, modelOf, current, linked, currentsLinked, late>>
  BY <1>2, <1>5, <1>8, <1>9, <1>l, <1>o
<1> QED
  BY <1>1, <1>10, <1>11, <1>12, TellingKeeps

LEMMA TellSelectedKeeps ==
    ASSUME LinkInv, TellSelected, ChecksShowSelection'
    PROVE  LinkInv'
<1>1. LinkTypes /\ OnceInv /\ calls # <<>>
  BY DEF LinkInv, TellSelected, Idle
<1>2. PICK c, rest : c = calls[1] /\ rest = Tail(calls)
  OBVIOUS
<1>3. /\ Head(calls) = c /\ c \in Calls /\ rest \in Seq(Calls)
      /\ Len(calls) = 1 => rest = <<>>
  BY <1>1, <1>2, CallsAre
<1>4. PICK on, off : on = c.on /\ off = {}
  OBVIOUS
<1>5. /\ c.tells /\ c.off = {} /\ selected' = [selected EXCEPT ![Link] = @ \cup on] /\ calls' = rest
      /\ UNCHANGED <<sourceModel, mapperVars, modelOf, current, linked, currentsLinked, late, expected>>
  BY <1>2, <1>3, <1>4 DEF TellSelected
<1>9. selected' = [selected EXCEPT ![Link] = (@ \ off) \cup on]
  BY <1>4, <1>5
<1>10. OnceInv'
  <2> SUFFICES ASSUME expected # None PROVE OnceInv'
    BY <1>5 DEF OnceInv
  <2>1. selected[Link] = expected.items /\ Len(calls) = 1 /\ on \subseteq selected[Link]
    BY <1>1, <1>2, <1>4 DEF OnceInv
  <2>2. selected'[Link] = selected[Link]
    BY <1>1, <1>5, <2>1 DEF LinkTypes, Selections
  <2>3. calls' = <<>>
    BY <1>3, <1>5, <2>1
  <2> QED
    BY <1>5, <2>1, <2>2, <2>3 DEF OnceInv
<1>l. PICK left : left = {}
  OBVIOUS
<1>11. /\ calls[1].tells /\ off = calls[1].off /\ on \subseteq calls[1].on /\ left \in SUBSET Calls
       /\ \A d \in left : WellMade(d, LeftShown) /\ d.tells /\ d.off = {} /\ d.on \subseteq calls[1].on
       /\ \A i \in calls[1].on : i \in on \/ \E d \in left : i \in d.on
  BY <1>2, <1>4, <1>5, <1>l
<1>12. /\ calls' \in Seq(Calls) /\ Seqs!ToSet(calls') = left \cup Seqs!ToSet(Tail(calls))
       /\ UNCHANGED <<sourceModel, mapperVars, modelOf, current, linked, currentsLinked, late>>
  BY <1>2, <1>3, <1>5, <1>l
<1> QED
  BY <1>1, <1>9, <1>10, <1>11, <1>12, TellingKeeps

LEMMA OtherKeeps ==
    ASSUME LinkInv, NEW r \in Others, NEW T, NEW command \in Flags, SelectOther(r, T, command), ChecksShowSelection'
    PROVE  LinkInv'
<1>1. MapperInv /\ LinkTypes /\ SyncInv /\ TellInv /\ OnceInv /\ CurrentsInv
  BY DEF LinkInv
<1>n. PICK now : now = Apply(selected[r], T, command)
  OBVIOUS
<1>2. /\ T \subseteq ShownOf(sourceModel)[modelOf[r]]
      /\ IF r = linked THEN LinkedSelects(now, FALSE, calls)
         ELSE selected' = [selected EXCEPT ![r] = now] /\ UNCHANGED <<calls, late>>
      /\ expected' = None
      /\ UNCHANGED <<sourceModel, mapperVars, modelOf, current, linked, currentsLinked>>
  <2>1. Shown(modelOf[r]) = ShownOf(sourceModel)[modelOf[r]]
    BY ShownIs
  <2> QED
    BY <1>n, <2>1 DEF SelectOther
<1>3. OnceInv'
  BY <1>2 DEF OnceInv
<1>4. /\ r \in Selections /\ r # Link /\ r # None /\ Link \in Selections
      /\ selected[r] \subseteq ShownOf(sourceModel)[modelOf[r]]
      /\ selected \in [Selections -> SUBSET Items]
  BY <1>1, LinkAssumption DEF LinkTypes, Selections
<1>5. now \subseteq ShownOf(sourceModel)[modelOf[r]]
  BY <1>n, <1>2, <1>4, ApplyIs
<1>6. CASE r = linked
  <2>1. now \in SUBSET RightShown
    BY <1>5, <1>6 DEF RightShown
  <2>2. PICK rest : rest = calls
    OBVIOUS
  <2>3. LinkedSelects(now, FALSE, rest)
    BY <1>2, <1>6, <2>2
  <2>4. FALSE \in BOOLEAN
    OBVIOUS
  <2> QED
    BY <1>2, <1>3, <1>4, <1>6, <2>1, <2>2, <2>3, <2>4, LinkedKeeps
<1>7. CASE r # linked
  <2>1. selected' = [selected EXCEPT ![r] = now] /\ UNCHANGED <<calls, late>>
    BY <1>2, <1>7
  <2>2. ShownOf(sourceModel)[modelOf[r]] \subseteq Items
    <3>1. PICK P : Leads(sourceModel, P)
      BY <1>1 DEF MapperInv
    <3>2. modelOf[r] \in Models
      BY <1>1, <1>4 DEF LinkTypes
    <3> QED
      BY <3>1, <3>2, ShownUnfolds
  <2>3. now \subseteq Items
    BY <1>5, <2>2
  <2>4. /\ selected' \in [Selections -> SUBSET Items] /\ selected'[r] = now
        /\ \A s \in Selections : s # r => selected'[s] = selected[s]
    BY <1>4, <2>1, <2>3
  <2>5. selected'[Link] = selected[Link] /\ (linked # None => selected'[linked] = selected[linked])
    BY <1>1, <1>4, <1>7, <2>4 DEF LinkTypes, Selections
  <2>6. /\ MapperInv'
        /\ LeftShown' = LeftShown /\ RightShown' = RightShown /\ mConnected' = mConnected
        /\ m_leftModel' = m_leftModel /\ m_rightModel' = m_rightModel
    BY <1>1, <1>2, FrameKept
  <2>7. LinkTypes'
    <3>1. \A s \in Selections : selected'[s] \subseteq ShownOf(sourceModel')[modelOf'[s]]
      BY <1>1, <1>2, <1>5, <2>4 DEF LinkTypes
    <3>2. UNCHANGED <<modelOf, linked, calls, late>>
      BY <1>2, <2>1
    <3> QED
      BY <1>1, <2>4, <2>6, <3>1, <3>2 DEF LinkTypes
  <2>8. SyncInv' /\ TellInv'
    BY <1>1, <1>2, <2>1, <2>5, <2>6 DEF SyncInv, TellInv
  <2>9. CurrentsInv'
    BY <1>1, <1>2, <2>6 DEF CurrentsInv
  <2> QED
    BY <1>3, <2>6, <2>7, <2>8, <2>9 DEF LinkInv
<1> QED
  BY <1>6, <1>7

\* A new mapper, or none, with what the linked model r has selected taken over.
LEMMA RelinkKeeps ==
    ASSUME LinkInv, NEW r \in Others \cup {None}, NEW m, NEW S,
           calls = <<>>, UNCHANGED <<sourceModel, calls>>,
           linked' = r, expected' = None, currentsLinked' = FALSE, late' = FALSE,
           reinitializeIndexMapper(r, m, S),
           r # None => m \in Models /\ modelOf'[r] = m /\ S \subseteq ShownOf(sourceModel)[m],
           modelOf' \in [Selections -> Models], \A s \in Selections : s # r => modelOf'[s] = modelOf[s],
           current' \in [Selections -> Items \cup {None}], ChecksShowSelection'
    PROVE  LinkInv'
<1>1. MapperInv /\ LinkTypes
  BY DEF LinkInv
<1>2. /\ r # Link /\ Link \in Selections /\ modelOf'[Link] = modelOf[Link] /\ modelOf[Link] \in Models
      /\ selected \in [Selections -> SUBSET Items]
  BY <1>1, LinkAssumption, TrailAssumption DEF LinkTypes, Selections
<1>3. calls' \in Seq(Calls) /\ calls' = <<>> /\ Seqs!ToSet(calls') = {}
  BY <1>1 DEF LinkTypes, Seqs!ToSet
<1>4. OnceInv' /\ CurrentsInv' /\ TellInv'
  BY <1>3 DEF OnceInv, CurrentsInv, TellInv
<1>5. CASE r = None
  <2>1. NoMapper /\ selected' = selected
    BY <1>5 DEF reinitializeIndexMapper
  <2>2. MapperInv' /\ m_leftModel' = None
    BY <1>1, <2>1, NoMapperMakesMapperInv DEF NoMapper
  <2>3. None \notin Selections
    BY <1>2, <1>5, LinkAssumption DEF Selections
  <2>4. \A s \in Selections : selected'[s] \subseteq ShownOf(sourceModel')[modelOf'[s]]
    BY <1>1, <2>1, <2>3, <1>5 DEF LinkTypes
  <2>5. LinkTypes'
    BY <1>1, <1>3, <1>5, <2>1, <2>2, <2>4 DEF LinkTypes
  <2>6. SyncInv'
    BY <1>5 DEF SyncInv
  <2> QED
    BY <1>4, <2>2, <2>5, <2>6 DEF LinkInv
<1>6. CASE r # None
  <2>1. /\ createProxyChain(sourceModel, modelOf[Link], m, {})
        /\ selected' = [selected EXCEPT ![r] = S, ![Link] = Passes(mConnected', m_proxyChainUp', S)]
    BY <1>6 DEF reinitializeIndexMapper, NewMapper
  <2>2. r \in Selections /\ m \in Models /\ modelOf'[r] = m /\ S \subseteq ShownOf(sourceModel)[m]
    BY <1>6 DEF Selections
  <2>3. m_leftModel' = modelOf[Link] /\ m_rightModel' = m
    BY <2>1 DEF createProxyChain
  <2>4. PICK P : Leads(sourceModel', P)
    BY <1>1 DEF MapperInv
  <2>5. MapperInv'
    <3>1. createProxyChain(sourceModel', modelOf[Link], m, {})
      BY <2>1
    <3> QED
      BY <1>2, <2>2, <2>4, <3>1, CreateMakesMapperInv
  <2> DEFINE A == ShownOf(sourceModel)[modelOf[Link]]
             B == ShownOf(sourceModel)[m]
             onLink == Passes(mConnected', m_proxyChainUp', S)
  <2>6. onLink = IF mConnected' THEN S \cap A ELSE {}
    <3>1. PICK Q : /\ Leads(sourceModel', Q) /\ m_leftModel' \in Models /\ m_rightModel' \in Models
                   /\ mConnected' \in BOOLEAN
                   /\ mConnected' => Meeting(sourceModel', m_proxyChainUp', m_proxyChainDown', m_leftModel', m_rightModel', listened')
      <4>1. m_leftModel' # None
        BY <1>2, <2>3, MapperAssumption
      <4> QED
        BY <2>5, <4>1 DEF MapperInv
    <3>2. CASE mConnected'
      <4>1. Meeting(sourceModel, m_proxyChainUp', m_proxyChainDown', modelOf[Link], m, listened') /\ Leads(sourceModel, Q)
        BY <2>3, <3>1, <3>2
      <4>2. Passing(m_proxyChainUp', S) = S \cap A
        BY <1>2, <2>2, <4>1, MeetingMaps
      <4>3. onLink = Passing(m_proxyChainUp', S)
        BY <3>2 DEF Passes, Passing
      <4> QED
        BY <3>2, <4>2, <4>3
    <3>3. CASE ~mConnected'
      BY <3>3 DEF Passes
    <3> QED
      BY <3>2, <3>3
  <2>7. A \subseteq Items /\ B \subseteq Items
    BY <1>2, <2>2, <2>4, ShownUnfolds
  <2> HIDE DEF onLink, A, B
  <2>8. selected' = [selected EXCEPT ![r] = S, ![Link] = onLink]
    BY <2>1 DEF onLink
  <2>9. onLink \subseteq A /\ S \subseteq B
    BY <2>2, <2>6 DEF B
  <2>10. /\ selected' \in [Selections -> SUBSET Items] /\ selected'[r] = S /\ selected'[Link] = onLink
         /\ \A s \in Selections : s \notin {r, Link} => selected'[s] = selected[s]
    BY <1>2, <2>2, <2>7, <2>8, <2>9
  <2>11. LeftShown' = A /\ RightShown' = B
    BY <1>2, <2>2 DEF LeftShown, RightShown, A, B
  <2>12. LinkTypes'
    <3>1. ASSUME NEW s \in Selections PROVE selected'[s] \subseteq ShownOf(sourceModel')[modelOf'[s]]
      <4>1. CASE s = r
        BY <2>2, <2>9, <2>10, <4>1 DEF B
      <4>2. CASE s = Link
        BY <1>2, <2>9, <2>10, <4>2 DEF A
      <4>3. CASE s \notin {r, Link}
        BY <1>1, <2>10, <4>3 DEF LinkTypes
      <4> QED
        BY <4>1, <4>2, <4>3
    <3>2. m_leftModel' = modelOf'[Link] /\ m_rightModel' = modelOf'[r]
      BY <1>2, <2>2, <2>3
    <3> QED
      BY <1>3, <1>6, <2>10, <3>1, <3>2 DEF LinkTypes
  <2>13. SyncInv'
    BY <2>6, <2>10, <2>11 DEF SyncInv
  <2> QED
    BY <1>4, <2>5, <2>12, <2>13 DEF LinkInv
<1> QED
  BY <1>5, <1>6

LEMMA SourcesKeep ==
    ASSUME LinkInv, NEW p \in Proxies, NEW m \in Models, ChangeSourceModel(p, m), UNCHANGED checks
    PROVE  LinkInv'
<1>1. MapperInv /\ LinkTypes /\ CurrentsInv /\ ChecksShowSelection
  BY DEF LinkInv
<1>2. /\ calls = <<>> /\ \A s \in Selections : selected[s] = {} /\ current[s] = None
      /\ ChangeSource(p, m) /\ expected' = None
      /\ UNCHANGED <<selected, modelOf, current, linked, calls, late, currentsLinked>>
  BY DEF ChangeSourceModel, Idle, Selections
<1>3. MapperInv'
  BY <1>1, <1>2, ChangeKeepsMapperInv
<1>4. UNCHANGED <<m_leftModel, m_rightModel>>
  BY <1>2 DEF ChangeSource, createProxyChain, mapperVars
<1>5. LinkTypes'
  <2>1. \A s \in Selections : selected'[s] \subseteq ShownOf(sourceModel')[modelOf'[s]]
    BY <1>2
  <2>2. Seqs!ToSet(calls') = {}
    BY <1>2 DEF Seqs!ToSet
  <2> QED
    BY <1>1, <1>2, <1>4, <2>1, <2>2 DEF LinkTypes
<1>6. linked # None => linked \in Selections
  BY <1>1 DEF LinkTypes, Selections
<1>7. SyncInv' /\ TellInv'
  <2>1. Seqs!ToSet(calls') = {}
    BY <1>2 DEF Seqs!ToSet
  <2>2. SyncInv'
    BY <1>2, <1>6 DEF SyncInv, Selections
  <2> QED
    BY <2>1, <2>2 DEF TellInv
<1>8. OnceInv'
  BY <1>2 DEF OnceInv
<1>9. CurrentsInv'
  BY <1>1, <1>2, <1>6 DEF CurrentsInv, Selections
<1>10. ChecksShowSelection'
  BY <1>1, <1>2 DEF ChecksShowSelection
<1> QED
  BY <1>3, <1>5, <1>7, <1>8, <1>9, <1>10 DEF LinkInv

LEMMA CurrentKeeps ==
    ASSUME LinkInv, NEW s, NEW i, SetCurrent(s, i), UNCHANGED checks
    PROVE  LinkInv'
<1>1. MapperInv /\ LinkTypes /\ SyncInv /\ TellInv /\ OnceInv /\ CurrentsInv /\ ChecksShowSelection
  BY DEF LinkInv
<1>2. /\ linked # None /\ s \in {Link, linked}
      /\ i \in ShownOf(sourceModel)[modelOf[s]]
      /\ IF s = Link THEN slotCurrentChanged(i) ELSE sourceCurrentChanged(i)
      /\ currentsLinked' = (currentsLinked \/ (mConnected /\ current'[Link] = current'[linked]))
      /\ UNCHANGED <<sourceModel, mapperVars, selected, modelOf, linked, calls, late, expected>>
  <2>1. Shown(modelOf[s]) = ShownOf(sourceModel)[modelOf[s]]
    BY ShownIs
  <2> QED
    BY <2>1 DEF SetCurrent
<1>3. linked # Link /\ linked \in Selections /\ Link \in Selections
  BY <1>1, <1>2, LinkAssumption DEF LinkTypes, Selections
<1>4. /\ MapperInv'
      /\ LeftShown' = LeftShown /\ RightShown' = RightShown /\ mConnected' = mConnected
      /\ m_leftModel' = m_leftModel /\ m_rightModel' = m_rightModel
  BY <1>1, <1>2, FrameKept
<1>5. LeftShown \subseteq Items /\ RightShown \subseteq Items
  BY <1>1, <1>2, MapsBetween
<1>6. FirstOf({}) = None /\ FirstOf({i}) = i
  BY DEF FirstOf
<1>7. /\ current' \in [Selections -> Items \cup {None}]
      /\ mConnected => ({current'[Link], current'[linked]} \subseteq LeftShown \cap RightShown
                         => current'[Link] = current'[linked])
  <2>1. CASE s = Link
    <3>1. i \in LeftShown /\ {i} \in SUBSET LeftShown
      BY <1>2, <2>1 DEF LeftShown
    <3>2. mapSelectionLeftToRight({i}) = IF mConnected THEN {i} \cap RightShown ELSE {}
      BY <1>1, <1>2, <3>1, MapsBetween
    <3> DEFINE j == mapLeftToRight(i)
    <3>3. j = IF mConnected /\ i \in RightShown THEN i ELSE None
      <4>1. mapSelectionLeftToRight({i}) = IF mConnected /\ i \in RightShown THEN {i} ELSE {}
        BY <3>2
      <4> QED
        BY <1>6, <4>1 DEF mapLeftToRight
    <3>4. current' = [current EXCEPT ![Link] = i, ![linked] = IF j = None THEN @ ELSE j]
      BY <1>2, <2>1 DEF slotCurrentChanged
    <3> HIDE DEF j
    <3>5. i \in Items /\ i # None
      BY <1>5, <3>1, LinkAssumption
    <3> QED
      BY <1>1, <1>3, <3>3, <3>4, <3>5 DEF CurrentsInv
  <2>2. CASE s = linked
    <3>1. i \in RightShown /\ {i} \in SUBSET RightShown
      BY <1>2, <2>2 DEF RightShown
    <3>2. mapSelectionRightToLeft({i}) = IF mConnected THEN {i} \cap LeftShown ELSE {}
      BY <1>1, <1>2, <3>1, MapsBetween
    <3> DEFINE j == mapRightToLeft(i)
    <3>3. j = IF mConnected /\ i \in LeftShown THEN i ELSE None
      <4>1. mapSelectionRightToLeft({i}) = IF mConnected /\ i \in LeftShown THEN {i} ELSE {}
        BY <3>2
      <4> QED
        BY <1>6, <4>1 DEF mapRightToLeft
    <3>4. current' = [current EXCEPT ![linked] = i, ![Link] = IF j = None THEN @ ELSE j]
      BY <1>2, <1>3, <2>2 DEF sourceCurrentChanged
    <3> HIDE DEF j
    <3>5. i \in Items /\ i # None
      BY <1>5, <3>1, LinkAssumption
    <3> QED
      BY <1>1, <1>3, <3>3, <3>4, <3>5 DEF CurrentsInv
  <2> QED
    BY <1>2, <2>1, <2>2
<1>8. CurrentsInv'
  BY <1>2, <1>4, <1>7 DEF CurrentsInv
<1>9. LinkTypes'
  BY <1>1, <1>2, <1>4 DEF LinkTypes
<1>10. SyncInv' /\ TellInv' /\ OnceInv' /\ ChecksShowSelection'
  BY <1>1, <1>2, <1>4 DEF SyncInv, TellInv, OnceInv, ChecksShowSelection
<1> QED
  BY <1>4, <1>8, <1>9, <1>10 DEF LinkInv

LEMMA InitLinkInv == MCInit => LinkInv
<1> SUFFICES ASSUME MCInit PROVE LinkInv
  OBVIOUS
<1>1. /\ sourceModel \in [Proxies -> Bases] /\ modelOf \in [Selections -> Models]
      /\ m_leftModel = None /\ listened = {} /\ mConnected = FALSE
      /\ selected = [s \in Selections |-> {}] /\ current = [s \in Selections |-> None]
      /\ linked = None /\ calls = <<>> /\ late = FALSE /\ currentsLinked = FALSE /\ expected = None /\ checks = {}
  BY DEF MCInit, Init, Selections, linked
<1> DEFINE P == [x \in Models |-> IF x \in Proxies THEN <<x>> ELSE <<>>]
<1>2. Leads(sourceModel, P)
  <2>1. sourceModel \in [Proxies -> Models] /\ P \in [Models -> Seq(Proxies)]
    BY <1>1 DEF Models
  <2>2. \A x \in Bases : P[x] = <<>>
    BY MapperAssumption DEF Models
  <2>3. ASSUME NEW x \in Proxies PROVE P[x] = <<x>> \o P[sourceModel[x]]
    <3>1. P[x] = <<x>> /\ P[sourceModel[x]] = <<>>
      BY <1>1, <2>2 DEF Models
    <3>2. <<x>> \o <<>> = <<x>>
      BY ConcatEmptySeq
    <3> HIDE DEF P
    <3> QED
      BY <3>1, <3>2
  <2> QED
    BY <2>1, <2>2, <2>3 DEF Leads
<1>3. MapperInv
  BY <1>1, <1>2 DEF MapperInv
<1>4. Link \in Selections /\ Seqs!ToSet(calls) = {}
  BY <1>1 DEF Selections, Seqs!ToSet
<1>5. LinkTypes
  <2>1. calls \in Seq(Calls) /\ late \in BOOLEAN /\ \A c \in Seqs!ToSet(calls) : WellMade(c, LeftShown)
    <3>1. <<>> \in Seq(Calls)
      BY EmptySeq
    <3>2. calls = <<>>
      BY <1>1
    <3>3. late \in BOOLEAN
      BY <1>1
    <3> QED
      BY <1>4, <3>1, <3>2, <3>3
  <2>2. \A s \in Selections : selected[s] = {}
    BY <1>1
  <2> QED
    BY <1>1, <2>1, <2>2 DEF LinkTypes
<1>6. SyncInv /\ TellInv /\ OnceInv /\ CurrentsInv /\ ChecksShowSelection
  BY <1>1, <1>4 DEF SyncInv, TellInv, OnceInv, CurrentsInv, ChecksShowSelection
<1> QED
  BY <1>3, <1>5, <1>6 DEF LinkInv

LEMMA NextKeepsLinkInv == ASSUME LinkInv, [Next]_vars PROVE LinkInv'
<1>1. MapperInv /\ LinkTypes /\ SyncInv /\ TellInv /\ OnceInv /\ CurrentsInv /\ ChecksShowSelection
  BY DEF LinkInv
<1>2. Slots => ChecksShowSelection'
  BY <1>1, ChecksKept DEF Slots
<1>3. ASSUME linked # None PROVE LeftShown \subseteq Items /\ Shown(modelOf[Link]) = LeftShown
  BY <1>1, <1>3, MapsBetween, ShownIs DEF LeftShown
<1>4. Link \in Selections /\ Trail \in Others
  BY TrailAssumption DEF Selections
<1>5. ASSUME NEW T, NEW command \in Flags, LinkSelect(T, command), T \subseteq Shown(modelOf[Link]), Slots
      PROVE  LinkInv'
  <2>1. linked # None /\ Own(T, command, Forwarding(T, command, TRUE)) /\ Expect(TRUE, T, command)
    BY <1>5 DEF LinkSelect
  <2>2. T \in SUBSET LeftShown
    BY <1>3, <1>5, <2>1
  <2>3. TRUE \in BOOLEAN
    OBVIOUS
  <2> QED
    BY <1>2, <1>5, <2>1, <2>2, <2>3, OwnKeeps
<1>6. CASE SelectIndexOfLink
  <2>1. PICK T \in {{i} : i \in Shown(modelOf[Link]) \cap LinkItems} \cup {{}}, command \in Commands :
            LinkSelectIndex(T, command) /\ Slots
    BY <1>6 DEF SelectIndexOfLink
  <2>2. PICK final, known : final = (IF T = {} THEN "Clear" ELSE command) /\ known = (T # {})
    OBVIOUS
  <2>3. linked # None /\ Own(T, command, Forwarding(T, final, FALSE)) /\ Expect(known, T, command)
    BY <2>1, <2>2 DEF LinkSelectIndex
  <2>4. command \in Flags /\ "Clear" \in Flags
    BY LinkAssumption DEF Flags
  <2>5. /\ T \in SUBSET LeftShown /\ final \in Flags
        /\ final = command \/ (T = {} /\ final = "Clear")
        /\ known \in BOOLEAN /\ (known => final = command)
    BY <1>3, <2>1, <2>2, <2>3, <2>4
  <2>6. FALSE \in BOOLEAN
    OBVIOUS
  <2> QED
    BY <1>2, <2>1, <2>3, <2>4, <2>5, <2>6, OwnKeeps
<1>7. CASE SelectInLink
  <2>1. PICK T \in SelectionsIn(modelOf[Link]), command \in Commands : LinkSelect(T, command) /\ Slots
    BY <1>7 DEF SelectInLink
  <2>2. command \in Flags
    BY LinkAssumption DEF Flags
  <2>3. T \subseteq Shown(modelOf[Link])
    BY <2>1 DEF SelectionsIn
  <2> QED
    BY <1>5, <2>1, <2>2, <2>3
<1>8. CASE SetCheckState
  <2>1. PICK i \in Shown(modelOf[Link]), command \in {"Select", "Deselect"} : LinkSelect({i}, command) /\ Slots
    BY <1>8 DEF SetCheckState
  <2>2. command \in Flags /\ {i} \subseteq Shown(modelOf[Link])
    BY <2>1 DEF Flags
  <2> QED
    BY <1>5, <2>1, <2>2
<1>9. CASE ForwardToLinked
  BY <1>2, <1>9, ForwardKeeps DEF ForwardToLinked
<1>18. CASE TellLinkDeselected
  BY <1>2, <1>18, TellDeselectedKeeps DEF TellLinkDeselected
<1>19. CASE TellLinkSelected
  BY <1>2, <1>19, TellSelectedKeeps DEF TellLinkSelected
<1>10. CASE SelectInOther
  <2>1. PICK r \in Others : \E T \in SelectionsIn(modelOf[r]), command \in Commands :
                                SelectOther(r, T, command) /\ Slots
    BY <1>10 DEF SelectInOther
  <2>3. PICK T, command : command \in Commands /\ SelectOther(r, T, command) /\ Slots
    BY <2>1
  <2>2. command \in Flags
    BY <2>3, LinkAssumption DEF Flags
  <2> QED
    BY <1>2, <2>2, <2>3, OtherKeeps
<1>11. CASE SelectBreadcrumbs \/ MoveRow
  <2>1. PICK T, command : /\ command \in {"Select", "ClearAndSelect"} /\ SelectOther(Trail, T, command)
                          /\ selectionChangedChecks(selected[Link], selected'[Link])
    BY <1>11 DEF SelectBreadcrumbs, MoveRow
  <2>2. ChecksShowSelection' /\ command \in Flags
    BY <1>1, <2>1, ChecksKept DEF Flags
  <2> QED
    BY <1>4, <2>1, <2>2, OtherKeeps
<1>12. CASE Relink
  <2>1. PICK r \in Others \cup {None} : SetLinkedItemSelectionModel(r) /\ Slots
    BY <1>12 DEF Relink
  <2> DEFINE m == IF r = None THEN None ELSE modelOf[r]
             S == IF r = None THEN {} ELSE selected[r]
  <2>2. /\ calls = <<>> /\ linked' = r /\ expected' = None /\ currentsLinked' = FALSE /\ late' = FALSE
        /\ reinitializeIndexMapper(r, m, S)
        /\ UNCHANGED <<sourceModel, calls, modelOf, current>>
    BY <2>1 DEF SetLinkedItemSelectionModel, Idle, linked
  <2>3. r # None => m \in Models /\ modelOf'[r] = m /\ S \subseteq ShownOf(sourceModel)[m]
    BY <1>1, <2>1, <2>2 DEF LinkTypes, Selections
  <2>4. /\ modelOf' \in [Selections -> Models] /\ \A s \in Selections : s # r => modelOf'[s] = modelOf[s]
        /\ current' \in [Selections -> Items \cup {None}]
    BY <1>1, <2>2 DEF LinkTypes, CurrentsInv
  <2> HIDE DEF m, S
  <2> QED
    BY <1>2, <2>1, <2>2, <2>3, <2>4, RelinkKeeps
<1>13. CASE RelinkToModel
  <2>1. PICK m \in Models : SetModelOfLinked(m) /\ Slots
    BY <1>13 DEF RelinkToModel
  <2> DEFINE S == {}
  <2>2. PICK r \in Others : r = linked
    BY <1>1, <2>1 DEF SetModelOfLinked, LinkTypes
  <2>3. /\ calls = <<>> /\ linked' = r /\ expected' = None /\ currentsLinked' = FALSE /\ late' = FALSE
        /\ modelOf' = [modelOf EXCEPT ![r] = m] /\ current' = [current EXCEPT ![r] = None]
        /\ reinitializeIndexMapper(r, m, S)
        /\ UNCHANGED <<sourceModel, calls>>
    BY <2>1, <2>2 DEF SetModelOfLinked, Idle, linked
  <2>4. /\ modelOf' \in [Selections -> Models] /\ modelOf'[r] = m
        /\ \A s \in Selections : s # r => modelOf'[s] = modelOf[s]
        /\ current' \in [Selections -> Items \cup {None}]
    BY <1>1, <2>3 DEF LinkTypes, CurrentsInv, Selections
  <2>5. r # None => m \in Models /\ modelOf'[r] = m /\ S \subseteq ShownOf(sourceModel)[m]
    BY <2>4
  <2>6. ChecksShowSelection' /\ r \in Others \cup {None}
    BY <1>2, <2>1
  <2> HIDE DEF S
  <2> QED
    BY <2>3, <2>4, <2>5, <2>6, RelinkKeeps
<1>14. CASE ChangeSources
  BY <1>14, SourcesKeep DEF ChangeSources
<1>15. CASE ChangeCurrent
  BY <1>15, CurrentKeeps DEF ChangeCurrent
<1>16. CASE UNCHANGED vars
  <2>1. UNCHANGED <<sourceModel, mapperVars, selected, modelOf, current, linked, calls, late, currentsLinked, expected, checks>>
    BY <1>16 DEF vars, linkVars, linked
  <2>2. /\ MapperInv'
        /\ LeftShown' = LeftShown /\ RightShown' = RightShown /\ mConnected' = mConnected
        /\ m_leftModel' = m_leftModel /\ m_rightModel' = m_rightModel
    BY <1>1, <2>1, FrameKept
  <2>3. LinkTypes'
    BY <1>1, <2>1, <2>2 DEF LinkTypes
  <2>4. SyncInv' /\ TellInv' /\ OnceInv' /\ CurrentsInv' /\ ChecksShowSelection'
    BY <1>1, <2>1, <2>2 DEF SyncInv, TellInv, OnceInv, CurrentsInv, ChecksShowSelection
  <2> QED
    BY <2>2, <2>3, <2>4 DEF LinkInv
<1> QED
  BY <1>6, <1>7, <1>8, <1>9, <1>10, <1>11, <1>12, <1>13, <1>14, <1>15, <1>16, <1>18, <1>19 DEF Next

LEMMA LinkInvAlways == Spec => []LinkInv
<1>1. LinkInv /\ [Next]_vars => LinkInv'
  BY NextKeepsLinkInv
<1> QED
  BY <1>1, InitLinkInv, PTL DEF Spec

----------------------------------------------------------------------------
\* However proxies get other sources, the mapper is connected exactly when the two models
\* have a common one, and maps from each what the other shows.
THEOREM ConnectsRelativesAlways == Spec => []ConnectsRelatives
<1>1. LinkInv => ConnectsRelatives
  BY MapperInvConnects DEF LinkInv
<1> QED
  BY <1>1, LinkInvAlways, PTL

\* However deep calls are nested, and wherever slots select between the two calls that tell
\* the link: the two select the same once all have returned, unless the linked model changed
\* again what the link was yet to be told of.
THEOREM LinkInSyncAlways == Spec => []LinkInSync
<1>1. LinkInv => LinkInSync
  <2> SUFFICES ASSUME LinkInv, Idle, ~late, linked # None, mConnected
               PROVE  selected[Link] \cap (Shown(modelOf[Link]) \cap Shown(modelOf[linked]))
                      = selected[linked] \cap (Shown(modelOf[Link]) \cap Shown(modelOf[linked]))
    BY DEF LinkInSync
  <2>1. Shown(modelOf[Link]) = LeftShown /\ Shown(modelOf[linked]) = RightShown
    BY ShownIs DEF LeftShown, RightShown
  <2>2. Seqs!ToSet(calls) = {}
    BY DEF Idle, Seqs!ToSet
  <2>3. \A i \in LeftShown \cap RightShown : i \in selected[Link] <=> i \in selected[linked]
    BY <2>2 DEF LinkInv, SyncInv
  <2> QED
    BY <2>1, <2>3
<1> QED
  BY <1>1, LinkInvAlways, PTL

\* What comes back from the linked model changes nothing that the link has selected.
THEOREM SelectsOnceAlways == Spec => []SelectsOnce
<1>1. LinkInv => SelectsOnce
  BY DEF LinkInv, OnceInv, SelectsOnce
<1> QED
  BY <1>1, LinkInvAlways, PTL

\* Current items that both models show are the same once they were told.
THEOREM CurrentsAgreeAlways == Spec => []CurrentsAgree
<1>1. LinkInv => CurrentsAgree
  <2>1. \A x : Shown(x) = ShownOf(sourceModel)[x]
    BY ShownIs
  <2> QED
    BY <2>1 DEF LinkInv, CurrentsInv, CurrentsAgree, LeftShown, RightShown
<1> QED
  BY <1>1, LinkInvAlways, PTL

\* A view of the checkable model has drawn checked what the link selects.
THEOREM ChecksShowSelectionAlways == Spec => []ChecksShowSelection
<1>1. LinkInv => ChecksShowSelection
  BY DEF LinkInv
<1> QED
  BY <1>1, LinkInvAlways, PTL

----------------------------------------------------------------------------
(* The breadcrumbs.                                                        *)

\* What g has after each of N turns of a loop with the body G that starts with b.
Turns(g, b, N, G) == g = [k \in 0 .. N |-> IF k = 0 THEN b ELSE G[<<k, g[k - 1]>>]]

\* There is always such a g.
LEMMA LoopComputes ==
    ASSUME NEW T, NEW b \in T, NEW N \in Nat, NEW G \in [(1 .. N) \X T -> T]
    PROVE  \E g \in [0 .. N -> T] : Turns(g, b, N, G)
<1> DEFINE Computes(g, n) == Turns(g, b, n, G)
           Bad == {n \in 0 .. N : \A g \in [0 .. n -> T] : ~Computes(g, n)}
<1>1. SUFFICES ASSUME Bad # {} PROVE FALSE
  <2>1. CASE N \in Bad
    BY <2>1
  <2>2. CASE N \notin Bad
    <3> HIDE DEF Computes
    <3>1. \E g \in [0 .. N -> T] : Computes(g, N)
      BY <2>2
    <3> QED
      BY <3>1 DEF Computes
  <2> QED
    BY <2>1, <2>2
<1> USE DEF Turns
<1>2. PICK m \in Bad : \A n \in Bad : m <= n
  <2> HIDE DEF Computes
  <2>1. Bad \in SUBSET Nat
    OBVIOUS
  <2> HIDE DEF Bad
  <2> QED
    BY <1>1, <2>1, LeastExists
<1>3. CASE m = 0
  <2> DEFINE g == [k \in 0 .. 0 |-> b]
  <2>1. g \in [0 .. 0 -> T] /\ Computes(g, 0)
    OBVIOUS
  <2> QED
    BY <1>2, <1>3, <2>1
<1>4. CASE m # 0
  <2>1. m \in 1 .. N /\ m - 1 \in 0 .. N /\ m - 1 \notin Bad
    BY <1>2, <1>4
  <2>2. PICK g \in [0 .. m - 1 -> T] : Computes(g, m - 1)
    BY <2>1
  <2> DEFINE h == [k \in 0 .. m |-> IF k = m THEN G[<<m, g[m - 1]>>] ELSE g[k]]
  <2>3. g[m - 1] \in T /\ G[<<m, g[m - 1]>>] \in T
    BY <2>1
  <2>4. h \in [0 .. m -> T]
    BY <2>1, <2>3
  <2>5. \A k \in 0 .. m : h[k] = IF k = 0 THEN b ELSE G[<<k, h[k - 1]>>]
    <3> SUFFICES ASSUME NEW k \in 0 .. m PROVE h[k] = IF k = 0 THEN b ELSE G[<<k, h[k - 1]>>]
      OBVIOUS
    <3>1. CASE k = m
      <4>1. h[m] = G[<<m, g[m - 1]>>] /\ h[m - 1] = g[m - 1] /\ m # 0
        BY <2>1, <1>4
      <4> QED
        BY <3>1, <4>1
    <3>2. CASE k # m
      <4>1. k \in 0 .. m - 1 /\ (k # 0 => k - 1 \in 0 .. m - 1 /\ k - 1 # m)
        BY <2>1, <3>2
      <4>2. g[k] = IF k = 0 THEN b ELSE G[<<k, g[k - 1]>>]
        BY <2>2, <4>1
      <4>3. h[k] = g[k] /\ (k # 0 => h[k - 1] = g[k - 1])
        BY <2>1, <3>2, <4>1
      <4> HIDE DEF h, Computes
      <4> QED
        BY <4>2, <4>3
    <3> QED
      BY <3>1, <3>2
  <2>6. Computes(h, m)
    BY <2>4, <2>5
  <2> HIDE DEF h, Computes
  <2> QED
    BY <1>2, <2>4, <2>6
<1> QED
  BY <1>3, <1>4

\* The way up from i.
IsWay(f, i, w) ==
    /\ w \in Seq(CrumbItems) /\ Len(w) >= 1 /\ w[1] = i
    /\ \A k \in 1 .. Len(w) - 1 : w[k + 1] = f[w[k]]

Ways == {w \in Seq(CrumbItems) : Len(w) >= 1}
UpFunctions == [CrumbItems -> CrumbItems \cup {NoItem}]

\* One step of it.
OneUp(f, w) == IF f[w[Len(w)]] = NoItem THEN w ELSE Append(w, f[w[Len(w)]])

LEMMA StepUp ==
    ASSUME NEW f \in UpFunctions, NEW i \in CrumbItems, NEW w, IsWay(f, i, w)
    PROVE  /\ IsWay(f, i, OneUp(f, w))
           /\ Len(OneUp(f, w)) = IF f[w[Len(w)]] = NoItem THEN Len(w) ELSE Len(w) + 1
<1>1. w \in Seq(CrumbItems) /\ Len(w) \in Nat /\ Len(w) >= 1 /\ w[Len(w)] \in CrumbItems
  BY DEF IsWay
<1>2. CASE f[w[Len(w)]] = NoItem
  BY <1>2 DEF OneUp
<1>3. CASE f[w[Len(w)]] # NoItem
  <2> DEFINE a == f[w[Len(w)]]
             v == Append(w, a)
  <2>1. a \in CrumbItems
    BY <1>1, <1>3 DEF UpFunctions
  <2>2. /\ v \in Seq(CrumbItems) /\ Len(v) = Len(w) + 1 /\ v[Len(w) + 1] = a
        /\ \A k \in 1 .. Len(w) : v[k] = w[k]
    BY <1>1, <2>1, AppendProperties
  <2>3. OneUp(f, w) = v
    BY <1>3 DEF OneUp
  <2>4. ASSUME NEW k \in 1 .. Len(v) - 1 PROVE v[k + 1] = f[v[k]]
    <3>1. CASE k = Len(w)
      BY <1>1, <2>2, <3>1
    <3>2. CASE k # Len(w)
      <4>1. k \in 1 .. Len(w) - 1 /\ k + 1 \in 1 .. Len(w)
        BY <1>1, <2>2, <3>2
      <4> QED
        BY <1>1, <2>2, <4>1 DEF IsWay
    <3> QED
      BY <3>1, <3>2
  <2>5. v[1] = i
    BY <1>1, <2>2 DEF IsWay
  <2> HIDE DEF v, a
  <2> QED
    BY <1>1, <1>3, <2>2, <2>3, <2>4, <2>5 DEF IsWay, a
<1> QED
  BY <1>2, <1>3

\* Ancestors is such a way, which goes on until there is nothing above, or stops after as
\* many steps as there are items.
LEMMA AncestorsAreWay ==
    ASSUME NEW f \in UpFunctions, NEW i \in CrumbItems
    PROVE  \E w : /\ IsWay(f, i, w) /\ Ancestors(f, i) = Tail(w)
                  /\ Len(w) = Cardinality(CrumbItems) + 1 \/ f[w[Len(w)]] = NoItem
<1> DEFINE N == Cardinality(CrumbItems)
<1>1. N \in Nat
  BY CrumbsAssumption, FS_CardinalityType
<1> HIDE DEF N
<1> DEFINE G == [x \in (1 .. N) \X Ways |-> OneUp(f, x[2])]
           Body(g) == [n \in 0 .. N |->
                          IF n = 0 THEN <<i>>
                          ELSE LET above == f[g[n - 1][Len(g[n - 1])]]
                               IN  IF above = NoItem THEN g[n - 1] ELSE Append(g[n - 1], above)]
           way == CHOOSE g : g = Body(g)
<1>2. <<i>> \in Ways /\ IsWay(f, i, <<i>>) /\ Len(<<i>>) = 1
  BY DEF Ways, IsWay
<1>3. \A w \in Ways : OneUp(f, w) \in Ways
  <2> SUFFICES ASSUME NEW w \in Ways PROVE OneUp(f, w) \in Ways
    OBVIOUS
  <2>1. CASE f[w[Len(w)]] = NoItem
    BY <2>1 DEF OneUp
  <2>2. CASE f[w[Len(w)]] # NoItem
    <3>1. f[w[Len(w)]] \in CrumbItems
      BY <2>2 DEF UpFunctions, Ways
    <3> QED
      BY <2>2, <3>1, AppendProperties DEF OneUp, Ways
  <2> QED
    BY <2>1, <2>2
<1>4. G \in [(1 .. N) \X Ways -> Ways]
  BY <1>3
<1>5. \E g : g = Body(g)
  <2>1. PICK g \in [0 .. N -> Ways] : g = [k \in 0 .. N |-> IF k = 0 THEN <<i>> ELSE G[<<k, g[k - 1]>>]]
    <3>1. PICK b : b = <<i>>
      OBVIOUS
    <3>2. b \in Ways
      BY <1>2, <3>1
    <3> HIDE DEF G
    <3>3. \E g \in [0 .. N -> Ways] : Turns(g, b, N, G)
      BY <1>1, <3>2, <1>4, LoopComputes
    <3> QED
      BY <3>1, <3>3 DEF Turns
  <2>2. ASSUME NEW n \in 0 .. N
        PROVE  (IF n = 0 THEN <<i>> ELSE G[<<n, g[n - 1]>>]) = Body(g)[n]
    <3>1. n # 0 => n \in 1 .. N /\ n - 1 \in 0 .. N
      BY <1>1
    <3>2. n # 0 => G[<<n, g[n - 1]>>] = OneUp(f, g[n - 1])
      BY <2>1, <3>1
    <3> QED
      BY <3>2 DEF OneUp
  <2>3. g = Body(g)
    BY <2>1, <2>2
  <2> QED
    BY <2>3
<1>6. way = Body(way)
  <2> HIDE DEF Body
  <2> QED
    BY <1>5
<1>7. Ancestors(f, i) = Tail(way[N])
  BY DEF Ancestors, N
<1> HIDE DEF way, G
<1>8. /\ way[0] = <<i>>
      /\ \A n \in 1 .. N : way[n] = OneUp(f, way[n - 1])
  <2>1. \A n \in 0 .. N : way[n] = Body(way)[n]
    BY <1>6
  <2>2. 0 \in 0 .. N /\ \A n \in 1 .. N : n \in 0 .. N /\ n # 0
    BY <1>1
  <2> QED
    BY <2>1, <2>2 DEF OneUp
<1> DEFINE Good(n) == /\ IsWay(f, i, way[n])
                      /\ Len(way[n]) = n + 1 \/ f[way[n][Len(way[n])]] = NoItem
           Bad == {n \in 0 .. N : ~Good(n)}
<1> HIDE DEF Body
<1>9. Bad = {}
  <2> SUFFICES ASSUME Bad # {} PROVE FALSE
    OBVIOUS
  <2>0. Good(0)
    BY <1>2, <1>8
  <2> HIDE DEF Good
  <2>1. PICK m \in Bad : \A n \in Bad : m <= n
    <3>1. Bad \in SUBSET Nat
      OBVIOUS
    <3> HIDE DEF Bad
    <3> QED
      BY <3>1, LeastExists
  <2>2. m # 0
    BY <2>0, <2>1
  <2>3. m \in 1 .. N /\ m - 1 \in 0 .. N /\ Good(m - 1)
    BY <1>1, <2>1, <2>2
  <2> USE DEF Good
  <2>4. PICK w : w = way[m - 1]
    OBVIOUS
  <2>5. IsWay(f, i, w) /\ (Len(w) = m \/ f[w[Len(w)]] = NoItem) /\ way[m] = OneUp(f, w)
    BY <1>8, <2>3, <2>4
  <2>6. IsWay(f, i, way[m]) /\ Len(way[m]) = IF f[w[Len(w)]] = NoItem THEN Len(w) ELSE Len(w) + 1
    BY <2>5, StepUp
  <2>7. f[w[Len(w)]] = NoItem => way[m] = w
    BY <2>5 DEF OneUp
  <2>8. Good(m)
    BY <2>3, <2>5, <2>6, <2>7
  <2> QED
    BY <2>1, <2>8
<1>10. Good(N)
  BY <1>1, <1>9
<1> QED
  BY <1>7, <1>10 DEF N

LEMMA InCrumbs ==
    ASSUME NEW T, NEW s \in Seq(T), NEW x
    PROVE  x \in Paths!ToSet(s) <=> \E k \in 1 .. Len(s) : s[k] = x
<1>1. DOMAIN s = 1 .. Len(s)
  OBVIOUS
<1> QED
  BY <1>1 DEF Paths!ToSet

\* In a forest the way up ends at the top: on a longer one some item would be above itself.
LEMMA WayToTop ==
    ASSUME NEW f \in Forests, NEW i \in CrumbItems
    PROVE  \E w : IsWay(f, i, w) /\ Ancestors(f, i) = Tail(w) /\ f[w[Len(w)]] = NoItem
<1> DEFINE N == Cardinality(CrumbItems)
<1>1. f \in UpFunctions /\ \A y \in CrumbItems : y \notin Paths!ToSet(Ancestors(f, y))
  BY CrumbsAssumption DEF Forests, UpFunctions
<1>2. PICK w : /\ IsWay(f, i, w) /\ Ancestors(f, i) = Tail(w)
               /\ Len(w) = N + 1 \/ f[w[Len(w)]] = NoItem
  BY <1>1, AncestorsAreWay
<1>3. SUFFICES ASSUME f[w[Len(w)]] # NoItem PROVE FALSE
  BY <1>2
<1>4. N \in Nat /\ IsFiniteSet(CrumbItems)
  BY CrumbsAssumption, FS_CardinalityType
<1>5. w \in [1 .. N + 1 -> CrumbItems] /\ Len(w) = N + 1
  BY <1>2, <1>3, <1>4 DEF IsWay
<1>6. IsFiniteSet(1 .. N + 1) /\ Cardinality(1 .. N + 1) = N + 1
  BY <1>4, FS_Interval
<1>7. PICK a, b \in 1 .. N + 1 : a < b /\ w[a] = w[b]
  <2>1. \E x, y \in 1 .. N + 1 : x # y /\ w[x] = w[y]
    BY <1>4, <1>5, <1>6, FS_PigeonHole
  <2> QED
    BY <1>4, <2>1
<1> HIDE DEF N
<1>8. PICK y \in CrumbItems : y = w[a]
  BY <1>5
<1>9. PICK v : /\ IsWay(f, y, v) /\ Ancestors(f, y) = Tail(v)
               /\ Len(v) = N + 1 \/ f[v[Len(v)]] = NoItem
  BY <1>1, AncestorsAreWay DEF N
<1>10. v \in Seq(CrumbItems) /\ Len(v) \in Nat /\ Len(v) >= 1
  BY <1>9 DEF IsWay
<1> DEFINE Bad == {k \in 1 .. Len(v) : a + k - 1 <= N + 1 /\ v[k] # w[a + k - 1]}
<1>11. Bad = {}
  <2> SUFFICES ASSUME Bad # {} PROVE FALSE
    OBVIOUS
  <2>1. PICK m \in Bad : \A n \in Bad : m <= n
    <3>1. Bad \in SUBSET Nat
      BY <1>10
    <3> HIDE DEF Bad
    <3> QED
      BY <3>1, LeastExists
  <2>2. m # 1
    BY <1>4, <1>7, <1>8, <1>9, <2>1 DEF IsWay
  <2>3. m - 1 \in 1 .. Len(v) - 1 /\ a + m - 2 \in 1 .. N /\ m - 1 \in 1 .. Len(v) /\ m - 1 \notin Bad
    BY <1>4, <1>7, <1>10, <2>1, <2>2
  <2>4. v[m - 1] = w[a + m - 2]
    <3>1. a + (m - 1) - 1 = a + m - 2
      BY <1>7, <2>1
    <3> QED
      BY <1>4, <1>7, <2>3, <3>1
  <2>5. v[m] = f[v[m - 1]]
    BY <1>9, <1>10, <2>1, <2>3 DEF IsWay
  <2>6. w[a + m - 1] = f[w[a + m - 2]]
    BY <1>2, <1>4, <1>5, <1>7, <2>1, <2>3 DEF IsWay
  <2> QED
    BY <2>1, <2>4, <2>5, <2>6
<1>12. Len(v) >= b - a + 1
  <2> SUFFICES ASSUME Len(v) <= b - a PROVE FALSE
    BY <1>4, <1>7, <1>10
  <2>1. f[v[Len(v)]] = NoItem
    BY <1>4, <1>7, <1>9, <1>10
  <2>2. Len(v) \in 1 .. Len(v) /\ Len(v) \notin Bad /\ a + Len(v) - 1 \in 1 .. N
    BY <1>4, <1>7, <1>10, <1>11
  <2>3. v[Len(v)] = w[a + Len(v) - 1]
    BY <1>4, <2>2
  <2>4. w[a + Len(v)] = f[w[a + Len(v) - 1]] /\ a + Len(v) \in 1 .. N + 1
    BY <1>2, <1>4, <1>5, <1>7, <1>10, <2>2 DEF IsWay
  <2>5. w[a + Len(v)] \in CrumbItems
    BY <1>5, <2>4 DEF N
  <2> QED
    BY <2>1, <2>3, <2>4, <2>5, CrumbsAssumption
<1>13. v[b - a + 1] = y
  <2>1. b - a + 1 \in 1 .. Len(v)
    BY <1>4, <1>7, <1>10, <1>12
  <2>2. b - a + 1 \notin Bad
    BY <1>11
  <2>3. a + (b - a + 1) - 1 = b /\ b <= N + 1
    BY <1>4, <1>7
  <2> QED
    BY <1>7, <1>8, <2>1, <2>2, <2>3
<1>14. Tail(v) \in Seq(CrumbItems) /\ b - a \in 1 .. Len(Tail(v)) /\ Tail(v)[b - a] = y
  <2>1. v # <<>>
    BY <1>10
  <2>2. Tail(v) \in Seq(CrumbItems) /\ Len(Tail(v)) = Len(v) - 1 /\ \A k \in 1 .. Len(Tail(v)) : Tail(v)[k] = v[k + 1]
    BY <1>10, <2>1, HeadTailProperties
  <2>3. b - a \in 1 .. Len(Tail(v))
    BY <1>4, <1>7, <1>10, <1>12, <2>2
  <2> QED
    BY <1>13, <2>2, <2>3
<1>15. y \in Paths!ToSet(Tail(v))
  BY <1>14, InCrumbs
<1> QED
  BY <1>1, <1>9, <1>15

\* The crumbs of one item by themselves: where they start, that they go up one by one, and
\* where they end.
PathOf(f, i) == WithinDepth(Ancestors(f, i))

LEMMA PathIs ==
    ASSUME NEW f \in Forests, NEW i \in CrumbItems, NEW p, p = PathOf(f, i), m_selectionDepth \in Int
    PROVE  /\ p \in Seq(CrumbItems)
           /\ Len(p) >= 1 <=> f[i] # NoItem /\ m_selectionDepth # 0
           /\ Len(p) >= 1 => p[1] = f[i]
           /\ \A k \in 1 .. Len(p) - 1 : p[k + 1] = f[p[k]]
           /\ m_selectionDepth >= 0 => Len(p) <= m_selectionDepth
           /\ m_selectionDepth < 0 /\ Len(p) >= 1 => f[p[Len(p)]] = NoItem
<1>1. PICK w : IsWay(f, i, w) /\ Ancestors(f, i) = Tail(w) /\ f[w[Len(w)]] = NoItem
  BY WayToTop
<1>2. w \in Seq(CrumbItems) /\ Len(w) \in Nat /\ Len(w) >= 1 /\ w[1] = i
  BY <1>1 DEF IsWay
<1> DEFINE up == Tail(w)
<1>3. up \in Seq(CrumbItems) /\ Len(up) = Len(w) - 1 /\ \A k \in 1 .. Len(up) : up[k] = w[k + 1]
  <2>1. w # <<>>
    BY <1>2
  <2> QED
    BY <1>2, <2>1, HeadTailProperties
<1>4. f \in UpFunctions
  BY CrumbsAssumption DEF Forests, UpFunctions
<1>5. \A k \in 1 .. Len(w) - 1 : w[k + 1] = f[w[k]]
  BY <1>1 DEF IsWay
<1>6. /\ Len(up) >= 1 <=> f[i] # NoItem
      /\ Len(up) >= 1 => up[1] = f[i] /\ f[up[Len(up)]] = NoItem
      /\ \A k \in 1 .. Len(up) - 1 : up[k + 1] = f[up[k]]
  <2>1. \A k \in 1 .. Len(up) - 1 : up[k + 1] = f[up[k]]
    BY <1>2, <1>3, <1>5
  <2>2. CASE Len(up) >= 1
    <3>1. up[1] = w[2] /\ w[2] = f[w[1]] /\ up[Len(up)] = w[Len(w)] /\ up[1] \in CrumbItems
      BY <1>2, <1>3, <1>5, <2>2
    <3> QED
      BY <1>1, <1>2, <2>1, <2>2, <3>1, CrumbsAssumption
  <2>3. CASE Len(up) < 1
    <3>1. Len(w) = 1
      BY <1>2, <1>3, <2>3
    <3> QED
      BY <1>1, <1>2, <1>3, <2>3, <3>1
  <2> QED
    BY <1>2, <1>3, <2>2, <2>3
<1>7. p = WithinDepth(up)
  BY <1>1 DEF PathOf
<1> HIDE DEF up
<1>8. CASE m_selectionDepth < 0
  <2>1. p = up
    BY <1>7, <1>8 DEF WithinDepth
  <2> QED
    BY <1>3, <1>6, <1>8, <2>1
<1>9. CASE m_selectionDepth >= 0
  <2> DEFINE M == Sets!Min({m_selectionDepth, Len(up)})
  <2>1. Len(up) \in Nat /\ M \in Nat /\ M = IF m_selectionDepth < Len(up) THEN m_selectionDepth ELSE Len(up)
    <3> DEFINE D == {m_selectionDepth, Len(up)}
               x == IF m_selectionDepth < Len(up) THEN m_selectionDepth ELSE Len(up)
    <3>1. Len(up) \in Nat /\ m_selectionDepth \in Nat
      BY <1>3, <1>9
    <3>2. x \in D /\ \A y \in D : x <= y
      BY <3>1
    <3>3. \A z \in D : (\A y \in D : z <= y) => z = x
      BY <3>1
    <3>4. M = x
      <4> HIDE DEF x
      <4>1. M = CHOOSE z \in D : \A y \in D : z <= y
        BY DEF Sets!Min
      <4> HIDE DEF M, D
      <4> QED
        BY <3>2, <3>3, <4>1
    <3> HIDE DEF M
    <3> QED
      BY <3>1, <3>4
  <2>2. p = SubSeq(up, 1, M)
    <3>1. ~(m_selectionDepth < 0)
      BY <1>9
    <3>2. WithinDepth(up) = SubSeq(up, 1, Sets!Min({m_selectionDepth, Len(up)}))
      BY <3>1 DEF WithinDepth
    <3> QED
      BY <1>7, <3>2
  <2> HIDE DEF M
  <2>3. p \in Seq(CrumbItems) /\ Len(p) = M /\ \A k \in 1 .. M : p[k] = up[k]
    <3>1. \A k \in 1 .. M : up[k] \in CrumbItems
      BY <1>3, <2>1
    <3> QED
      BY <1>3, <2>1, <2>2, <3>1, SubSeqProperties
  <2> QED
    BY <1>6, <1>9, <2>1, <2>3
<1> QED
  BY <1>8, <1>9

\* f has a parent of n, and S it.
ParentIn(f, n, S) == f[n] # NoItem => f[n] \in S

CrumbsOf(f, i) == Paths!ToSet(PathOf(f, i))

\* Where the crumbs of an item end early, those in acc go on.
LEMMA CrumbsJoin ==
    ASSUME NEW f \in Forests, NEW i \in CrumbItems, NEW acc \in SUBSET CrumbItems, m_selectionDepth \in Int,
           NEW R, R = WithCrumbsOf(f, i, acc)
    PROVE  /\ acc \subseteq R /\ R \subseteq acc \cup CrumbsOf(f, i) /\ R \subseteq CrumbItems
           /\ m_selectionDepth # 0 => ParentIn(f, i, R)
           /\ m_selectionDepth < 0 => \A x \in R \ acc : ParentIn(f, x, R)
<1>1. PICK p : p = PathOf(f, i)
  OBVIOUS
<1>2. /\ p \in Seq(CrumbItems)
      /\ Len(p) >= 1 <=> f[i] # NoItem /\ m_selectionDepth # 0
      /\ Len(p) >= 1 => p[1] = f[i]
      /\ \A k \in 1 .. Len(p) - 1 : p[k + 1] = f[p[k]]
      /\ m_selectionDepth < 0 /\ Len(p) >= 1 => f[p[Len(p)]] = NoItem
  BY <1>1, PathIs
<1>3. Len(p) \in Nat /\ DOMAIN p = 1 .. Len(p)
  BY <1>2
<1> DEFINE Open == {n \in 1 .. Len(p) : \A j \in 1 .. n : p[j] \notin acc}
           Met == {p[k] : k \in Open}
<1>4. R = acc \cup Met
  BY <1>1, <1>3 DEF WithCrumbsOf, PathOf
<1>5. Met \subseteq CrumbsOf(f, i) /\ Met \subseteq CrumbItems
  BY <1>1, <1>2, <1>3 DEF CrumbsOf, Paths!ToSet
<1>6. ASSUME m_selectionDepth # 0, f[i] # NoItem PROVE f[i] \in R
  <2>1. 1 \in 1 .. Len(p) /\ p[1] = f[i] /\ \A j \in 1 .. 1 : j = 1
    BY <1>2, <1>3, <1>6
  <2> QED
    BY <1>4, <2>1
<1>7. ASSUME m_selectionDepth < 0, NEW x \in R \ acc, f[x] # NoItem PROVE f[x] \in R
  <2>1. PICK n \in Open : p[n] = x
    BY <1>4, <1>7
  <2>a. n \in 1 .. Len(p)
    OBVIOUS
  <2> HIDE DEF Open
  <2>b. p[n] = x
    BY <2>1
  <2>c. Len(p) >= 1 /\ Len(p) \in Nat
    BY <1>3, <2>a
  <2>d. f[p[Len(p)]] = NoItem
    BY <1>2, <1>7, <2>c
  <2>2. n # Len(p)
    BY <1>7, <2>b, <2>d
  <2>3. n \in 1 .. Len(p) - 1 /\ n + 1 \in 1 .. Len(p) /\ p[n + 1] = f[x]
    <3>1. n \in 1 .. Len(p) - 1
      BY <2>2, <2>c, <2>a
    <3> QED
      BY <1>2, <2>b, <2>c, <3>1
  <2> USE DEF Open
  <2>4. CASE p[n + 1] \in acc
    BY <1>4, <2>3, <2>4
  <2>5. CASE p[n + 1] \notin acc
    <3>1. \A j \in 1 .. n + 1 : j \in 1 .. n \/ j = n + 1
      BY <2>1
    <3>2. n + 1 \in Open
      BY <2>1, <2>3, <2>5, <3>1
    <3> QED
      BY <1>4, <2>3, <3>2
  <2> QED
    BY <2>4, <2>5
<1> HIDE DEF Met
<1> QED
  BY <1>4, <1>5, <1>6, <1>7 DEF ParentIn

\* A set that has the parents of S, and goes on upwards from there, has all ancestors of S.
LEMMA ClosedHasCrumbs ==
    ASSUME NEW f \in Forests, NEW S \in SUBSET CrumbItems, NEW C, m_selectionDepth \in Int, m_selectionDepth <= 1,
           m_selectionDepth # 0 => \A i \in S : ParentIn(f, i, C),
           m_selectionDepth < 0 => \A x \in C : ParentIn(f, x, C)
    PROVE  \A i \in S : CrumbsOf(f, i) \subseteq C
<1> SUFFICES ASSUME NEW i \in S PROVE CrumbsOf(f, i) \subseteq C
  OBVIOUS
<1>1. PICK p : p = PathOf(f, i)
  OBVIOUS
<1>2. /\ p \in Seq(CrumbItems)
      /\ Len(p) >= 1 <=> f[i] # NoItem /\ m_selectionDepth # 0
      /\ Len(p) >= 1 => p[1] = f[i]
      /\ \A k \in 1 .. Len(p) - 1 : p[k + 1] = f[p[k]]
      /\ m_selectionDepth >= 0 => Len(p) <= m_selectionDepth
  BY <1>1, PathIs
<1>3. Len(p) \in Nat
  BY <1>2
<1> DEFINE Bad == {k \in 1 .. Len(p) : p[k] \notin C}
<1>4. Bad = {}
  <2> SUFFICES ASSUME Bad # {} PROVE FALSE
    OBVIOUS
  <2>1. PICK m \in Bad : \A n \in Bad : m <= n
    <3>1. Bad \in SUBSET Nat
      BY <1>3
    <3> HIDE DEF Bad
    <3> QED
      BY <3>1, LeastExists
  <2>2. m # 1
    BY <1>2, <2>1 DEF ParentIn
  <2>3. m - 1 \in 1 .. Len(p) - 1 /\ m - 1 \in 1 .. Len(p) /\ m - 1 \notin Bad /\ (m - 1) + 1 = m
    BY <1>3, <2>1, <2>2
  <2>4. m_selectionDepth < 0
    BY <1>2, <1>3, <2>3
  <2>5. p[m - 1] \in C /\ p[m] = f[p[m - 1]]
    BY <1>2, <2>3
  <2>6. p[m] \in CrumbItems
    BY <1>2, <2>1
  <2> QED
    BY <2>1, <2>4, <2>5, <2>6, CrumbsAssumption DEF ParentIn
<1>5. \A k \in 1 .. Len(p) : p[k] \in C
  BY <1>4
<1> QED
  BY <1>1, <1>2, <1>5, InCrumbs DEF CrumbsOf

\* Each item of S has its turn.
LEMMA EachHasTurn ==
    ASSUME NEW S \in SUBSET CrumbItems, NEW order \in Paths!SetToSeqs(S)
    PROVE  /\ order \in Seq(S)
           /\ \A i \in S : \E k \in 1 .. Len(order) : order[k] = i
<1> DEFINE D == 1 .. Cardinality(S)
<1>1. IsFiniteSet(S) /\ Cardinality(S) \in Nat
  BY CrumbsAssumption, FS_Subset, FS_CardinalityType
<1>2. order \in [D -> S] /\ \A j, k \in D : j # k => order[j] # order[k]
  <2>1. order \in {g \in [D -> S] : \A i, j \in D : i # j => g[i] # g[j]}
    <3>1. Paths!Cardinality(S) = Cardinality(S)
      BY DEF Paths!Cardinality, Cardinality
    <3> QED
      BY <3>1 DEF Paths!SetToSeqs
  <2> HIDE DEF D
  <2> QED
    BY <2>1
<1>3. order \in Seq(S) /\ Len(order) = Cardinality(S)
  BY <1>1, <1>2
<1>4. IsFiniteSet(D) /\ Cardinality(D) = Cardinality(S)
  BY <1>1, FS_Interval
<1> HIDE DEF D
<1>5. order \in Injection(D, S)
  BY <1>2 DEF Injection, IsInjective
<1>6. order \in Surjection(D, S)
  BY <1>1, <1>4, <1>5, FS_Injection
<1> QED
  BY <1>3, <1>6 DEF Surjection, D

\* In whatever order the items of S are taken, they get all of their crumbs.
LEMMA CrumbsComplete ==
    ASSUME NEW f \in Forests, NEW S \in SUBSET CrumbItems, m_selectionDepth \in Int, m_selectionDepth <= 1,
           NEW C \in getBreadcrumbSelection(f, S)
    PROVE  C = Wanted(f, S)
<1> DEFINE base == IF m_includeActualSelection THEN S ELSE {}
           Body(order, g) == [k \in 0 .. Len(order) |->
                                 IF k = 0 THEN IF m_includeActualSelection THEN S ELSE {}
                                 ELSE WithCrumbsOf(f, order[k], g[k - 1])]
           accOf(order) == CHOOSE g : g = Body(order, g)
<1>1. PICK order \in Paths!SetToSeqs(S) : C = accOf(order)[Len(order)]
  BY DEF getBreadcrumbSelection
<1> DEFINE acc == accOf(order)
           N == Len(order)
           T == SUBSET CrumbItems
           G == [x \in (1 .. N) \X T |-> WithCrumbsOf(f, order[x[1]], x[2])]
<1>2. N \in Nat /\ \A k \in 1 .. N : order[k] \in S
  BY EachHasTurn
<1>3. base \in T
  OBVIOUS
<1>4. G \in [(1 .. N) \X T -> T]
  BY <1>2, CrumbsJoin
<1>5. \E g : g = Body(order, g)
  <2>1. PICK b : b = base
    OBVIOUS
  <2>2. PICK g \in [0 .. N -> T] : Turns(g, b, N, G)
    <3> HIDE DEF G, N, T, base
    <3> QED
      BY <1>2, <1>3, <1>4, <2>1, LoopComputes
  <2>3. ASSUME NEW n \in 0 .. N
        PROVE  (IF n = 0 THEN b ELSE G[<<n, g[n - 1]>>]) = Body(order, g)[n]
    <3>1. n # 0 => n \in 1 .. N /\ n - 1 \in 0 .. N
      BY <1>2
    <3>2. n # 0 => G[<<n, g[n - 1]>>] = WithCrumbsOf(f, order[n], g[n - 1])
      BY <2>2, <3>1
    <3> QED
      BY <2>1, <3>2
  <2>4. g = Body(order, g)
    BY <2>2, <2>3 DEF Turns
  <2> QED
    BY <2>4
<1>6. acc = Body(order, acc)
  <2> HIDE DEF Body
  <2> QED
    BY <1>5
<1> HIDE DEF acc, accOf, G
<1>7. acc[0] = base /\ \A k \in 1 .. N : acc[k] = WithCrumbsOf(f, order[k], acc[k - 1])
  <2>1. \A n \in 0 .. N : acc[n] = Body(order, acc)[n]
    BY <1>6
  <2>2. 0 \in 0 .. N /\ \A n \in 1 .. N : n \in 0 .. N /\ n # 0
    BY <1>2
  <2> QED
    BY <2>1, <2>2
<1> DEFINE W == UNION {CrumbsOf(f, i) : i \in S}
           Good(k, A) == /\ base \subseteq A /\ A \subseteq base \cup W /\ A \subseteq CrumbItems
                         /\ m_selectionDepth # 0 => \A j \in 1 .. k : ParentIn(f, order[j], A)
                         /\ m_selectionDepth < 0 => \A x \in A \ base : ParentIn(f, x, A)
           Bad == {k \in 0 .. N : ~Good(k, acc[k])}
<1> HIDE DEF Body
<1>8. Bad = {}
  <2> SUFFICES ASSUME Bad # {} PROVE FALSE
    OBVIOUS
  <2>0. Good(0, acc[0])
    BY <1>3, <1>7
  <2> HIDE DEF Good
  <2>1. PICK m \in Bad : \A n \in Bad : m <= n
    <3>1. Bad \in SUBSET Nat
      OBVIOUS
    <3> HIDE DEF Bad
    <3> QED
      BY <3>1, LeastExists
  <2>2. m # 0
    BY <2>0, <2>1
  <2>3. m \in 1 .. N /\ m - 1 \in 0 .. N /\ Good(m - 1, acc[m - 1])
    BY <1>2, <2>1, <2>2
  <2>4. PICK A, R : A = acc[m - 1] /\ R = acc[m]
    OBVIOUS
  <2>5. PICK i \in S : i = order[m]
    BY <1>2, <2>3
  <2>6. Good(m - 1, A) /\ R = WithCrumbsOf(f, i, A)
    BY <1>7, <2>3, <2>4, <2>5
  <2>7. A \in SUBSET CrumbItems
    BY <2>6 DEF Good
  <2>8. /\ A \subseteq R /\ R \subseteq A \cup CrumbsOf(f, i) /\ R \subseteq CrumbItems
        /\ m_selectionDepth # 0 => ParentIn(f, i, R)
        /\ m_selectionDepth < 0 => \A x \in R \ A : ParentIn(f, x, R)
    BY <2>6, <2>7, CrumbsJoin
  <2>9. CrumbsOf(f, i) \subseteq W
    OBVIOUS
  <2> HIDE DEF W
  <2>10. \A j \in 1 .. m : j \in 1 .. m - 1 \/ j = m
    BY <2>3
  <2>11. Good(m, R)
    BY <2>5, <2>6, <2>8, <2>9, <2>10 DEF Good, ParentIn
  <2> QED
    BY <2>1, <2>4, <2>11
<1>9. Good(N, C)
  <2>1. N \in 0 .. N
    BY <1>2
  <2> HIDE DEF Good
  <2>2. Good(N, acc[N])
    BY <1>8, <2>1
  <2> QED
    BY <1>1, <2>2 DEF acc
<1>10. m_selectionDepth # 0 => \A i \in S : ParentIn(f, i, C)
  BY <1>9, EachHasTurn
<1>11. m_selectionDepth < 0 => \A x \in C : ParentIn(f, x, C)
  BY <1>9, <1>10
<1>12. \A i \in S : CrumbsOf(f, i) \subseteq C
  BY <1>10, <1>11, ClosedHasCrumbs
<1>13. W \subseteq C
  BY <1>12
<1> HIDE DEF W
<1>14. C = W \cup base
  BY <1>9, <1>13
<1> HIDE DEF base
<1>15. Wanted(f, S) = W \cup base
  BY DEF Wanted, CrumbsOf, PathOf, W, base
<1> QED
  BY <1>14, <1>15

\* What is wanted for two sets of items is what is wanted for each.
LEMMA WantedJoins ==
    ASSUME NEW f, NEW S, NEW T
    PROVE  Wanted(f, S \cup T) = Wanted(f, S) \cup Wanted(f, T)
<1> DEFINE U(X) == UNION {Paths!ToSet(WithinDepth(Ancestors(f, i))) : i \in X}
           B(X) == IF m_includeActualSelection THEN X ELSE {}
<1>1. \A X : Wanted(f, X) = U(X) \cup B(X)
  BY DEF Wanted
<1>2. U(S \cup T) = U(S) \cup U(T)
  OBVIOUS
<1>3. B(S \cup T) = B(S) \cup B(T)
  OBVIOUS
<1> HIDE DEF U, B
<1> QED
  BY <1>1, <1>2, <1>3

LEMMA WantedOfPart ==
    ASSUME NEW f, NEW S, NEW T
    PROVE  Wanted(f, S \ T) \subseteq Wanted(f, S)
<1>1. PICK A, B : A = S \ T /\ B = S \cap T
  OBVIOUS
<1>2. S = A \cup B
  BY <1>1
<1>3. Wanted(f, A \cup B) = Wanted(f, A) \cup Wanted(f, B)
  BY WantedJoins
<1> QED
  BY <1>1, <1>2, <1>3

\* The breadcrumbs, with depths for which the order of the selection makes no difference.
\* A breadcrumb model that selects in the other one has that one for itself.
CrumbsInv ==
    /\ itemParent \in Forests /\ m_selectionDepth \in Int /\ m_selectionDepth <= 1
    /\ ~crumbsCut /\ (~InOther => Does("move") /\ linked = None)
    /\ BreadcrumbsLeadThere

\* The direction stays, and f, S and C are the tree, the selection and the crumbs after a step.
LEMMA CrumbsKept ==
    ASSUME CrumbsInv, NEW f \in Forests, NEW S, NEW C, itemParent' = f,
           S = IF InOther THEN selected'[Trail] ELSE own', C = IF InOther THEN own' ELSE selected'[Trail],
           C \subseteq Wanted(f, S), ~crumbsShared' => C = Wanted(f, S), ~crumbsCut',
           ~InOther => linked' = None,
           UNCHANGED <<m_direction, m_includeActualSelection, m_selectionDepth, operations>>
    PROVE  CrumbsInv'
<1>1. InOther' <=> InOther
  BY DEF InOther
<1>2. Chosen(selected[Trail])' = S /\ Crumbs(selected[Trail])' = C
  BY <1>1 DEF Chosen, Crumbs
<1>3. Wanted(itemParent, Chosen(selected[Trail]))' = Wanted(f, S)
  BY <1>2 DEF Wanted, WithinDepth
<1>4. BreadcrumbsLeadThere'
  BY <1>2, <1>3 DEF BreadcrumbsLeadThere
<1>5. Does("move")' <=> Does("move")
  BY DEF Does
<1> QED
  BY <1>1, <1>4, <1>5 DEF CrumbsInv

\* What the invariant says of the state before a step.
LEMMA CrumbsAre ==
    ASSUME CrumbsInv
    PROVE  /\ m_selectionDepth \in Int /\ m_selectionDepth <= 1 /\ itemParent \in Forests
           /\ InOther => own \subseteq Wanted(itemParent, selected[Trail])
                         /\ (~crumbsShared => own = Wanted(itemParent, selected[Trail]))
           /\ ~InOther => selected[Trail] \subseteq Wanted(itemParent, own)
                          /\ (~crumbsShared => selected[Trail] = Wanted(itemParent, own))
           /\ \A f, S : ~Cut(f, S)
BY DEF CrumbsInv, BreadcrumbsLeadThere, Chosen, Crumbs, Cut

\* sourceSelectionChanged takes away the crumbs of what is deselected only, and adds
\* those of what is selected.
LEMMA SlotKeepsCrumbs ==
    ASSUME CrumbsInv, selected[Trail] \subseteq CrumbItems, selected'[Trail] \subseteq CrumbItems, InOther,
           sourceSelectionChangedCrumbs(selected[Trail], selected'[Trail]), UNCHANGED operations
    PROVE  CrumbsInv'
<1>1. PICK f, before, now : f = itemParent /\ before = selected[Trail] /\ now = selected'[Trail]
  OBVIOUS
<1>2. /\ f \in Forests /\ m_selectionDepth \in Int /\ m_selectionDepth <= 1
      /\ before \in SUBSET CrumbItems /\ now \in SUBSET CrumbItems
      /\ before \ now \in SUBSET CrumbItems /\ now \ before \in SUBSET CrumbItems
  BY <1>1 DEF CrumbsInv
<1>3. /\ crumbsShared' = (crumbsShared \/ (Wanted(f, before \ now) \ Wanted(f, now \ before)) \cap Wanted(f, now) # {})
      /\ crumbsCut' = (crumbsCut \/ Cut(f, before \ now) \/ Cut(f, now \ before))
      /\ UNCHANGED <<itemParent, m_direction, m_includeActualSelection, m_selectionDepth>>
  BY <1>1, Zenon DEF sourceSelectionChangedCrumbs
<1>4. PICK removed \in getBreadcrumbSelection(f, before \ now), added \in getBreadcrumbSelection(f, now \ before) :
          own' = (own \ (removed \ added)) \cup (added \ removed)
  BY <1>1 DEF sourceSelectionChangedCrumbs, crumbsAfter
<1>5. removed = Wanted(f, before \ now) /\ added = Wanted(f, now \ before)
  BY <1>2, <1>4, CrumbsComplete
<1>6. /\ Wanted(f, before) = Wanted(f, before \cap now) \cup removed
      /\ Wanted(f, now) = Wanted(f, before \cap now) \cup added
  <2>1. before = (before \cap now) \cup (before \ now) /\ now = (before \cap now) \cup (now \ before)
    OBVIOUS
  <2> QED
    BY <1>5, <2>1, WantedJoins
<1>7. own \subseteq Wanted(f, before) /\ (~crumbsShared => own = Wanted(f, before))
  BY <1>1, CrumbsAre
<1>8. own' \subseteq Wanted(f, now)
  BY <1>4, <1>6, <1>7
<1>9. ASSUME ~crumbsShared' PROVE own' = Wanted(f, now)
  <2>1. ~crumbsShared /\ (removed \ added) \cap Wanted(f, now) = {}
    BY <1>3, <1>5, <1>9
  <2> QED
    BY <1>4, <1>6, <1>7, <2>1
<1>10. ~crumbsCut'
  BY <1>3, CrumbsAre DEF CrumbsInv
<1>11. PICK C : C = own'
  OBVIOUS
<1> QED
  BY <1>1, <1>2, <1>3, <1>8, <1>9, <1>10, <1>11, CrumbsKept

\* What is selected through the breadcrumb model has its crumbs, whichever model gets them.
LEMMA ThroughKeepsCrumbs ==
    ASSUME CrumbsInv, selected[Trail] \subseteq CrumbItems, NEW T \in SUBSET CrumbItems,
           NEW command \in {"Select", "ClearAndSelect"}, NEW bcc \in getBreadcrumbSelection(itemParent, T),
           selected'[Trail] = Apply(selected[Trail], SelectedInOther(T, bcc), command),
           selected'[Trail] \subseteq CrumbItems,
           SelectThroughCrumbs(T, bcc, command, selected[Trail], selected'[Trail]), UNCHANGED <<operations, linked>>
    PROVE  CrumbsInv'
<1>1. PICK f, before, now : f = itemParent /\ before = selected[Trail] /\ now = selected'[Trail]
  OBVIOUS
<1>2. f \in Forests /\ m_selectionDepth \in Int /\ m_selectionDepth <= 1 /\ now \ before \in SUBSET CrumbItems
  BY <1>1 DEF CrumbsInv
<1>3. bcc = Wanted(f, T)
  BY <1>1, <1>2, CrumbsComplete
<1>4. /\ crumbsShared' = (command = "Select" /\ crumbsShared)
      /\ crumbsCut' = (Cut(f, T) \/ (command = "Select" /\ (crumbsCut \/ Cut(f, now \ before))))
      /\ UNCHANGED <<itemParent, m_direction, m_includeActualSelection, m_selectionDepth>>
  BY <1>1 DEF SelectThroughCrumbs
<1>5. ~crumbsCut'
  BY <1>4, CrumbsAre DEF CrumbsInv
<1>6. ~InOther => linked' = None
  BY DEF CrumbsInv
<1>7. CASE InOther
  <2>1. now = IF command = "Select" THEN before \cup T ELSE T
    BY <1>1, <1>7 DEF SelectedInOther, Apply
  <2>2. PICK added \in getBreadcrumbSelection(f, now \ before) :
            own' = bcc \cup (IF command = "Select" THEN own \cup added ELSE {})
    BY <1>1, <1>7 DEF SelectThroughCrumbs, crumbsAfter
  <2>3. added = Wanted(f, now \ before)
    BY <1>2, <2>2, CrumbsComplete
  <2>4. own \subseteq Wanted(f, before) /\ (~crumbsShared => own = Wanted(f, before))
    BY <1>1, <1>7, CrumbsAre
  <2>5. added \subseteq Wanted(f, now)
    BY <2>3, WantedOfPart
  <2>6. Wanted(f, before \cup T) = Wanted(f, before) \cup Wanted(f, T)
    BY WantedJoins
  <2>7. CASE command = "Select"
    <3>1. now = before \cup T /\ own' = bcc \cup own \cup added
      BY <2>1, <2>2, <2>7
    <3>2. Wanted(f, now) = Wanted(f, before) \cup bcc
      BY <1>3, <2>6, <3>1
    <3>3. own' \subseteq Wanted(f, now) /\ (~crumbsShared' => own' = Wanted(f, now))
      BY <1>4, <2>4, <2>5, <2>7, <3>1, <3>2
    <3>4. PICK C : C = own'
      OBVIOUS
    <3> QED
      BY <1>1, <1>2, <1>4, <1>5, <1>7, <3>3, <3>4, CrumbsKept
  <2>8. CASE command # "Select"
    <3>1. now = T /\ own' = bcc
      BY <2>1, <2>2, <2>8
    <3> QED
      BY <1>1, <1>2, <1>3, <1>4, <1>5, <1>7, <3>1, CrumbsKept
  <2> QED
    BY <2>7, <2>8
<1>8. CASE ~InOther
  <2>1. now = IF command = "Select" THEN before \cup bcc ELSE bcc
    BY <1>1, <1>8 DEF SelectedInOther, Apply
  <2>2. PICK S, S0 : S = own' /\ S0 = own
    OBVIOUS
  <2>3. S = T \cup (IF command = "Select" THEN S0 ELSE {})
    BY <1>8, <2>2 DEF SelectThroughCrumbs
  <2>4. before \subseteq Wanted(f, S0) /\ (~crumbsShared => before = Wanted(f, S0))
    BY <1>1, <1>8, <2>2, CrumbsAre
  <2>5. Wanted(f, T \cup S0) = Wanted(f, T) \cup Wanted(f, S0)
    BY WantedJoins
  <2>6. CASE command = "Select"
    <3>1. now = before \cup bcc /\ S = T \cup S0
      BY <2>1, <2>3, <2>6
    <3>2. now \subseteq Wanted(f, S) /\ (~crumbsShared' => now = Wanted(f, S))
      BY <1>3, <1>4, <2>4, <2>5, <2>6, <3>1
    <3> QED
      BY <1>1, <1>2, <1>4, <1>5, <1>6, <1>8, <2>2, <3>2, CrumbsKept
  <2>7. CASE command # "Select"
    <3>1. now = bcc /\ S = T
      BY <2>1, <2>3, <2>7
    <3> QED
      BY <1>1, <1>2, <1>3, <1>4, <1>5, <1>6, <1>8, <2>2, <3>1, CrumbsKept
  <2> QED
    BY <2>6, <2>7
<1> QED
  BY <1>7, <1>8

\* When an item has moved, the crumbs are made anew.
LEMMA MoveKeepsCrumbs ==
    ASSUME CrumbsInv, selected[Trail] \subseteq CrumbItems, NEW i, NEW p,
           NEW bcc \in getBreadcrumbSelection([itemParent EXCEPT ![i] = p], selected[Trail]),
           selected'[Trail] = Apply(selected[Trail], SelectedInOther(selected[Trail], bcc), "ClearAndSelect"),
           MoveItem(i, p, bcc, selected[Trail]), UNCHANGED <<operations, linked>>
    PROVE  CrumbsInv'
<1>1. PICK f, S : f = itemParent' /\ S = selected[Trail]
  OBVIOUS
<1>2. /\ f \in Forests /\ f = [itemParent EXCEPT ![i] = p] /\ S \in SUBSET CrumbItems
      /\ own' = (IF InOther THEN bcc ELSE S) /\ crumbsShared' = FALSE /\ crumbsCut' = Cut(f, S)
      /\ UNCHANGED <<m_direction, m_includeActualSelection, m_selectionDepth>>
  BY <1>1 DEF MoveItem
<1>3. m_selectionDepth \in Int /\ m_selectionDepth <= 1
  BY DEF CrumbsInv
<1>4. bcc = Wanted(f, S)
  BY <1>1, <1>2, <1>3, CrumbsComplete
<1>5. ~crumbsCut' /\ (~InOther => linked' = None)
  BY <1>2, CrumbsAre DEF CrumbsInv
<1>6. selected'[Trail] = IF InOther THEN S ELSE bcc
  BY <1>1 DEF Apply, SelectedInOther
<1> QED
  BY <1>1, <1>2, <1>4, <1>5, <1>6, CrumbsKept

LEMMA NextKeepsCrumbs ==
    ASSUME LinkInv, LinkInv', CrumbsInv, [Next]_vars
    PROVE  CrumbsInv'
<1>1. /\ Trail \in Selections /\ Trail # Link /\ CrumbItems = Items /\ LinkTypes
      /\ selected \in [Selections -> SUBSET Items] /\ selected' \in [Selections -> SUBSET Items]
  BY TrailAssumption, LinkAssumption DEF LinkInv, LinkTypes, Selections
<1>2. selected[Trail] \subseteq CrumbItems /\ selected'[Trail] \subseteq CrumbItems
  BY <1>1
<1>3. ASSUME UNCHANGED <<crumbVars, operations>>, selected'[Trail] = selected[Trail], ~InOther => linked' = None
      PROVE CrumbsInv'
  <2>1. PICK f, S, C : /\ f = itemParent /\ S = IF InOther THEN selected[Trail] ELSE own
                       /\ C = IF InOther THEN own ELSE selected[Trail]
    OBVIOUS
  <2>2. UNCHANGED <<itemParent, own, m_direction, m_includeActualSelection, m_selectionDepth, crumbsShared,
                    crumbsCut, operations>>
    BY <1>3 DEF crumbVars
  <2>3. f \in Forests /\ C \subseteq Wanted(f, S) /\ (~crumbsShared => C = Wanted(f, S))
    BY <2>1, CrumbsAre
  <2>4. ~crumbsCut'
    BY <2>2 DEF CrumbsInv
  <2> QED
    BY <1>3, <2>1, <2>2, <2>3, <2>4, CrumbsKept
<1>4. ASSUME Slots, UNCHANGED operations, ~InOther => selected'[Trail] = selected[Trail] /\ linked' = None
      PROVE CrumbsInv'
  BY <1>2, <1>3, <1>4, SlotKeepsCrumbs DEF Slots
<1>5. ~InOther => linked = None /\ calls = <<>> /\ Does("move")
  BY <1>1 DEF CrumbsInv, LinkTypes
<1>6. CASE SelectIndexOfLink \/ SelectInLink \/ SetCheckState
  <2>1. PICK T : \E command : LinkSelect(T, command) \/ LinkSelectIndex(T, command)
    BY <1>6 DEF SelectIndexOfLink, SelectInLink, SetCheckState
  <2>2. InOther /\ UNCHANGED operations
    BY <1>5, <2>1 DEF LinkSelect, LinkSelectIndex, Own
  <2> QED
    BY <1>4, <1>6, <2>2 DEF SelectIndexOfLink, SelectInLink, SetCheckState
<1>7. CASE ForwardToLinked \/ TellLinkDeselected \/ TellLinkSelected \/ RelinkToModel
  <2>1. InOther /\ UNCHANGED operations
    BY <1>5, <1>7 DEF ForwardToLinked, TellLinkDeselected, TellLinkSelected, RelinkToModel, Forward, TellDeselected,
                      TellSelected, SetModelOfLinked, Idle
  <2> QED
    BY <1>4, <1>7, <2>1 DEF ForwardToLinked, TellLinkDeselected, TellLinkSelected, RelinkToModel
<1>8. CASE Relink
  <2>1. InOther /\ UNCHANGED operations
    BY <1>5, <1>8 DEF Relink, SetLinkedItemSelectionModel
  <2> QED
    BY <1>4, <1>8, <2>1 DEF Relink
<1>9. CASE SelectInOther
  <2>1. PICK r \in Others : (r = Trail => InOther) /\ Slots /\ \E T, command : SelectOther(r, T, command)
    BY <1>9 DEF SelectInOther
  <2>2. UNCHANGED <<operations, linked>> /\ r \in Selections
    BY <2>1 DEF SelectOther, linked, Selections
  <2>3. ASSUME ~InOther PROVE selected'[Trail] = selected[Trail] /\ linked' = None
    <3>1. PICK T, command : SelectOther(r, T, command)
      BY <2>1
    <3>2. r # linked /\ r # Trail
      BY <1>5, <2>1, <2>3, LinkAssumption
    <3>3. selected' = [selected EXCEPT ![r] = Apply(@, T, command)]
      BY <3>1, <3>2 DEF SelectOther
    <3> QED
      BY <1>1, <1>5, <2>2, <2>3, <3>2, <3>3
  <2> QED
    BY <1>4, <2>1, <2>2, <2>3
<1>10. CASE ChangeSources \/ ChangeCurrent
  <2>1. UNCHANGED <<crumbVars, operations, selected, linked>>
    BY <1>10 DEF ChangeSources, ChangeCurrent, ChangeSourceModel, SetCurrent, linked
  <2> QED
    BY <1>3, <1>5, <2>1
<1>11. ASSUME NEW T, NEW command, SelectOther(Trail, T, command)
       PROVE  selected'[Trail] = Apply(selected[Trail], T, command) /\ UNCHANGED <<operations, linked>>
  <2>1. selected' = [selected EXCEPT ![Trail] = Apply(selected[Trail], T, command)]
    <3>1. CASE Trail = linked
      BY <1>11, <3>1 DEF SelectOther, LinkedSelects
    <3>2. CASE Trail # linked
      BY <1>11, <3>2 DEF SelectOther
    <3> QED
      BY <3>1, <3>2
  <2>2. UNCHANGED <<operations, linked>>
    BY <1>11 DEF SelectOther, linked
  <2> QED
    BY <1>1, <2>1, <2>2
<1>12. CASE SelectBreadcrumbs
  <2>1. PICK T \in SUBSET Items, command \in {"Select", "ClearAndSelect"} :
            \E bcc \in getBreadcrumbSelection(itemParent, T) :
                /\ SelectOther(Trail, SelectedInOther(T, bcc), command)
                /\ SelectThroughCrumbs(T, bcc, command, selected[Trail], selected'[Trail])
    BY <1>12 DEF SelectBreadcrumbs
  <2>2. PICK bcc \in getBreadcrumbSelection(itemParent, T) :
                /\ SelectOther(Trail, SelectedInOther(T, bcc), command)
                /\ SelectThroughCrumbs(T, bcc, command, selected[Trail], selected'[Trail])
    BY <2>1
  <2>3. selected'[Trail] = Apply(selected[Trail], SelectedInOther(T, bcc), command) /\ UNCHANGED <<operations, linked>>
    BY <1>11, <2>2
  <2> QED
    BY <1>1, <1>2, <2>2, <2>3, ThroughKeepsCrumbs
<1>13. CASE MoveRow
  <2>1. PICK i, p : \E bcc \in getBreadcrumbSelection([itemParent EXCEPT ![i] = p], selected[Trail]) :
            /\ MoveItem(i, p, bcc, selected[Trail])
            /\ SelectOther(Trail, SelectedInOther(selected[Trail], bcc), "ClearAndSelect")
    BY <1>13 DEF MoveRow
  <2>2. PICK bcc \in getBreadcrumbSelection([itemParent EXCEPT ![i] = p], selected[Trail]) :
            /\ MoveItem(i, p, bcc, selected[Trail])
            /\ SelectOther(Trail, SelectedInOther(selected[Trail], bcc), "ClearAndSelect")
    BY <2>1
  <2>3. /\ selected'[Trail] = Apply(selected[Trail], SelectedInOther(selected[Trail], bcc), "ClearAndSelect")
        /\ UNCHANGED <<operations, linked>>
    BY <1>11, <2>2
  <2> QED
    BY <1>2, <2>2, <2>3, MoveKeepsCrumbs
<1>14. CASE UNCHANGED vars
  <2>1. UNCHANGED <<crumbVars, operations, selected, linked>>
    BY <1>14 DEF vars, linkVars, linked
  <2> QED
    BY <1>3, <1>5, <2>1
<1> QED
  BY <1>6, <1>7, <1>8, <1>9, <1>10, <1>12, <1>13, <1>14 DEF Next

LEMMA InitCrumbs == ASSUME MCInit, m_selectionDepth <= 1 PROVE CrumbsInv
<1>1. /\ itemParent \in Forests /\ own = {} /\ crumbsShared = FALSE /\ crumbsCut = FALSE /\ m_selectionDepth \in Int
      /\ selected[Trail] = {} /\ linked = None /\ (~InOther => Does("move"))
  BY CrumbsAssumption, TrailAssumption DEF MCInit, Init, CrumbsInit, Does, linked
<1>2. Chosen(selected[Trail]) = {} /\ Crumbs(selected[Trail]) = {}
  BY <1>1 DEF Chosen, Crumbs
<1>3. Wanted(itemParent, {}) = {}
  BY DEF Wanted
<1> QED
  BY <1>1, <1>2, <1>3 DEF CrumbsInv, BreadcrumbsLeadThere

\* However the selection changes, in either direction, the ancestors that should be
\* selected are, with any number of items, for depths for which the order of the selection
\* makes no difference.
THEOREM BreadcrumbsLeadThereAlways ==
    ASSUME \A d \in Depths : d <= 1
    PROVE  Spec => []BreadcrumbsLeadThere
<1>1. MCInit => CrumbsInv
  BY InitCrumbs DEF MCInit, CrumbsInit
<1>2. LinkInv /\ LinkInv' /\ CrumbsInv /\ [Next]_vars => CrumbsInv'
  BY NextKeepsCrumbs
<1>3. CrumbsInv => BreadcrumbsLeadThere
  BY DEF CrumbsInv
<1> QED
  BY <1>1, <1>2, <1>3, LinkInvAlways, PTL DEF Spec
============================================================================
