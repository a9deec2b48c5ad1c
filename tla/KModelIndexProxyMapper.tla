---------------------- MODULE KModelIndexProxyMapper ----------------------
(***************************************************************************)
(* KModelIndexProxyMapper (kmodelindexproxymapper.cpp): the way from one   *)
(* model to another through the proxy models between them.  It goes from   *)
(* the left model up towards the sources, m_proxyChainUp, and from where   *)
(* the chains meet down to the right model, m_proxyChainDown.  Proxies may *)
(* get another source model at any time.                                   *)
(*                                                                         *)
(* An item keeps its name from model to model: mapping to the source loses *)
(* none, and mapping from the source loses those the proxy does not show.  *)
(***************************************************************************)
EXTENDS Integers, Sequences, FiniteSets

Seqs == INSTANCE SequencesExt

CONSTANTS
    Bases,      \* models that are no proxies
    Proxies,    \* proxy models
    None,       \* no model
    Items,      \* what the models show
    Filter      \* proxy -> the items it lets through

Models == Bases \cup Proxies

ASSUME MapperAssumption ==
    /\ Bases \cap Proxies = {} /\ None \notin Models
    /\ Filter \in [Proxies -> SUBSET Items]

VARIABLES
    sourceModel,        \* proxy -> its source model, or None
    m_leftModel, m_rightModel,
    m_proxyChainUp, m_proxyChainDown,
    mConnected,
    listened            \* the proxies whose sourceModelChanged() calls createProxyChain()

mapperVars == <<m_leftModel, m_rightModel, m_proxyChainUp, m_proxyChainDown, mConnected, listened>>

\* The proxies from m towards the sources, when src gives each its source.
ProxiesFrom(src, m) ==
    LET from[x \in Models \cup {None}] == IF x \in Proxies THEN <<x>> \o from[src[x]] ELSE <<>>
    IN  from[m]

\* The items that m shows.
Shown(m) ==
    LET shown[x \in Models \cup {None}] ==
            IF x \in Proxies THEN Filter[x] \cap shown[sourceModel[x]]
            ELSE IF x = None THEN {} ELSE Items
    IN  shown[m]

Upwards(src, m) == {m} \cup {src[p] : p \in Seqs!ToSet(ProxiesFrom(src, m))}

\* Position of the proxy p among the proxies of chain; 0 when it is not there.
Position(chain, p) == IF p \in Seqs!ToSet(chain) THEN CHOOSE k \in DOMAIN chain : chain[k] = p ELSE 0

----------------------------------------------------------------------------
\* The two chains from left to right; what is connected on the way goes on to the
\* last source even where the chains have met.
Chains(src, left, right) ==
    LET below == ProxiesFrom(src, right)
        above == ProxiesFrom(src, left)
        meets == {j \in 1 .. Len(above) - 1 : Position(below, above[j + 1]) > 0}
        j == CHOOSE n \in meets : \A k \in meets : n <= k
        downTo(n) == Seqs!Reverse(SubSeq(below, 1, n - 1))
        leftAt == Position(below, left)
    IN  IF leftAt > 1
        THEN [up |-> <<>>, down |-> downTo(leftAt), heard |-> Seqs!ToSet(downTo(leftAt))]
        ELSE IF meets # {}
        THEN [up |-> SubSeq(above, 1, j), down |-> downTo(Position(below, above[j + 1])),
              heard |-> Seqs!ToSet(below \o SubSeq(above, 1, j))]
        ELSE [up |-> above, down |-> Seqs!Reverse(below), heard |-> Seqs!ToSet(below \o above)]

\* checkConnected
isConnected(src, left, right, c) ==
    LET konamiRight == IF c.up = <<>> THEN left ELSE src[c.up[Len(c.up)]]
        konamiLeft == IF c.down = <<>> THEN right ELSE src[c.down[1]]
    IN  konamiLeft # None /\ konamiLeft = konamiRight

\* Mutant of createProxyChain: only the chain down is listened to.
createProxyChainDownOnly(src, left, right, old) ==
    LET c == Chains(src, left, right)
    IN  /\ m_leftModel' = left /\ m_rightModel' = right
        /\ m_proxyChainUp' = c.up /\ m_proxyChainDown' = c.down
        /\ mConnected' = isConnected(src, left, right, c)
        /\ listened' = (listened \cap old) \cup Seqs!ToSet(c.down)

\* createProxyChain, with the proxies in old still connected.
createProxyChain(src, left, right, old) ==
    LET c == Chains(src, left, right)
    IN  /\ m_leftModel' = left /\ m_rightModel' = right
        /\ m_proxyChainUp' = c.up /\ m_proxyChainDown' = c.down
        /\ mConnected' = isConnected(src, left, right, c)
        /\ listened' = (listened \cap old) \cup c.heard

\* A new mapper takes the place of the old one; or there is none.
NewMapper(left, right) == createProxyChain(sourceModel, left, right, {})
NoMapper ==
    /\ m_leftModel' = None /\ m_rightModel' = None /\ m_proxyChainUp' = <<>> /\ m_proxyChainDown' = <<>>
    /\ mConnected' = FALSE /\ listened' = {}

\* QAbstractProxyModel::setSourceModel, and the slot when it is connected: the stored
\* chains are disconnected and made anew.
ChangeSource(p, m) ==
    /\ m # sourceModel[p] /\ p # m
    /\ p \notin Seqs!ToSet(ProxiesFrom(sourceModel, m))
    /\ sourceModel' = [sourceModel EXCEPT ![p] = m]
    /\ IF p \in listened
       THEN createProxyChain(sourceModel', m_leftModel, m_rightModel,
                             Proxies \ Seqs!ToSet(m_proxyChainUp \o m_proxyChainDown))
       ELSE UNCHANGED mapperVars

\* What passes the filters of a chain.
Passes(connected, chain, S) == IF connected THEN {i \in S : \A p \in Seqs!ToSet(chain) : i \in Filter[p]} ELSE {}

mapSelectionLeftToRight(S) == Passes(mConnected, m_proxyChainDown, S)
mapSelectionRightToLeft(S) == Passes(mConnected, m_proxyChainUp, S)

\* mapLeftToRight and mapRightToLeft of an index: the first of what its selection maps to,
\* which is an index of the same item; or none, an invalid index.
FirstOf(S) == IF S = {} THEN None ELSE CHOOSE i \in S : TRUE
mapLeftToRight(i) == FirstOf(mapSelectionLeftToRight({i}))
mapRightToLeft(i) == FirstOf(mapSelectionRightToLeft({i}))

----------------------------------------------------------------------------
\* The mapper knows of every change of a source model: it is connected exactly when
\* the two models show a common one, and an item that both show is mapped from each to
\* the other.
ConnectsRelatives ==
    m_leftModel # None =>
        LET common == (Upwards(sourceModel, m_leftModel) \cap Upwards(sourceModel, m_rightModel)) \ {None}
            both == Shown(m_leftModel) \cap Shown(m_rightModel)
        IN  /\ mConnected = (common # {})
            /\ mConnected => /\ mapSelectionLeftToRight(Shown(m_leftModel)) = both
                             /\ mapSelectionRightToLeft(Shown(m_rightModel)) = both
============================================================================
