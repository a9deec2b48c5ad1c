---------------------- MODULE KLinkItemSelectionModel ----------------------
(***************************************************************************)
(* KLinkItemSelectionModel (klinkitemselectionmodel.cpp): a selection model *)
(* that selects in step with another one, the linked one, which may belong*)
(* to another model of the same source.                                    *)
(*                                                                         *)
(* QItemSelectionModel::select() calls the slots of selectionChanged()     *)
(* before it returns.  A slot of the linked model's signal is the link     *)
(* itself, which takes over the change in two select() calls of its own;   *)
(* other slots may select again, in either model, before the outer call    *)
(* has reached the linked model, and before or between those two.  calls   *)
(* holds the calls that are still under way, the innermost first.          *)
(***************************************************************************)
EXTENDS KModelIndexProxyMapper

CONSTANTS
    Link,           \* the KLinkItemSelectionModel
    Others,         \* plain selection models
    Scenarios,      \* sets of operations; a behaviour uses those of one
    Commands,       \* selection flags that are used
    MaxCalls        \* bound: calls under way at a time

ASSUME LinkAssumption ==
    /\ Link \notin Others /\ None \notin {Link} \cup Others \cup Items
    /\ Commands \subseteq {"Select", "Deselect", "Toggle", "ClearAndSelect", "Clear"}

VARIABLES
    selected,       \* selection model -> its selected items
    modelOf,        \* selection model -> its model
    current,        \* selection model -> its current item, or None
    m_linkedItemSelectionModel,
    driving,        \* the selection models that were ever linked: none is disconnected
    m_ignoreCurrentChanged,
    calls,
    late,           \* the linked model selected again what the link was yet to be told of
    currentsLinked, \* the current items were told to each other since the last link
    expected,        \* the items to be selected when no call is under way; None when not known
    operations      \* what this behaviour does

linkVars == <<sourceModel, mapperVars, selected, modelOf, current, m_linkedItemSelectionModel, driving,
              m_ignoreCurrentChanged, calls, late, currentsLinked, expected, operations>>

linked == m_linkedItemSelectionModel
Does(op) == op \in operations
Idle == calls = <<>>

\* Slots make calls where the scenario has nested ones.
MayCall == Idle \/ (Does("nested") /\ Len(calls) < MaxCalls)

\* A call of the link that has yet to reach the linked model, and one that has reached it
\* and has yet to deselect off and then select on in the link.
Forwarding(T, command, ends) ==
    [tells |-> FALSE, items |-> T, command |-> command, ends |-> ends, off |-> {}, on |-> {}]
Telling(off, on, ends) ==
    [tells |-> TRUE, items |-> {}, command |-> "Select", ends |-> ends, off |-> off, on |-> on]

\* QItemSelectionModel::select of T, in a model where S is selected.
Apply(S, T, command) ==
    CASE command = "Select" -> S \cup T
      [] command = "Deselect" -> S \ T
      [] command = "Toggle" -> (S \ T) \cup (T \ S)
      [] command = "ClearAndSelect" -> T
      [] command = "Clear" -> {}

\* Mutant of sourceSelectionChanged: what is no longer selected is not passed on.
sourceSelectionChangedSelectOnly(now, ends) ==
    Telling({}, mapSelectionRightToLeft(now \ selected[linked]), ends)

\* sourceSelectionChanged, when the linked model gets the selection now.
sourceSelectionChanged(now, ends) ==
    Telling(mapSelectionRightToLeft(selected[linked] \ now), mapSelectionRightToLeft(now \ selected[linked]), ends)

\* The linked model has selected now, and rest are the calls under way below that: some of
\* them tell the link what is no longer so.
Overtaken(now, rest) == \E c \in Seqs!ToSet(rest) : c.off \cap now # {} \/ ~(c.on \subseteq now)

LinkedSelects(now, ends, rest) ==
    /\ selected' = [selected EXCEPT ![linked] = now]
    /\ calls' = <<sourceSelectionChanged(now, ends)>> \o rest
    /\ late' = (late \/ Overtaken(now, rest))

----------------------------------------------------------------------------
Init ==
    /\ sourceModel \in [Proxies -> Bases]
    /\ modelOf \in [{Link} \cup Others -> Models]
    /\ m_leftModel = None /\ m_rightModel = None /\ m_proxyChainUp = <<>> /\ m_proxyChainDown = <<>>
    /\ mConnected = FALSE /\ listened = {}
    /\ selected = [s \in {Link} \cup Others |-> {}] /\ current = [s \in {Link} \cup Others |-> None]
    /\ m_linkedItemSelectionModel = None /\ driving = {}
    /\ m_ignoreCurrentChanged = FALSE /\ calls = <<>> /\ late = FALSE
    /\ currentsLinked = FALSE /\ expected = None
    /\ operations \in Scenarios

\* The link's own select(T, command) is done, and what follows it comes next.
Own(T, command, following) ==
    /\ selected' = [selected EXCEPT ![Link] = Apply(@, T, command)]
    /\ calls' = <<following>> \o calls
    /\ UNCHANGED <<sourceModel, mapperVars, modelOf, current, linked, driving, late, currentsLinked, operations>>

Expect(known, T, command) ==
    expected' = IF Idle /\ known /\ ~late THEN [items |-> Apply(selected[Link], T, command)] ELSE None

\* Mutant of LinkSelectIndex: QItemSelectionModel::select(index, command), which comes
\* back to the link's other select() and goes on to the linked model there.
LinkSelectIndexVirtual(T, command) ==
    /\ Does("select") /\ ~m_ignoreCurrentChanged /\ linked # None /\ MayCall
    /\ selected' = [selected EXCEPT ![Link] = Apply(@, T, command)]
    /\ calls' = <<Forwarding(T, command, FALSE), Forwarding(T, IF T = {} THEN "Clear" ELSE command, FALSE)>> \o calls
    /\ UNCHANGED <<sourceModel, mapperVars, modelOf, current, linked, driving, late, currentsLinked, operations>>
    /\ Expect(T # {}, T, command) /\ UNCHANGED m_ignoreCurrentChanged

\* select(index, command); T is empty for an invalid index.
LinkSelectIndex(T, command) ==
    /\ Does("select") /\ ~m_ignoreCurrentChanged /\ linked # None /\ MayCall
    /\ Own(T, command, Forwarding(T, IF T = {} THEN "Clear" ELSE command, FALSE))
    /\ Expect(T # {}, T, command) /\ UNCHANGED m_ignoreCurrentChanged

\* select(selection, command).
LinkSelect(T, command) ==
    /\ linked # None /\ MayCall
    /\ Own(T, command, Forwarding(T, command, TRUE))
    /\ Expect(TRUE, T, command) /\ m_ignoreCurrentChanged' = TRUE

\* The innermost call goes on to the linked model, which tells the link.
Forward ==
    /\ ~Idle
    /\ LET c == Head(calls)
       IN  /\ ~c.tells
           /\ LinkedSelects(Apply(selected[linked], mapSelectionLeftToRight(c.items), c.command), c.ends, Tail(calls))
    /\ UNCHANGED <<sourceModel, mapperVars, modelOf, current, linked, driving, m_ignoreCurrentChanged,
                   currentsLinked, expected, operations>>

\* sourceSelectionChanged deselects in the link what is no longer selected.
TellDeselected ==
    /\ ~Idle /\ Head(calls).off # {}
    /\ selected' = [selected EXCEPT ![Link] = @ \ Head(calls).off]
    /\ calls' = <<Telling({}, Head(calls).on, Head(calls).ends)>> \o Tail(calls)
    /\ UNCHANGED <<sourceModel, mapperVars, modelOf, current, linked, driving, m_ignoreCurrentChanged, late,
                   currentsLinked, expected, operations>>

\* Then it selects what is, and the call returns.
TellSelected ==
    /\ ~Idle /\ Head(calls).tells /\ Head(calls).off = {}
    /\ selected' = [selected EXCEPT ![Link] = @ \cup Head(calls).on]
    /\ calls' = Tail(calls)
    /\ m_ignoreCurrentChanged' = (m_ignoreCurrentChanged /\ ~Head(calls).ends)
    /\ UNCHANGED <<sourceModel, mapperVars, modelOf, current, linked, driving, late, currentsLinked, expected, operations>>

\* Somebody selects T in the linked model, or in one that was never linked.
SelectOther(r, T, command) ==
    /\ r \notin driving \ {linked} /\ MayCall
    /\ T \subseteq Shown(modelOf[r])
    /\ IF r = linked THEN LinkedSelects(Apply(selected[r], T, command), FALSE, calls)
       ELSE selected' = [selected EXCEPT ![r] = Apply(@, T, command)] /\ UNCHANGED <<calls, late>>
    /\ expected' = None
    /\ UNCHANGED <<sourceModel, mapperVars, modelOf, current, linked, driving, m_ignoreCurrentChanged,
                   currentsLinked, operations>>

----------------------------------------------------------------------------
\* reinitializeIndexMapper, with r linked, whose model m has S selected.
reinitializeIndexMapper(r, m, S) ==
    IF r = None THEN NoMapper /\ selected' = selected
    ELSE /\ NewMapper(modelOf[Link], m)
         /\ selected' = [selected EXCEPT ![r] = S, ![Link] = Passes(mConnected', m_proxyChainUp', S)]

SetLinkedItemSelectionModel(r) ==
    /\ Does("relink") \/ linked = None
    /\ Idle /\ r # linked
    /\ m_linkedItemSelectionModel' = r
    /\ driving' = driving \cup ({r} \ {None})
    /\ reinitializeIndexMapper(r, IF r = None THEN None ELSE modelOf[r], IF r = None THEN {} ELSE selected[r])
    /\ currentsLinked' = FALSE /\ expected' = None /\ late' = FALSE
    /\ UNCHANGED <<sourceModel, modelOf, current, m_ignoreCurrentChanged, calls, operations>>

\* QItemSelectionModel::setModel of the linked model, which drops its selection silently.
SetModelOfLinked(m) ==
    /\ Does("setModel") /\ Idle /\ linked # None /\ m # modelOf[linked]
    /\ modelOf' = [modelOf EXCEPT ![linked] = m]
    /\ current' = [current EXCEPT ![linked] = None]
    /\ reinitializeIndexMapper(linked, m, {})
    /\ currentsLinked' = FALSE /\ expected' = None /\ late' = FALSE
    /\ UNCHANGED <<sourceModel, linked, driving, m_ignoreCurrentChanged, calls, operations>>

\* A proxy gets another source model, while nothing is selected.
ChangeSourceModel(p, m) ==
    /\ Does("sources") /\ Idle /\ \A s \in {Link} \cup Others : selected[s] = {} /\ current[s] = None
    /\ ChangeSource(p, m)
    /\ expected' = None
    /\ UNCHANGED <<selected, modelOf, current, linked, driving, m_ignoreCurrentChanged, calls, late,
                   currentsLinked, operations>>

\* Mutant of slotCurrentChanged: the linked model is told when it has no current item yet.
slotCurrentChangedOnce(i) ==
    current' = [current EXCEPT ![Link] = i, ![linked] = IF @ # None \/ mapLeftToRight(i) = None THEN @ ELSE mapLeftToRight(i)]

\* The link's current item is i: the linked model is told when it shows i.
slotCurrentChanged(i) ==
    current' = [current EXCEPT ![Link] = i, ![linked] = IF mapLeftToRight(i) = None THEN @ ELSE mapLeftToRight(i)]
sourceCurrentChanged(i) ==
    current' = [current EXCEPT ![linked] = i, ![Link] = IF mapRightToLeft(i) = None THEN @ ELSE mapRightToLeft(i)]

\* setCurrentIndex(i, NoUpdate) of the link or of the linked model.
SetCurrent(s, i) ==
    /\ Does("current") /\ Idle /\ linked # None /\ s \in {Link, linked}
    /\ i \in Shown(modelOf[s]) /\ i # current[s]
    /\ IF s = Link THEN slotCurrentChanged(i) ELSE sourceCurrentChanged(i)
    /\ currentsLinked' = (currentsLinked \/ (mConnected /\ current'[Link] = current'[linked]))
    /\ UNCHANGED <<sourceModel, mapperVars, selected, modelOf, linked, driving, m_ignoreCurrentChanged, calls,
                   late, expected, operations>>

----------------------------------------------------------------------------
\* When no call is under way, an item that both models show is selected in both or in
\* neither, whatever slots selected in between: unless the linked model selected again, or
\* deselected, what the link was yet to be told of.  The link is told in the end of what
\* was so before, and the two stay apart.
LinkInSync ==
    Idle /\ ~late /\ linked # None /\ mConnected =>
        LET both == Shown(modelOf[Link]) \cap Shown(modelOf[linked])
        IN  selected[Link] \cap both = selected[linked] \cap both

\* The two models have the same current item once they told each other, unless one of
\* them has one that the other does not show.
CurrentsAgree ==
    Idle /\ linked # None /\ mConnected /\ currentsLinked =>
        LET both == Shown(modelOf[Link]) \cap Shown(modelOf[linked])
        IN  {current[Link], current[linked]} \subseteq both => current[Link] = current[linked]

\* A selection of the link that no slot changed, made when the two agreed, is done once: what comes back from the
\* linked model neither toggles an item again nor takes away one it does not show.
SelectsOnce ==
    Idle /\ expected # None => selected[Link] = expected.items
============================================================================
