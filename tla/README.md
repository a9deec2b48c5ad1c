# A verification of KItemModels

TLA+ modules for the proxy models of the KItemModels framework, with TLC
configurations that check them on small instances and TLAPS proofs of what holds
for every instance.  This file says what the system is, which module models which
part of it, what the runs and the proofs show, and what is still to do.

Paths are relative to the repository; line numbers are those of the `map` in
`PROJECT.json`, which names the source lines of every definition.

## 1. The system

KItemModels is a library of Qt item models that sit between a source model and a
view.  Nothing runs concurrently, no data is persisted, and there are no timeouts:
what makes the code hard is **re-entrancy and order**.  A change of the source
reaches a proxy as two signals, one before and one after the change.  Between
them, and from inside every signal the proxy emits itself, slots of other objects
run that may call the proxy back while its own tables are half updated.  Each
handler must turn one change of a tree into signals about something else (a list,
a selection, a set of columns) that a listener can follow without ever reading a
wrong row.

### Components

| Component | State | Operations | Talks to |
|---|---|---|---|
| `KBiAssociativeContainer`, `KBiHash`, `KHash2Map` (`kbihash_p.h`) | two hashes, `_leftToRight` and `_rightToLeft`, meant to be inverse of each other | `insert`, `removeLeft/Right`, `takeLeft/Right`, `eraseLeft/Right`, `updateLeft/Right`, `unite`, `intersect`, `subtract`, `fromHash`, `clear`; lookups and bounds | used by both large proxies as their index tables |
| `KDescendantsProxyModel` (1344 lines) | `m_mapping` (last child of each shown parent, and its row), `m_rowCount`, `m_pendingParents`, `m_insertPair`, `m_removePair`, `m_relayouting`, expanded and collapsed indexes, saved persistent indexes | handlers of every structural signal of the source, `processPendingParents`, `synchronousMappingRefresh`, `expandSourceIndex`, `collapseSourceIndex`, `setExpandsByDefault`, `setSourceModel`, `mapToSource`, `mapFromSource`, `rowCount` | source model (signals in), views (signals out, queries in) |
| `KSelectionProxyModel` (2585 lines) | `m_rootIndexList`, `m_mappedParents`, `m_parentIds`, `m_mappedFirstChildren`, `m_pendingSelectionChanges`, five behaviour flags, flags for insert/remove/move/reset under way | handlers of the source's and of the selection model's signals, `selectionChanged`, `insertSelectionIntoProxy`, `removeSelectionFromProxy`, `setFilterBehavior` | source model, selection model, `KModelIndexProxyMapper`, views |
| `KModelIndexProxyMapper` | two chains of proxies from two models to a common ancestor, a connected flag | `createProxyChain`, `mapSelectionLeftToRight`, `mapSelectionRightToLeft`, re-creation when a proxy of the chain changes its source | proxies of the chains (`sourceModelChanged`) |
| `KLinkItemSelectionModel` | its selection and the linked one, `m_ignoreCurrentChanged`, `m_indexMapper` | `select`, `setLinkedItemSelectionModel`, four slots that carry changes over | a second selection model, the mapper |
| `KBreadcrumbSelectionModel` | selection, `m_selectionDepth`, `m_direction`, `m_ignoreCurrentChanged` | `select`, `sourceSelectionChanged`, `syncBreadcrumbs` | a second selection model |
| `KCheckableProxyModel` | a selection model that holds the check marks | `setData`, `setSelectionModel`, `selectionChanged` | selection model, views |
| `KSortFilterProxyModel` (QML) | sort and filter role, each as a name and as a number, which of the two leads, a guard flag | setters, `syncRoleNames`, `setSourceModel` | source model (role names), views |
| `KExtraColumnsProxyModel`, `KRearrangeColumnsProxyModel`, `KColumnHeadersModel` | extra headers and saved layout indexes; a column permutation; none | column mapping both ways, layout changes | source model, views |
| `KNumberModel` | minimum, maximum, step | setters, `rowCount`, `data` | views |
| `KVoidPointerFactory` | blocks of addresses handed out | `createPointer`, `clear` | `KSelectionProxyModel` |
| `KDescendantsProxyModelQml`, `KRoleNames` | none of their own | wrappers and a lookup | |
| `DynamicTreeModel`, `ModelTest` (test suite) | lists of children by item; a stack of notes for the change under way | commands that change the tree and announce it; slots that compare | the proxies under test |

### What is hard in it, and what must hold

* **`KBiHash`.** After every operation the two hashes are inverse of each other,
  whatever keys collide (`kbihash_p.h:277` explains the dangling entry that
  `insert` must avoid).
* **`updateInternalIndexes`.** Rows are moved inside the bidirectional hash by
  collecting them first and inserting them back in the order of a `QHash`.  An
  insertion may land on a row that another entry still holds and evict it.
* **`KDescendantsProxyModel`.** Only the last child of a shown parent has a stored
  row.  Every other row is found by climbing and counting, so one wrong entry
  shifts whole subtrees.  Rows are announced in three different places
  (the about-to handlers, `processPendingParents`, `collapseSourceIndex`), each of
  which decides from the tree it sees at that moment.  Between any `begin...` and
  `end...` call, a slot may query the model, and `rowCount()` rebuilds the mapping
  when there is none.
* **`KSelectionProxyModel`.** Selection changes arrive in the middle of source
  changes and are queued; source and selection model may reset inside each other;
  five filter behaviours share the handlers.
* **Selection links.** A change made on one side comes back as a signal from the
  other; it must be idempotent there, also for `Toggle` and for rows that the
  other side filters out.
* **Chains of proxies.** A mapper connects to every proxy between two models and has
  to start anew when one of them gets another source.
* **Columns.** Indexes in columns that exist in no source have to survive layout
  changes of the source, below the top level too.
* **Roles of other rows.** A row's level, expander and sibling lines change with rows
  elsewhere; each has to be named in a `dataChanged()`.
* **The tests' own source.** The tree model below every proxy test, and the checker
  attached to it, have to be right for the tests to mean anything.
* **QML roles.** Names and numbers are resolved again whenever the source or its
  role names change; the one that was set last must win, and does, unless it is a number
  that was set while there was no source (section 5).

The full list is `hazards` in `PROJECT.json`, each at its line, with the properties
that would catch it.

## 2. What is modelled

    BiMap                          what the container promises
      KBiHash                      the two hashes, one operator per operation
        KBiAssociativeContainer    one container under any sequence of operations
        UpdateInternalIndexes      the collect-then-insert loop, turn by turn
    ProxyRows                      m_mapping as a function, with the shift the loop ends in
    SourceTree                     a QAbstractItemModel as a tree of indexes
      KDescendantsProxyModel       the proxy, its source, and a listener
        KDescendantsRoles          the data of its rows, and a delegate
      SelectionRoots               which selected indexes are roots, and their order
        KSelectionProxyModel       the proxy, its source, the selection, and a listener
      DynamicTreeModel             the tests' source model, which implements SourceTree
        ModelTest                  the checker that the tests attach to a model
    KModelIndexProxyMapper         two chains of proxies that change their source
      KLinkItemSelectionModel      a selection linked to another one
    KBreadcrumbSelectionModel      the ancestors of a selection
        SelectionModels            these together, and KCheckableProxyModel
    SourceTable                    a source model with rows below rows, and columns
      KRearrangeColumnsProxyModel  a choice of columns
        KExtraColumnsProxyModel    further columns behind them
    KColumnHeadersModel            the columns as rows
          ColumnModels             these together, and a client
    KSortFilterProxyModel          roles by name and by number
    KNumberModel                   numbers as rows
      FilteredNumbers              the one filtering the other
    MC...                          model values, symmetry and views for TLC

### Container and mapping shift

**`KBiHash`** writes each operation of the container as an operator on a record of
two functions, in the order of the statements of the code; `value()` of an absent
key yields a default, as in Qt.  **`KBiAssociativeContainer`** takes one container
through any sequence of them; `unite` and `fromHash` run one insertion per step, in
any order, as the order of a `QHash` is not specified.  `CheckedKeys` says whether
callers check `leftContains` before they remove and values before they update, as
the callers in `src/` do; the run sets it.  The specification implements **`BiMap`**,
which knows only a set of pairs.

**`UpdateInternalIndexes`** is the loop of `kdescendantsproxymodel.cpp:176`: one step
collects the entries from `start` on, one step per entry inserts it back, in any
order.  `Fits` is what the callers ensure: the rows between `start + offset` and
`start` are free.  The result, the operator `MapShift` of **`ProxyRows`**, is what both
large proxies use in place of the loop.  `MapErase` is the loop that erases rows (`:977`), with
what it does when the last row is before the first one (`Overruns`): `upperBound(-1)` is the
first entry, and the loop erases from there.

### `KDescendantsProxyModel`

**`SourceTree`** is external code, modelled from what Qt documents for each signal:
a parent and a row for each node, forests inserted at once, rows removed, moved,
reordered, everything replaced.

**`KDescendantsProxyModel`** has one action per handler.  An operation of the source
takes three steps: the handler of the "about to be" signal, the change of the tree,
and the handler of the closing signal.  `phase` says which step comes next, `op`
holds the signal's arguments.  `processPendingParents` takes one step to announce
the first pending parent's rows (`AnnouncePending`), one to add them (`AddPending`)
and passes the others (`SkipPending`).  The code takes parents from a list by
iterator, collects new ones in a second list and calls itself with that; the model
appends new parents to one queue, which is the same order.  `EndPending` is the end
of the loop; `resume` remembers whose loop it was.  Queries are operators, in
closed form: `mapToSource` and `mapFromSource` climb from a mapped index in the code,
and count what the climb passes over (`PassedOver`) in the model.

`announced`, `view` and `viewCount` are a **listener**, as a view is one: it keeps
its own list of rows, applies every `begin...`/`end...` pair to it and reads new rows
through `mapToSource` when they have been announced.  It sees nothing else of the
proxy; that its list is right says that the signals were.

`QueryRowCount` is a slot that asks for `rowCount()` where slots run: at rest, and
after each `begin...` call.  With `EagerListeners`, slots that the source calls
before the proxy may do so, too.

**`KDescendantsRoles`** adds the data of the rows and a delegate that reads a row when
it comes, and again only the roles a `dataChanged()` names.  `stale` holds what has
changed since it was read, `owed` what the running call announces only after the new
rows are in.  `ToggleChildren` is `KDescendantsProxyModelQml::toggleChildren`.

### `KSelectionProxyModel`

The proxy shows one of five parts of the tree.  Its tables are `m_rootIndexList`,
`m_mappedFirstChildren` and `m_mappedParents`; an identifier of the code is fresh and
lives as long as what it is bound to, so the model names it after the source index
of the parent, and `m_parentIds` is `m_mappedParents` read the other way.  **`SelectionRoots`**
has the free functions: which selected indexes are roots (`getRootRanges`), in which
order they are inserted, and where a new root goes.

`selectionChanged` takes a step for each root or block of roots it removes, and two for each
it inserts: `ListRoot` puts it on the list and emits `rootIndexAdded()`, `InsertRoot` maps its rows
and ends the insertion.  `change` holds what is left of it, `resume` where the caller goes on.  Steps end
where a signal is emitted, as slots run there; the listener's tree `view` and its
set `heardRoots` follow those signals only.  Slots may change the selection while source rows
come and go (`selectInserting`, `selectRemoving`) or while the source is reset
(`selectResetting`); the code queues those, and so does the model.  A slot may also empty the
selection during a layout change (`clearRelayouting`): the proxy announces that change and then
returns without ending it (`:786`), which `emptied` remembers until the next reset.  The selection model
works on the source model itself and was made first, so it hears of
removals and resets before the proxy does.  Two kinds of slots are left out: those that select
between the two signals of a change which the proxy does not announce (it returns at `:1064` and
`:1270`, and of a parent that is selected only then it never announces the rows that come), and those that
select anything but nothing during a layout change, which changes the roots inside the proxy's own.

### Selection links

**`KModelIndexProxyMapper`**: proxies between models are filters on items; `Chains` is the
loop of `createProxyChain`, and `listened` the proxies whose change of source it hears
of.  **`KLinkItemSelectionModel`** keeps the calls under way in `calls`, innermost first: `select()` of the
link runs the slots of its own `selectionChanged()` before it reaches the linked
model (`Forward`), and the linked model tells the link in two calls, one that deselects
(`TellDeselected`) and one that selects (`TellSelected`); a slot may select again in either model before
any of the three.  `late` is raised when the linked model selects, or deselects, what one of those calls is yet to
deselect or select in the link.  `driving` are the models that
were linked once: the code disconnects the link from the old model, not
the old model from the link (`klinkitemselectionmodel.cpp:92`).  **`KBreadcrumbSelectionModel`** selects
ancestors up to a depth, in any order of the selection's ranges, in both directions: the breadcrumbs are in the
breadcrumb model itself, for what the other model selects, or in the other model, for what is selected through it.  The
way up from an item ends at a breadcrumb that is there already (`:141`, `:146`); `crumbsCut` says that it did so
where the one that made that breadcrumb need not go as far, `crumbsShared` that a breadcrumb went that an item still selected
needs.  A row that moves in the default direction makes the breadcrumb model's own selection the breadcrumbs and adds
breadcrumbs of those (`:216`), as the code does.  **`SelectionModels`** puts the three together
with a view of a `KCheckableProxyModel`, whose boxes are what the link selects.

### Columns

**`SourceTable`** is a source whose rows have rows below them and whose columns come and
go.  **`KRearrangeColumnsProxyModel`** and **`KExtraColumnsProxyModel`** are `index`, `parent`,
`rowCount`, the mappings, and what they do in a layout change: an index in an extra column exists in no source, so the
proxy asks the source to follow the first column of its row and puts the index back
afterwards.  **`KColumnHeadersModel`** turns the columns into rows.  **`ColumnModels`** stacks
them, with and without rearranged columns.  A header that changes below rearranged columns is announced under the number
of the source's column, as `QIdentityProxyModel` passes `headerDataChanged()` on unmapped: `headersMissed` has the
columns of whose new header a view was told under another number.  The same base class passes the signals of
columns on unmapped, and `m_sourceColumns` stays as it is; so columns come, go and move only where
nothing rearranges them.  The source sends one signal for the columns of all its rows: the slots of `KColumnHeadersModel`
(`kcolumnheadersmodel.cpp:84` to `:104`) do not look at the parent, and would insert a header for each,
but `kextracolumnsproxymodel.h:27` rules out subtrees with other columns.  A client either holds one persistent index,
which it may take in a slot of `layoutAboutToBeChanged()` as well, or is a view on the
headers.

### Roles and numbers

**`KSortFilterProxyModel`**: `property` has for sorting and for filtering the role, its
name, and which of the two leads; `setLast` is what the user set last, the
yardstick, and `unheard` says that this is a number set without a source, which `:194` and `:222` do not take
for the one that leads.  `syncRoleProperties` is the pair of functions of the code with its
guard: setting a role emits the signal that comes back as the setter's slot.
**`KNumberModel`** has integers for numbers; whether a text has a group separator stands for its
format.  **`FilteredNumbers`** filters its rows by a callback, which may throw, or by
a text in the filter role, and has a binding to `count`.

### The source of the tests

**`DynamicTreeModel`** keeps the children of each item in a list and finds parents
by searching, as the code does; each command is one action, announced with the
arguments of its signal.  `ModelLayoutChangeCommand` builds a tree anew with as many items as
there were, and all of them are listed as persistent; `ModelMoveLayoutChangeCommand` moves one row.  **`ModelTest`** has the checks that run at every signal, and what
the slots of an about-to signal note and those of the closing signal compare.

### What is left out of the runs

The constants `Operations` name what the source and the user do.  Some members are
variants that no run of a property uses, because the code does not cope with them and
every property would say so.  They are kept in the model, so that one can look:

| Operation | What happens | Where |
|---|---|---|
| `removeCollapsed` | rows are removed where the code looks up a hidden row: the last descendant of the rows that go, whose row is -1, or the first deepest one below the row that becomes the last, whose lookup gives 0; or counts one (`LooksUpShownRows`) | `kdescendantsproxymodel.cpp:930`, a finding; `:1022`, `:1037` |
| `moveAcross` | rows move between a shown and a hidden parent: announced at the parent's row, without descendants | `kdescendantsproxymodel.cpp:1143`, `:1175` |
| `collapseAny` | an index without children or a hidden one is collapsed: an empty range or rows from 0 on are announced as removed | `kdescendantsproxymodel.cpp:312` |
| `expandsLoaded` | `expandsByDefault` is set when there are rows: the reset does not rebuild the mapping | `kdescendantsproxymodel.cpp:219` |
| `insertDeep` | rows come below a shown row of `SubTreesWithoutRoots`: announced at the top level | `kselectionproxymodel.cpp:1019`; a finding |
| `selectRemovingShown` | a slot selects while shown rows are removed: the change waits until the next insertion | `kselectionproxymodel.cpp:1767` |
| `selectionModelLoaded` | another selection model while something is mapped: two of the tables keep what they had | `kselectionproxymodel.cpp:2400` |

### Abstracted, and not modelled

An index of the tree models is a node of column 0; a selection covers whole rows.
Rows are integers of unbounded width.  A persistent index follows its node, and becomes
invalid when the node goes.  `m_ignoreNextLayoutAboutToBeChanged` and
`m_ignoreNextLayoutChanged` are never set by `KDescendantsProxyModel`, so the early returns on them are left out.

Not modelled:

* `KVoidPointerFactory`: a counter of addresses.  What it is for, that identifiers
  in use differ, is how the model names them; that a copy frees its blocks twice is
  memory management.
* `KRoleNames`: a lookup without state.
* The slots of `sourceModelDestroyed`, columns and mime types of the two
  large proxies: they change none of the state the properties are about.
* A source that claims to have children before it has fetched them (`canFetchMore`):
  it needs a second notion of child in every handler.
* `select(index)` of `KBreadcrumbSelectionModel`, selections through it with `Toggle` or `Deselect`, and its
  setters, which take effect with the next selection.
* `dropMimeData` of `DynamicTreeModel`, which builds a move command from text; its flags and roles.
* The rest of the test suite (`ModelSpy`, `ModelCommander`, `ProxyModelTest`): it
  records signals and compares them with lists that each test writes out.
* The test applications.

## 3. Properties and runs

| Run | Instance | What it shows |
|---|---|---|
| `container` | 3 left keys, 3 right, every operation, keys checked | `TypeOK`, `MutuallyInverse`, `ImplementsBiMap` |
| `update_indexes` | 3 entries, 5 rows, every shift that fits, every order | `EndsInShift`; `StaysBijective` at every turn |
| `descendants_expanded` | 6 nodes, everything expanded, or nothing | `ShowsVisibleTree`, `LastChildrenMapped`, `ReadableMidway`, `SignalsNest`, `AnnouncesRealRows`, over forests of up to 2 nodes, removals, moves, layout changes, resets and new sources |
| `descendants_collapsible` | 4 nodes, expand and collapse, removals beside hidden rows (`removeBeside`) | `TypeOK`, `ShowsVisibleTree` and `ReadableMidway` with rows hidden and shown and both values of `expandsByDefault`; `RolesHeard` |
| `descendants_calls` | 3 nodes, eager listeners | `CallsEnd` |
| `descendants_collapsed_removal` | 4 nodes | a finding: `ShowsVisibleTree` fails |
| `selection` | 4 nodes, forests of up to 2, five behaviours, one selection change waiting, the selection emptied by a slot in a layout change | the ten properties of `KSelectionProxyModel` |
| `selection_deep_insertion` | 3 nodes | a finding: `ShowsSelection` fails |
| `links` | 4 items, 3 of them where none moves, 2 sources, 2 calls at a time, breadcrumbs of length 2 or without limit, 2 proxies, 2 further selection models | `ConnectsRelatives`, `LinkInSync`, `CurrentsAgree`, `SelectsOnce`, `BreadcrumbsLeadThere`, `ChecksShowSelection` |
| `columns` | 3 rows, one below another, 3 columns, 2 extra ones | `PersistentIndexesFollow`, `HeadersHeard`, `SelectionReachesSource` |
| `roles` | 2 roles, 2 names, 3 columns, numbers 0 to 2 | `RolesAgree`, `SourceOfTruthKept`, `FilteredNumbersShown` |
| `tree` | 4 items, inserted trees of up to 3 | `ChangesAsAnnounced`, `ModelTestPasses` (action properties) |

### `KBiAssociativeContainer` and the loop

* `MutuallyInverse` — the hashes are inverse of each other after every operation.  With
  `CheckedKeys = FALSE` it fails: removing an absent key, or
  updating to a value another key holds, leaves a dangling entry (`kbihash_p.h:118`, `:332`), which the
  comment at line 277 says is to be avoided.  No caller in `src/` does either.
* `ImplementsBiMap` — each operation, and each turn of `unite` and `fromHash`, adds a pair and drops the
  pairs it conflicts with, or takes pairs out.
* `EndsInShift`, `StaysBijective` — whatever evicts whatever on the way, the loop
  ends in the shift, and two keys never share a row.

### `KDescendantsProxyModel`

* `ShowsVisibleTree` — at rest, the listener's list is the depth-first walk of the
  tree without the hidden rows.  It fails if any signal is missing, misplaced or
  missized.
* `LastChildrenMapped` — at rest, `m_mapping` holds exactly the last children of the
  shown parents, at their rows.
* `ReadableMidway` — wherever a slot can run, also inside a change, the proxy
  answers for exactly the rows the listener has been told of, and both mappings
  agree on each.  One exception is named in it: with `expandsByDefault` off,
  `sourceRowsAboutToBeRemoved` forgets that the rows are expanded before it announces
  the removal (line 934), and `mapFromSource` finds nothing for the rows below.
* `SignalsNest` — `begin...` and `end...` calls pair up, and none is left open.
* `AnnouncesRealRows` — no removal announces an empty range or rows the listener does
  not have, no insertion starts behind the end.
* `RolesHeard` — at rest, no delegate shows a level, an expander, a sibling
  line or a text that has changed since it was read.  Left out by the bound `MayRename`: texts that other rows
  display as well, which `sourceDataChanged` (line 1305) does not name.
* `CallsEnd` — every call comes to its end, slots ahead of the proxy included.  (With
  those, `ShowsVisibleTree` does not hold: a `rowCount()` after `rowsInserted()` of the
  first rows, ahead of the proxy, maps them before it has announced them, and lines 116 and 501
  leave them so.)

### `KSelectionProxyModel`

* `ShowsSelection` — at rest, the listener's tree is the one the class documentation
  draws for the selection and the behaviour: roots or their children in depth-first
  order, with or without what is below.
* `ReadableMidway` — between the begin and the end of rows that come or go, and between two roots of one
  change of the selection, the proxy answers for exactly the rows announced, and
  `hasChildren()` agrees with `rowCount()`.  Not so in a slot of `rootIndexAdded()`, which is emitted
  after the root is on the list and before its insertion ends (`:1942`, `:1952`, `:1978`): `rowCount()` and `mapFromSource()`
  count it already.
* `MapsBackAndForth` — at the same points, each row maps to its source index and back, on which persistent
  indexes rely in a layout change.
* `SelectionsMapBack` — selections of neighbouring rows map to exactly their source indexes
  and back, a search finds what is shown, a drop comes to stand in front of its row.  Left out: several
  top-level rows with children of roots or the exact selection (line 2549).
* `NoStaleParents` — no entry of `m_mappedParents` is left over from rows that are not shown.
* `SignalsNest` — none begins while another is open, except rows within a reset; none
  is left open, but for the layout change during which a slot has emptied the selection (line 786): that one stays
  open, and the other properties say nothing until a reset.
* `RootsInOrder` — roots are in depth-first order, each once, also halfway through a
  change; and the search for a place returns (line 174).
* `RootsHeard` — `rootIndexAdded()` and `rootIndexAboutToBeRemoved()` give the set of
  roots; no change of the selection is left waiting.
* `DataChangesReach` — `dataChanged()` names changed rows only, and all that are
  shown.  Left out: a last range of a single root (line 709).

### Links, columns, roles, the tests' tree

* `ConnectsRelatives` — the mapper is connected exactly when the two models have a
  common source now, and maps each item both show.
* `LinkInSync` — the two selections agree on what both models show when no call is under way, with
  slots that select in either model before, between and after the calls that carry a selection over, other linked models and
  other sources.  Left out by `late`: when a slot between the link's two calls (`klinkitemselectionmodel.cpp:179`), or one before them,
  makes the linked model select again, or deselect, what they are about, the link is told of the new state first and of the
  old one last, and the two stay apart.  A model
  that is not linked any more does not select, as it would still drive the link (line 92).
* `CurrentsAgree`, `SelectsOnce` — the same of the current index; and a `Toggle` that
  comes back from the other side is not applied again.
* `BreadcrumbsLeadThere` — in both directions, what is selected as breadcrumbs leads to what is selected;
  completely, unless a deselected item shared some (`kbreadcrumbselectionmodel.cpp:168`).  Left out: a way up
  that ended early at a breadcrumb already there (`:146`), with a length of two or more.
* `ChecksShowSelection` — a view of the checkable model draws what the link selects.
* `PersistentIndexesFollow` — a persistent index keeps its row and its column, extra
  or not, and `parent()` leads back to it.
* `HeadersHeard` — a view on the header model has all headers.  Left out: the sort
  mark once columns move beside it (`kcolumnheadersmodel.cpp:124`), and the texts of columns whose new name was
  announced under another number (`StaleRows`).
* `SelectionReachesSource` — a range that reaches into, or lies in, extra columns
  selects its rows in the source and nothing else.
* `RolesAgree`, `SourceOfTruthKept` — role and name belong together in the source as
  it is now; which one leads changes only when the user sets the other, and always then, except a number without a
  source.
* `FilteredNumbersShown` — the rows shown are those the filters call for, and `count`
  is how many.  Left out: texts formatted anew, for which `knumbermodel.cpp:90` emits a
  signal to an invalid index.
* `ChangesAsAnnounced` — a command of `DynamicTreeModel` changes the tree as the
  rows it announced call for, which is the operation of `SourceTree` of that name.
* `ModelTestPasses` — the checker passes every right change, and fails when rows have
  gone again before their signal.  Its one false alarm is named: a move that shifts
  one of two different parents.

Every property has a mutant in `PROJECT.json`: a plausible slip in one mapped
definition under which TLC finds the property violated in the same run.

### Bounds

*Descendants.* `Nodes` bounds the tree and `MaxForest` the nodes that come at once.
They have to reach the deepest branch of the code: after a removal at the end of a
parent, `sourceRowsRemoved` finds the row of the new last child in one of six ways, and
the last (`rowBelowAbove`, by way of `prevParent`) needs a mapped index above, in a
deeper branch, a common ancestor, and two rows of the parent itself.  Five nodes do not
reach it (a mutant of that branch survives), six do.  Everything is expanded there;
hiding and showing needs a parent, a child with children, and a sibling, which four
nodes give.  Beyond the runs listed, these larger instances have been checked without
an error: insert and remove with 6 and 7 nodes, expanded; insert, remove, expand
and collapse with 6 nodes.

*Selection.* Four nodes give two roots with children each, a root inside another's
subtree (which stops being one), and rows between two roots; `MaxPending` is one
change that waits, as the queue is drained in order.

*Links.* Two proxies make chains up, down, and both; three items (`LinkItems`) make one that
both filters pass and one for each that the other does not.  Two calls are under way at a time
(`MaxCalls`): one that is interrupted, at any of its steps, and the one that interrupts it.  Where items move there are four, which is
what it takes for a way up of two breadcrumbs to end at one that another way made last; `Places` has every forest of
them up to their names.  `Scenarios` lists six sets of operations, each explored in full: slots
that select, changes of the linked model, check boxes, changes of sources, current indexes, and items that move.

*Columns.* Three rows, one of them below another, are the smallest tree where a row
can change places and where `parent()` of an extra column has a way to go.

*Roles.* Numbers 0 to 2 at steps -1, 0 and 1; `Thousand = 2` puts the group separator
within reach.

*Tree.* Four items allow a move between two parents in one of which
the other lies below the rows that move.  `MayMove` leaves out several rows moved
down to another parent, which land one row off (`dynamictreemodel.cpp:734`); no test does that.

No other counter needs a bound: rows and queues are bounded by the nodes.  Nodes
are interchangeable, so the safety runs use symmetry; `View` leaves out `m_insertPair` and
`m_removePair` where no step reads them any more, and `MCView` the last signal, which the
action properties see on every step all the same.  The liveness run uses neither.

### Fairness

`Spec` of `KDescendantsProxyModel` has `WF_vars(Continues)`: a call that has begun goes
on with its next step.  This is what a call stack does; no step in it waits for
another object.  What slots do (`QueryRowCount`) and what the source and the user begin
(`Begins`) is not fair.  `CallsEnd` is not true by construction:
`processPendingParents` puts parents back on the list it works off, and a slot may start
another refresh from inside it.  The other specifications state no liveness.

## 4. Proofs

| Module | Theorem | For every |
|---|---|---|
| `KBiAssociativeContainerProofs` | `ContainerTypeCorrect`, `ContainerIsBijective` (`MutuallyInverse`), `ContainerImplementsBiMap` | set of left and right values, keys checked |
| | `LoopEndsInShift`, `LoopStaysBijective` | set of indexes and rows, every order of the hash |
| `KDescendantsProxyModelProofs` | `TypeCorrect` (`TypeOK`) | set of nodes, of operations, either default |
| | `SignalsPairUp` (`SignalsNest`) | set of nodes, of operations but `moveAcross`, without eager listeners |
| | `ListShowsTree` (`ShowsVisibleTree`), `MappingIsLastChildren` (`LastChildrenMapped`), `AnswersMidway` (`ReadableMidway`), `AnnouncementsFit` (`AnnouncesRealRows`); the lemmas `LookupsAgree`, `NewEndRowIs` and `RemovalIs` | set of nodes and subset of the operations, either default, under `OrdinaryUse` |
| `KSelectionProxyModelProofs` | `RootsInOrderAlways` (`RootsInOrder`), `RootsHeardAlways` (`RootsHeard`), `SignalsNestAlways` (`SignalsNest`), `RootsFollowSelection`; the lemmas `RootsChange`, `SearchFinds` and `SearchEnds` | set of nodes, source model and filter behaviour, under `CalmSelections` |
| `KSelectionProxyModelRows` | `ShownRows` (`ShowsSelection`), `ReadAtAnyTime` (`ReadableMidway`), `MappedBothWays` (`MapsBackAndForth`), `NoEntryLeftOver` (`NoStaleParents`), `EachChangeHeard` (`DataChangesReach`), `SelectionsReach` (`SelectionsMapBack`) | set of nodes and source model, in the behaviours that put the roots on the top level, under `CalmSelections`, and with the selection model exchanged only while nothing is selected |
| `KSortFilterProxyModelProofs` | `RolesAgreeAlways`, `SourceOfTruthKeptAlways` | set of roles, names and columns |
| | `FilteredNumbersShownAlways` (`FilteredNumbersShown`), `RolesAgreeWithNumbers` (`RolesAgree`) | set of minima, maxima and steps, filters and texts, with the numbers as source |
| `ColumnModelsProofs` | `PersistentIndexesFollowAlways` (`PersistentIndexesFollow`), `HeadersHeardAlways` (`HeadersHeard`), `SelectionReachesSourceAlways` (`SelectionReachesSource`) | finite set of rows, with any rows below them, and of columns, any extra columns, column changes where nothing rearranges |
| `SelectionModelsProofs` | `ConnectsRelativesAlways` (`ConnectsRelatives`), `LinkInSyncAlways` (`LinkInSync`), `SelectsOnceAlways` (`SelectsOnce`), `CurrentsAgreeAlways` (`CurrentsAgree`), `ChecksShowSelectionAlways` (`ChecksShowSelection`) | set of sources, proxies, filters, items, selection models and scenarios, calls nested to any depth (`MaxCalls`) |
| | `BreadcrumbsLeadThereAlways` (`BreadcrumbsLeadThere`) | the same, with breadcrumbs of at most one or without limit |

`SourceTreeTheorems` holds the lemmas that the two large proxies share, and what can be said of
lists of rows without the proxies' code.

**The container.** `MutuallyInverse` with the types is inductive when keys are
checked.  Each operator of `KBiHash` has a lemma that says which pairs it leaves; the refinement follows from those, because `BiMap`'s steps are
stated on the set of pairs.  A `unite` or
`fromHash` under way needs only that what is still to be inserted are pairs of a left
and a right value.

**The loop.** The invariant says, for each turn, what the hash holds: the entries
that do not move, those already moved, and, of the entries still to be moved, those
whose old row no moved entry has taken.  An evicted entry is never lost, as the loop
still has it in its collection; that is why the code must collect first.
`InsertIsMapInsert`, `RemoveLeftIsMapRemove` and `LeftToRightIsMappedRow` tie the
operators of `ProxyRows` to the container's operations on two hashes: on a container
that is inverse they do the same, so the two proxies may keep their mappings
as one function.

**Types.** `TInv` is `TypeOK` in named parts plus `op.first <= op.last`, which the
tree's rows need to stay natural numbers.
It is not inductive alone: `CollapseSourceIndex` reads the latest announcement, so
`CollapseInv` says that there is one when that step comes, also after a `rowCount()`
from a slot has rebuilt the mapping in between.

**Signals.** The handlers of an opening and of the closing signal decide separately,
in two different trees, whether rows are shown.  `BalanceInv` says for each phase
what is announced, as a function of whether the parent of the operation is open
*now*: what the opening handler saw and what the closing handler will see.  That
both agree is a fact about trees: an insertion, a removal or a permitted move leaves
the ancestors of the parent alone, and forgets the expansion of none of them.
`SourceTreeTheorems` proves that, from a definition of tree that does not count
nodes (each set of indexes has one whose parent is outside it): the climb that
`isSourceIndexVisible` does is the solution of its recursive equation
(`AncestorsUnfold`), ancestors are closed and transitive, no index is its own
ancestor (`NoCycle`), and each change keeps a tree a tree and the ancestors of the
rest as they were (`InsertRowsKeepsTree`, `RemoveRowsKeepsTree`,
`MoveRowsKeepsTree`).  For a first insertion under a parent, which is announced
later and elsewhere, the handlers compare counts; `InsertRowsCounts` gives the sum.
The two assumptions are needed: with `moveAcross` a removal is begun that is never
ended, and with eager listeners a `rowCount()` between the source's reset and the
proxy's handler ends `m_relayouting` early, so that rows are announced inside the
reset.

**The rows.** `RowsInv` says, at every point of every call, which rows a listener
holds and which entries `m_mapping` has.  Rows are a list of nodes in depth-first order
(`IsList`), and a mapping is right for a list when it has the last listed child of each
parent, at its row (`MapsSet` of `Lasts`).  Everything about rows is said of lists, so that no step
needs a formula for a row number.

* `LookupsAgree` is why such a mapping is enough: between two rows with an entry there is no last child,
  so the climb from the second one steps over every row between them, each once.  A subtree is a stretch of
  the list (`SubtreeConvex`), and the number of rows passed is the distance.  `mapFromSource` and
  `mapToSource` therefore return the list and its inverse.
* `Listed` is what the list should hold just now: the indexes whose ancestors are all expanded,
  without those below a parent that is still pending.  `AddPendingRows` adds one parent's children,
  which are a stretch of their own because no pending parent is below another (`Apart`); when
  the queue is empty, the list is the whole visible tree (`WholeList`).
* An insertion is announced before the rows are there, at a row computed from the last one shown
  above them.  `BeginsAhead` says of the announced row that the rows before it are those that come
  before the new ones (`InsertStartIs`); this survives the change of the tree, as the order of the other rows
  does (`KeepsOrder`).  The handler then meets a mapping in which the entry of the old last child may be
  the wrong one; `AddedAmong` and `LastsWithRows` follow which it drops and which it adds.
* A removal takes a stretch of the list (`RemovalIs`: from the first row that goes to the last index below the
  last one, which is shown because all of it is expanded), and the entry of the new last child may
  be missing after it.  `NewEndRowIs` is about the function that puts it back,
  `newEndRow()`, which goes from the next mapped row back over the rows of the levels between (`RowsUpToIs`,
  `PrevParentIs`); the proof goes through its cases.  In the phase before, with `expandsByDefault` off, the
  rows are listed but no longer expanded; `ListedBeforeRemoval` is the list as if they were, which is why
  `ReadableMidway` makes its exception there and no other.
* A layout change or a move keeps the set of rows, and the mapping is built anew; the listener's rows
  are found by the indexes saved before (`FinishLayoutRows`).  Collapsing announces as many rows as are
  listed below the index (`ShownUnderIs`) and rebuilds, too.

`OrdinaryUse` excludes eager listeners, the four operations that go beyond the proxy's tests
(`removeCollapsed`, `moveAcross`, `expandsLoaded` and `collapseAny`), and `removeBeside`, the removal of rows next to
hidden ones.  The runs `descendants_expanded` and `descendants_collapsible` check the same on six and four nodes, the second one
with `removeBeside` as well, which the properties survive and the proof does not cover: it takes it that nothing below the parent
of rows that go is hidden.  The rest of it cannot be dropped: with any single one of
the other five, TLC finds `ShowsVisibleTree`, `ReadableMidway` and `AnnouncesRealRows` violated (section 5
names the lines).

**The selection proxy.** All four theorems come from one invariant of six parts.
`RootsFollowSelection` says more than a run can ask of `m_rootIndexList` in
passing: between calls the roots are `Target(selection)`, all selected indexes or those with nothing
selected above them, although the code never computes that set but patches the list
with the roots that leave and those that come.

* `Flow` says where a call can stand: which phases have a caller to go on to after
  `selectionChanged()` (`resume`), which flags are up there, and that a selection change
  waits only while shown rows come in.  Everything else is read against it.
* `Scope` says that the arguments of the call are about rows the source has, also after slots
  have changed the selection in between, and that a waiting change is what the
  selection differs by from the one the proxy knows (`Earlier`).
* `RootsInv` follows the list of roots through `selectionChanged()`.  While roots are removed one
  block at a time, `Replacing` says that what stays and what is still to come make up the target; this is
  where `RootsChange` is needed, a fact about trees: the roots that the
  code finds doomed (below a newly selected index, or deselected) and those it adds
  (newly selected, or uncovered by a deselection above them) lead from the roots of one selection to
  those of the other.  The removal of source rows is an instance of it, because
  the selection model deselects them first.
* `OrderInv`: the list is in depth-first order.  `SearchFinds` says that `_getRootListRow()`
  stops at the first root that comes behind the new one, and `SearchEnds`
  that the loop which does not advance (line 174) is not entered on such a list.  Both rest on the order of a tree, a section of
  `SourceTreeTheorems`: `Before` is a strict total order, a subtree is an
  interval in it, and insertions and removals of rows keep the order of the rest.
* `SignalInv` says what is announced in each phase, a new root's rows from `beginInsertRows()` over
  `rootIndexAdded()` to `endInsertRows()` (`RootAnnounced`), `HeardInv` which roots a listener
  knows; the listener is one block of roots ahead of the list between
  `rootIndexAboutToBeRemoved()` and `endRemoveRows()`.

The induction over the list and along siblings that these need is stated as a least
counterexample (`LeastExists`): first-order, hence within the provers' reach.
`CalmSelections` says that at most one selection change waits at a time and that slots do not
select while the proxy shows rows that go (`selectRemovingShown`), as in the `selection` run.
It is needed for two of the properties.  On three nodes with
`MaxPending = 3`, TLC finds `RootsInOrder` and `RootsHeard` violated: every waiting change is worked off with the
selection as it is *now*, so that the first one already adds the roots of the second.
With `selectRemovingShown` a change is delivered only with the next insertion and about rows that
have gone meanwhile.  `SignalsNest` was not violated with either (3.6 million states with
`MaxPending = 3`); it is proved here under the same hypothesis because the invariant is.

**The rows of the selection proxy.** The six properties about rows are proved for the three behaviours that
show the selected indexes themselves (`RootsOnTop`): `SubTrees`, `SubTreeRoots` and `ExactSelection`.
There `m_mappedFirstChildren` stays empty, and the tables are two things: the list of roots, and entries of
`m_mappedParents` for some of the rows shown.

* `Fitting(t, s)` says that the tables `t` have the roots `s` and entries only for rows shown, each of them the row
  and parent that row has in the proxy, and with it entries for all above it up to its root; `Showing` adds that each
  row with rows of its own has one.  What tables like that answer is the tree `Shown(s)` (`ReadsShown`): which entries there are
  beyond those makes no difference.
* The repairs keep this.  `createParentMappings` adds the entries that lack (`EntriesAdded`); a shift of rows on
  one level renames the entries of that level and leaves the rest (`TopShift`, `LowerShift`). `InsertFits` and
  `RemovalFits` say that tables which were right for the source before it changed are, once shifted, right for it now.
* The view of a listener is changed by signals, one level at a time.  `GrownTree` and `ShrunkTree` say what a source with
  rows more or less shows, and that it is the listener's view with these rows put in or taken out.
* `RowsInv` joins the two for each point of a call.  Between the steps the tables are fitting, and, when nothing is under way
  that a listener has yet to hear of, showing; while rows come (`Coming`) the source has them already and the tables
  do not have room for them (`TablesBefore`, `ViewBefore`), while rows go (`Going`) it is the other way round.
  In a reset, in a layout change of a model with a selection, and after one in which the selection was emptied,
  the tables are stale and nothing is claimed (`Aside`).  In a slot of `rootIndexAdded()` the tables are those of before with the
  root on their list (`NewlyListed`), and the listener has the rows of before.
  `Announcing` ties what was announced to the arguments of the call.  What roots there are is
  what `RootsInv` and `OrderInv` say.
* The properties are read off `Shown`.  That `ShowsSelection` compares with the one list that the
  selection calls for needs that a set has only one order (`OneOrder`).  `RangesAre` follows
  the runs of neighbouring rows that the code makes of the changed roots.
  `OneRange` and `RootsSideBySide` are about a selection of several top-level rows: what is between two roots that are
  neighbours in the source is no root, so the code's ranges in the source reach no other row of the proxy.

A selection model exchanged for one that has a selection (`selectionModelLoaded`) is left out, as in the run: two of the
tables keep what they had (`:2400`, section 5).

**Roles.** `RolesAgree` and `SourceOfTruthKept` are proved of `Spec` of
`KSortFilterProxyModel`, whose steps the `roles` run takes too (`ChangeRoles` of
`FilteredNumbers`).  `IInv` adds the types and `NamesRead`: once names have been read,
they are those of the source now; without it the name shown could be right
under old names only.  `SyncAgrees` is the heart: whatever the property was before,
`syncRoleProperties` leaves a role and a name that belong together, and changes who leads
only without the guard.

**Filtered numbers.** `FilteredNumbersShown` is proved of `FilteredSpec`, in which
`KNumberModel` is the source of the filter.  The rows of `KNumberModel` are an
arithmetical claim: `rowCount()` rounds a quotient down, and `RowsAreNumbers` says
that the rows it gives are exactly the numbers from the minimum to the maximum at the
step; both setters reset or insert and remove rows so that this stays so.
`ShownInv` says what the proxy shows in between: the rows
the filters accept now, unless a setter changed the text of the rows without
announcing that to the filter (`reformatted`).  `RolesAgreeWithNumbers` carries the theorem about
roles over: each step of `FilteredSpec` is one that `Spec` allows.

**Links.** Sources may change under the mapper, which only hears of the proxies it listens to;
so the first half of the proof is about where the models' sources lead.

* `Leads`: every model has a path of proxies down to a base.  `ChangeSource` refuses to close a circle, and
  `ChangeKeepsPaths` shows that this is enough for paths to remain.  What is claimed along paths is shown by
  `ModelsInduction`: of the models it fails for, none has the shortest path.  That way
  `ProxiesFrom` and `Shown`, recursive functions, are identified with the path and the filters on it.
* `MapperInv`: when connected, the two chains are the ways from both models to
  one that they share, and every proxy on them is listened to (`Meeting`).  When not connected, the two
  bases differ, and *both whole paths* are listened to (`Apart`).  This is why `createProxyChain`
  connects to the proxies it drops from the chains again: two models become relatives by a change
  anywhere below, and only a proxy that is heard can tell.  A change of a proxy nobody listens to
  leaves ways and paths alone; after any other the chains are made anew, and
  `Chains` meets the invariant for any paths.
* `MeetingMaps`: where ways meet, what passes both chains is what both models show,
  whichever common model they meet at.

The second half is about selections, with the calls under way as a stack of any length.

* `SyncInv`: an item in which link and linked model differ is one that some call under
  way settles: it is going to change it in the linked model, or to tell the link of it.  Each of the five commands
  acts on items one by one, so the call that finally changes it tells the link; and the echo, which
  carries differences only, brings both to the linked model's state.  `TellInv` is what `late` is there for: what a call is
  yet to deselect in the link is not selected in the linked model, and what it is yet to select is.
* `OnceInv`: as long as only one call was made, it will have the linked model select what the
  link selects already, or has done so, and the echo changes nothing that the link shows.
* `CurrentsInv`, and `ChecksShowSelection` itself, are kept by every step.
* `CrumbsInv`: with at most one breadcrumb for each item, or with no limit, a way up that ends at a breadcrumb already
  there leaves out nothing, as that one has all above it.  Whatever the order of the ranges, `getBreadcrumbSelection` is then
  `Wanted`, which is proved by a least counterexample over the fold; what is added and what is removed are unions of these.

**Columns.** `ColInv` says of every state what the three properties say of quiet ones.

* `ColTypes`: the rows under each row are a list of them without repetition, and so are the columns and
  their arrangement.  From that alone `IndexIs`, `ParentIs`, `DataIs` and `SiblingIs` compute the proxies'
  `index()`, `parent()`, `data()` and `sibling()`, and `SelectionReachesSource` follows.  `ParentsAre` is why it
  holds with rearranged columns: `FirstColumn` goes back to the column that has the children, wherever it is shown.
* `HeldInv` follows the persistent index through the four phases of a layout change.  It is on
  the row it was taken on except between the source's change and `layoutChanged()`; there the row
  has left, but what the proxy has kept is that row in a column that the source has, and `MovedIs` shows that
  `sibling()` of where that is now is the index in the extra column again.  `HeldShift` and `ItemMoves` say the same
  of columns that come, go and move: the shift Qt applies leads to the same column.
* `HeardInv` compares what a view has drawn with the headers, row by row.  The rows
  that are inserted, removed and moved are the columns that were; a text is not promised in `StaleRows`, and the mark only
  while no columns moved beside it.  In a reset of the source nothing is claimed.

The model's constants need an assumption each: rows and columns are finite, there is a text and an order, and the
invalid index is no index.

**What only TLC checks.** Liveness.  `RolesHeard`, whose listener draws expansion from `dataChanged`
beside the rows.  The properties about rows of `KSelectionProxyModel` in the two behaviours that show the
children of the roots in their place: what is on the top level is then the concatenation of the children of each root, and
`m_mappedFirstChildren` a second table over it.
`TypeOK` of `KSelectionProxyModel`, as it also speaks of the tables where `RowsInv` claims nothing.
Breadcrumbs of length two or more.
Removals beside hidden rows.
The tests' tree.

## 5. Findings

Two runs show the code at odds with its documentation:

* `kdescendantsproxymodel.cpp:930` — removing a row whose last descendant is hidden
  announces rows up to -1 and keeps the row's entry in the mapping.  The header (line 218)
  says of collapsing only that the children are hidden.
* `kselectionproxymodel.cpp:1019` — with `SubTreesWithoutRoots`, rows inserted below a
  shown row are announced at the top level.  The header (line 186) says that the
  selected items' children become part of the model instead of the items.

Further differences, met while modelling and left out of the properties by name or
kept as an operation outside the runs:

* `kdescendantsproxymodel.cpp` `:1022` and `:1037` (a hidden row looked up or counted for the new last child), `:219` (default changed with rows there), `:312` (collapsing a leaf or a hidden
  index), `:501` with `:116` (`rowCount()` from a slot ahead), `:934` (rows forgotten as
  expanded before their removal is announced), `:1143` (moves between shown and hidden
  parents), `:1305` (texts of ancestors).
* `kselectionproxymodel.cpp` `:709` (a last single changed root), `:786` (a layout change left open when a slot has
  emptied the selection meanwhile), `:1942`, `:1952` and `:1978` (a slot of `rootIndexAdded()` reads rows whose insertion has not
  ended), `:1767` (changes that wait for the next insertion), `:2400` (tables of the old selection model), `:2549` (several top-level rows mapped to the source).
* `klinkitemselectionmodel.cpp:92` (the old linked model keeps driving), `:179` (a slot between the two calls: selections that
  stay apart), `kbreadcrumbselectionmodel.cpp:168` (shared breadcrumbs go), `:141` and `:146` (a way up ends at a breadcrumb whose own
  way is shorter; the slot of `:50` is taken to be connected before the link's), `knumbermodel.cpp:90` (a signal to an
  invalid index), `kcolumnheadersmodel.cpp:124` (the sort mark stays at its number),
  `krearrangecolumnsproxymodel.cpp` (headers that change, and columns that come and go, are announced under the source's numbers),
  `ksortfilterproxymodel.cpp:194` and `:222` (a role number set without a source, after a name, loses to the name when
  the source comes).
* `dynamictreemodel.cpp:734` (several rows moved down land one row off) and the false
  alarm of `modeltest.cpp:604`, in the tests.

## 6. Plan

1. The rows of `KSelectionProxyModel` with the children of the roots on the top level; its types in a reset.
2. More about `KDescendantsProxyModel`: `RolesHeard` from the rows; what remains true of the rows under
   each operation that `OrdinaryUse` excludes.
3. `canFetchMore`, and the destruction of a source during a call.
