SPECIFICATION Spec
CHECK_DEADLOCK FALSE
CONSTANTS
    item1 = item1
    item2 = item2
    item3 = item3
    item4 = item4
    proxy1 = proxy1
    proxy2 = proxy2
    None = None
    Link = Link
    Items = {item1, item2, item3, item4}
    Bases = {base, base2}
    Proxies = {proxy1, proxy2}
    Filter <- MCFilter
    Others = {trail, side}
    CrumbItems = {item1, item2, item3, item4}
    NoItem = None
    Trail = trail
    LinkItems = {item1, item2, item3}
    Depths <- MCDepths
    Places <- MCPlaces
    MaxCalls = 2
    Scenarios <- MCScenarios
    Commands = {"Toggle", "ClearAndSelect"}
INVARIANTS
    ConnectsRelatives
    LinkInSync
    CurrentsAgree
    SelectsOnce
    BreadcrumbsLeadThere
    ChecksShowSelection
