------------------------------ MODULE MCRoles ------------------------------
EXTENDS FilteredNumbers

CONSTANTS userRole, display, title

MCColumns == -1 .. 1
MCBounds == 0 .. 2
MCSteps == {-1, 0, 1}
MCRowNumbers == 0 .. 2
MCCallbacks ==
    {[row \in MCRowNumbers |-> CASE row = 0 -> "yes" [] row = 1 -> "no" [] row = 2 -> "error"],
     [row \in MCRowNumbers |-> IF row = 0 THEN "no" ELSE "yes"]}
MCNumberRoles == [r \in RoleIds |-> IF r = DisplayRole THEN display ELSE title]
============================================================================
