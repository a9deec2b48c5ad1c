SPECIFICATION FilteredSpec
CONSTANTS
    DisplayRole = DisplayRole
    userRole = userRole
    NoName = NoName
    display = display
    title = title
    RoleIds = {DisplayRole, userRole}
    Names = {display, title}
    Columns <- MCColumns
    Bounds <- MCBounds
    Steps <- MCSteps
    Thousand = 2
    Callbacks <- MCCallbacks
    RowNumbers <- MCRowNumbers
    NoCallback = NoCallback
    NumberRoles <- MCNumberRoles
INVARIANTS
    RolesAgree
    SourceOfTruthKept
    FilteredNumbersShown
