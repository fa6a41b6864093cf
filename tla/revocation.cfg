\* A key is revoked and the page visited again.
SPECIFICATION DashboardSpec
CONSTANTS
    old = old
    new = new
    Ids = {old, new}
    InitialKeys <- MCInitialKeys
    InitialRules <- MCInitialRules
    Forms <- MCForms
    DefaultForm <- MCDefaultForm
    MarkTime = 2
    MaxCopies = 3
CHECK_DEADLOCK FALSE

PROPERTIES RevocationLasts
