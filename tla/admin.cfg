\* Three copies in a row; a dialog opened, cancelled and opened otherwise.
SPECIFICATION DashboardFairSpec
CONSTANTS
    old = old
    new = new
    Ids = {old, new}
    InitialKeys <- MCInitialKeys
    InitialRules <- MCInitialRules
    Forms <- MCForms
    DefaultForm <- MCDefaultForm
    MarkTime = 2
    MaxCopies = 3
CHECK_DEADLOCK FALSE
PROPERTIES MarkEnds SaveKeepsToItsButton
