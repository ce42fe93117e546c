\* The command line parser: every parse is the reference, also when it throws.
SPECIFICATION Spec
CONSTANTS
    Number <- MCNumber
    Space = " "
    Catalogue <- MCCatalogue
    Commands <- MCCommands
    IniFiles <- MCIniFiles
    SetTexts <- MCSetTexts
    MaxCalls = 2
INVARIANTS
    PoplTypeOK
    VariableFollows
    ParseIsReference
    IniIsReference
    AccessorsAgree
    HelpIsParsable
CHECK_DEADLOCK FALSE
