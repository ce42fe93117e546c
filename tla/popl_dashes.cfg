\* The command line parser: after "--" a word is still taken for an option.
SPECIFICATION Spec
CONSTANTS
    Number <- MCNumber
    Space = " "
    Catalogue <- MCCatalogue
    Commands <- MCCommands
    IniFiles <- MCIniFiles
    SetTexts <- MCSetTexts
    MaxCalls = 2
INVARIANT OnlyNonOptionsAfterDashes
CHECK_DEADLOCK FALSE
