CONSTANTS
    numVars <- MCnumVars
    Keys = {" ", "-", "<", "(", ")", "0", ".", "mapp"}
    MaxLength = 4
SPECIFICATION Spec
INVARIANTS
    TypeOK
    AcceptsTheLanguage
    OfferedIffViable
