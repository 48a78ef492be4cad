SPECIFICATION SearchSpec
CONSTANTS
    Letter <- MCLetter
    PhraseSets <- MCPhraseSets
    Texts <- MCTexts
PROPERTY SearchEnds
CHECK_DEADLOCK FALSE
