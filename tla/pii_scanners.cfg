SPECIFICATION Spec
CONSTANTS
    Char <- MCChar
    Texts <- MCTexts
INVARIANTS
    TypeOK
    NothingLeft
    OnlyPatternsRemoved
    MappedIsOneAddress
