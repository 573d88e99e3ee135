SPECIFICATION Spec
CONSTANTS
    Char <- MCChar
    Texts <- MCTexts
INVARIANT NoEmailLeft
