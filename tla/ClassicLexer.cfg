SPECIFICATION Spec
CONSTANTS
    Texts <- MCTexts
    Letters <- MCLetters
    Cap = 4
    Room = 1
INVARIANTS
    TokensAreText
    LongestTokens
    PlaceOfToken
    StringsEndWhereTheyEnd
PROPERTY
    EveryRoundReads
