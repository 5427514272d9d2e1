SPECIFICATION TextSpec
CONSTANTS
    Texts = {}
    Letters <- MCLetters
    Cap = 100
    Room = 10
    Vars <- MCVars
    Freed <- MCFreed
    Functions <- MCFunctions
    Structs <- MCStructs
    Packs <- MCPacks
    Strings <- MCStrings
    Sentences <- MCSentences
INVARIANTS
    ParsesBack
    AcceptsLegal
