SPECIFICATION CompletionSpec
CONSTANTS
    Starts      <- MCStarts
    Keys        <- MCKeys
    Symbols     <- MCSymbols
    IdentChars  <- MCIdentChars
    Tables      <- MCTables
    KeywordList <- MCKeywordList
    NextClauses <- MCNextClauses
    Operators   <- MCOperators
    SqlWords    <- MCSqlWords
    MaxEdits    = 2
    MaxRequests = 2
    Nothing     = Nothing
INVARIANTS
    SelectionInRange
    AliasResolved
PROPERTY
    AcceptKeepsText
