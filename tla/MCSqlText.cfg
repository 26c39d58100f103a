SPECIFICATION TypingSpec
CONSTANTS
    Keyboards  <- MCKeyboards
    MaxTyped   = 6
    Letters    <- MCLetters
    Digits     <- MCDigits
    Keywords   <- MCKeywords
    WriteWords <- MCWriteWords
    Values     <- MCValues
INVARIANTS
    HighlightCovers
    ParamsHighlighted
    ValuesConfined
    StatementsFound
