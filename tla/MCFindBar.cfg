SPECIFICATION Spec
CONSTANTS
    None = None
    a = a
    b = b
    Texts <- MCTexts
    Queries <- MCQueries
    Replacements <- MCReplacements
    MaxLen = 3
    MaxTerms = 2
    MaxLoads = 1
INVARIANTS
    TermsOnce
    BrowsingShowsEntry
PROPERTIES
    ReplaceExact
