SPECIFICATION Spec
CONSTANTS
    MaxOther = 2
    MinEncoded = 2
    IntMax = 99
    MaxUULines = 3
    MaxYencLines = 3
    Articles <- MCArticles
INVARIANTS
    TypeOK
    TextIsTheRest
    ArticleArrives
PROPERTIES
    ReadersAdvance
