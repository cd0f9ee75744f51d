SPECIFICATION Spec
CONSTANTS
    Paragraphs <- StuckParagraphs
    Documents = {}
    Tables = {}
    Drafts = {}
    Rows = {}
    Pages = {}
    Sources = {}
    ValueRows = {}
    Encodings = {}
    Days = {}
    Values = {}
    Texts = {}
    FactSources = {}
    NoId = NoId
    BadName = BadName
    Big = Big
    RasterWidth = 3
    ByteLimit = 16
    ShortString = 1
INVARIANT BreakReturns
\* An algorithm runs once.
CHECK_DEADLOCK FALSE
