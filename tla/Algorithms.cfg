SPECIFICATION Spec
CONSTANTS
    Paragraphs <- MCParagraphs
    Documents <- MCDocuments
    Tables <- MCTables
    Drafts <- MCDrafts
    Rows <- MCRows
    Pages <- MCPages
    Sources <- MCSources
    ValueRows <- MCValueRows
    Encodings <- MCEncodings
    Days <- MCDays
    Values <- MCValues
    Texts <- MCTexts
    FactSources <- MCFactSources
    NoId = NoId
    BadName = BadName
    Big = Big
    RasterWidth = 3
    ByteLimit = 16
    ShortString = 1
INVARIANT ParagraphsBroken
INVARIANT ColumnsSet
INVARIANT TablesLaid
INVARIANT RasterCarried
INVARIANT Compressed
INVARIANT RowsExact
INVARIANT FactsLoaded
\* An algorithm runs once.
CHECK_DEADLOCK FALSE
