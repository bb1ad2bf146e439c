CONSTANTS
    OnErrorTexts <- MCOnErrorTexts
    FormatTexts <- MCFormatTexts
    CompressionTexts <- MCCompressionTexts
    Err = Err
    NotParsed = NotParsed
SPECIFICATION Spec
\* Each clause is parsed once; a behaviour ends when all three options are parsed.
CHECK_DEADLOCK FALSE
INVARIANTS
    TypeOK
    ListedOptionsParse
