\* Tags with a letter outside ASCII, and with two underscores.
SPECIFICATION InputsSpec
CONSTANTS
    Chars = {"a"}
    MaxRoot = 1
    MaxPath = 1
    UrlChars = {"a"}
    MaxUrl = 1
    Words <- AsciiWords
    Tags <- OtherTags
    CommentTexts <- AsciiComments
    Paths <- AsciiPaths
    MaxLeaves = 1
    MaxTerms = 20
    TagTexts = {}
    Remarks = {}
    Alphabet <- AsciiAndE
    Letters <- SomeLetters
    LowerCase <- LowerCases
    Width <- Widths
    StopWords = {}
    TagWeight = 2
    MaxKept = 128
    MaxBytes = 128
INVARIANTS QueriesMeanWhatTheySay
