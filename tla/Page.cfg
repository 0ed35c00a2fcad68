\* A page that opens two folders, browses and searches, and the helper, fairly scheduled.
SPECIFICATION PageSpec
CONSTANTS
    Browsers = {b}
    Helpers = {h}
    Jobs = {j1, j2}
    Scopes = {Top, s}
    Top = Top  NoJob = NoJob
    MaxFaults = 1
    Views = {v, w}
    Images = {x, y}
    NoImage = NoImage
    MaxAttempts = 1
    MaxClicks = 3
    Pictures = {picture}
    Videos = {video}
    Readers = {r1, r2}
    MaxVersion = 3
    Limit = 2
    MaxDate = 2
    MaxComments = 4
    Chars = {"a", "_", "%", "$"}
    MaxRoot = 3
    MaxPath = 4
    UrlChars = {"a", "%", "2", "5", "?", " ", "$"}
    MaxUrl = 4
    Words <- AsciiWords
    Tags <- AsciiTags
    CommentTexts <- AsciiComments
    Paths <- AsciiPaths
    MaxLeaves = 4
    MaxTerms = 3
    TagTexts <- Labels
    Remarks <- Sentences
    Alphabet <- AsciiAndE
    Letters <- SomeLetters
    LowerCase <- LowerCases
    Width <- Widths
    StopWords <- Stops
    TagWeight = 2
    MaxKept = 3
    MaxBytes = 6
INVARIANTS
    TypeOK OneLoopPerJob ShownResultsHold
    InspectorShowsWanted RouteIsShown
    ServedNotOlder WalkedVideosCached HistoryComplete
    ScopesHold QueriesMeanWhatTheySay UrlsNameTheirFile VectorsCanonical
PROPERTIES LoopsEnd SimilarInOrder
CHECK_DEADLOCK FALSE
