\* Searches and related features over every store of up to five commits.
CONSTANTS
    d1 = d1
    d2 = d2
    d3 = d3
    d4 = d4
    d5 = d5
    app = app
    lib = lib
    page = page
    scroll = scroll
    cache = cache
    button = button
    break = break
    source = source
    breaking = breaking
    python = python
    pageList = pageList
    useCache = useCache
    other = other
    b = b
    p = p
    s = s
    caching = caching
    pagination = pagination
    ui = ui
    NoAnswer = NoAnswer
    Docs <- FiveDocs
    RepoOf <- MCRepoOf
    TitleOf <- MCTitleOf
    TagsOf <- MCTagsOf
    TokensOf <- MCTokensOf
    Labels <- ThreeLabels
    MembersOf <- MCMembersOf
    GenericTags <- MCGenericTags
    Alphabet <- MCAlphabet
    Begins <- MCBegins
    Queries <- MCQueries
    Offsets <- MCOffsets
    MinScores <- MCMinScores
    SeedKs <- OneTwo
    Limits <- OneTwo
    SuggestLimits <- TwoFour
SPECIFICATION SearchSpec
INVARIANTS
    SearchExact
    RelatedByContent
    HeaviestOffered
    ClosestRelated
    SuggestionsGrounded
\* After an answer there is nothing to do.
CHECK_DEADLOCK FALSE
