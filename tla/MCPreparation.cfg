SPECIFICATION FairBaseSpec
CONSTANTS
    Nothing = Nothing
    Context = context
    Tools = {tool1, tool2}
    NumDocs = 2
    MaxVersion = 2
    MaxRun = 2
    Hard = {source}
    Soft = {physics}
    Covers <- MCCovers
    manual = manual
    main = main
    second = second
    Manuals = {manual}
    Examples = {main, second}
    Chunks <- MCChunks
    Read <- MCRead
    Before <- MCBefore
    MaxEdit <- MCMaxEdit
INVARIANTS
    IndexIsSound
    BuiltIsTrue
    OutagesNeverBlock
PROPERTY
    PreparationEnds
