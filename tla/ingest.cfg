SPECIFICATION Spec
CONSTANTS
    Files = {"plain", "special"}
    Urls = {"page"}
    Memories = {"export"}
    Batches <- MCBatches
    Type <- MCType
    Length <- MCLength
    Vectors <- MCVectors
    SameEmbedder = {"export"}
    DefaultTypes = {"text"}
    PluginTypes = {"plugin"}
    DefaultSize = 3
    Sizes = {0}
    TooShort = 1
    Loop = Loop
    MaxUploads = 2
    MaxDeletes = 1
    MaxToggles = 1
INVARIANTS
    SplitAsAsked
    FinishedIsComplete
    BatchInOrder
    AcceptedIsParsed
CHECK_DEADLOCK FALSE
