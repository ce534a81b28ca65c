SPECIFICATION ScriptsSpec
CONSTANTS
    Platforms = {"windows"}
    AllowLists = {{"check-in", "ingest"}}
    MaxScript = 2
    MaxTrouble = 1
INVARIANT FailedMeansNotContained
