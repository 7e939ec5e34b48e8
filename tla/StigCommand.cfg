\* Reports and deltas of one or two files, matched with four kinds of benchmark input.
CONSTANTS
    ScanSets <- MCScanSets
    BenchmarkSets <- MCBenchmarkSets
SPECIFICATION Spec
INVARIANTS
    ResolvedWasRescanned ClassifiedByIdentity EveryFindingTagged MirrorImage
    WorkbookAgreesWithTags EveryFileAccounted
CHECK_DEADLOCK FALSE
