CONSTANTS
    j1 = j1
    j2 = j2
    o1 = o1
    o2 = o2
    canonical = canonical
    relabelled = relabelled
    stale = stale
    None = None
    Jobs <- MCJobs
    Starts <- MCStarts
    Outputs <- MCOutputs
    Images <- MCImages
    Labelled <- MCLabelled
    Canonical <- MCCanonical
    MaxTampers = 2
SPECIFICATION TpchSpec
INVARIANTS
    RanVerifiedImage
    GeneratedIsVerified
    GenerationTakenBack
    ForeignFilesSurvive
CHECK_DEADLOCK FALSE
