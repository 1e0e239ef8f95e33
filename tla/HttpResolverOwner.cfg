SPECIFICATION AcquisitionSpec
CONSTANTS
    j1 = j1
    j2 = j2
    o1 = o1
    o2 = o2
    None = None
    Jobs <- MCJobs
    Callers <- MCJobs
    Starts <- MCStarts
    Artifacts <- MCArtifacts
    Outputs <- MCOutputs
    Archives <- MCArchives
    MaxRedirects = 1
    MaxTampers = 2
    EocdSize = 2
    Zip64Size = 1
    MaxEntries = 2
    MaxDirectory = 3
    MaxExpanded = 3
    MaxRatio = 2
INVARIANT StartedResolverHasOwner
CHECK_DEADLOCK FALSE
