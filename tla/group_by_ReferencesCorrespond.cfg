CONSTANTS
    Jobs <- MCStarJobs
    Files <- MCFiles
SPECIFICATION Spec
INVARIANT ReferencesCorrespond
